------------------------- MODULE OrchestratorProofs -------------------------
(***************************************************************************)
(* For all requests, users, roles and scores: Envoy and the orchestrator   *)
(* together implement AuthGate, and the model learns only from requests    *)
(* that were allowed.                                                      *)
(*                                                                         *)
(* The invariant says of the goroutine of a request (Sound) that it works  *)
(* only while Envoy waits or has given up, that past Verify the token is   *)
(* genuine, and that what it allowed, lets the model learn, or Envoy has   *)
(* served, was permitted as it was described.  No step takes an evaluation *)
(* or the fate of a request back (Forward).                                *)
(***************************************************************************)
EXTENDS Orchestrator, TLAPS

Sound(r) ==
  /\ eval[r].pc \in Working => gate[r] \in {"waiting", "gaveup"}
  /\ eval[r].pc \in {"tpm", "infer", "opa"} => ~ask[r].forged
  /\ eval[r].pc = "opa" => eval[r].score \in Scores \cup {Fallback}
  /\ eval[r].allow \/ r \in updates \cup memory => Permitted(ask[r])
  /\ gate[r] = "forwarded" => Permitted(ask[r])

IInv == TypeOK /\ LearntUnlessGivenUp /\ \A r \in Requests : Sound(r)

-----------------------------------------------------------------------------
LEMMA InitIInv == Init => IInv
BY DEF Init, IInv, TypeOK, LearntUnlessGivenUp, Sound, Fallback, Working

\* A step of the goroutine of r alone.
LEMMA StepIInv ==
  ASSUME IInv, NEW r \in Requests,
         NEW from \in Working, NEW to \in Working, Step(r, from, to),
         to # "opa",
         to \in {"tpm", "infer"} => ~ask[r].forged
  PROVE  IInv'
<1>1. TypeOK'
  BY DEF IInv, TypeOK, Step, Working
<1>2. /\ \A q \in Requests \ {r} : eval'[q] = eval[q]
      /\ eval'[r].pc = to /\ eval'[r].score = eval[r].score
      /\ eval'[r].allow = eval[r].allow
  BY DEF IInv, TypeOK, Step
<1>3. LearntUnlessGivenUp'
  BY <1>2 DEF IInv, TypeOK, LearntUnlessGivenUp, Step
<1>4. \A q \in Requests : Sound(q)'
  <2>1. \A q \in Requests \ {r} : Sound(q)'
    BY <1>2 DEF IInv, Sound, Step
  <2>2. Sound(r)'
    BY <1>2 DEF IInv, Sound, Step, Working
  <2>3. QED
    BY <2>1, <2>2
<1>5. QED
  BY <1>1, <1>3, <1>4 DEF IInv

LEMMA ReceiveIInv == ASSUME IInv, NEW r \in Requests, Receive(r) PROVE IInv'
<1>0. ask[r] \in Asks
  BY DEF IInv, TypeOK
<1>1. TypeOK'
  BY DEF IInv, TypeOK, Receive, Working
<1>2. /\ \A q \in Requests \ {r} : eval'[q] = eval[q] /\ gate'[q] = gate[q]
      /\ eval'[r].allow = eval[r].allow /\ eval'[r].score = eval[r].score
      /\ gate'[r] = "waiting"
      /\ \/ eval'[r].pc = eval[r].pc
         \/ eval'[r].pc = "verify"
         \/ eval'[r].pc = "infer" /\ ask[r].user = "nobody"
  BY DEF IInv, TypeOK, Receive
<1>3. LearntUnlessGivenUp'
  BY <1>2 DEF IInv, TypeOK, LearntUnlessGivenUp, Receive
<1>4. \A q \in Requests : Sound(q)'
  <2>1. \A q \in Requests \ {r} : Sound(q)'
    BY <1>2 DEF IInv, Sound, Receive
  <2>2. Sound(r)'
    BY <1>0, <1>2, OrchestratorAssumption DEF IInv, Sound, Receive, Working
  <2>3. QED
    BY <2>1, <2>2
<1>5. QED
  BY <1>1, <1>3, <1>4 DEF IInv

LEMMA InferIInv == ASSUME IInv, NEW r \in Requests, Infer(r) PROVE IInv'
<1>1. PICK score \in Scores \cup {Fallback} :
        eval' = [eval EXCEPT ![r] =
                   [pc |-> "opa", score |-> score, allow |-> eval[r].allow]]
  BY DEF Infer
<1>2. score \in 0 .. 100
  BY ScoresAssumption DEF Fallback
<1>3. TypeOK'
  <2>1. eval' \in [Requests -> [pc : {"idle", "over"} \cup Working,
                               score : 0 .. 100, allow : BOOLEAN]]
    <3>1. [pc |-> "opa", score |-> score, allow |-> eval[r].allow]
            \in [pc : {"idle", "over"} \cup Working, score : 0 .. 100, allow : BOOLEAN]
      BY <1>2 DEF IInv, TypeOK, Working
    <3>2. QED
      BY <1>1, <3>1 DEF IInv, TypeOK
  <2>2. QED
    BY <2>1 DEF IInv, TypeOK, Infer
<1>4. /\ \A q \in Requests \ {r} : eval'[q] = eval[q]
      /\ eval'[r].pc = "opa" /\ eval'[r].score = score
      /\ eval'[r].allow = eval[r].allow
  BY <1>1 DEF IInv, TypeOK
<1>5. LearntUnlessGivenUp'
  BY <1>4 DEF IInv, TypeOK, LearntUnlessGivenUp, Infer
<1>6. \A q \in Requests : Sound(q)'
  <2>1. \A q \in Requests \ {r} : Sound(q)'
    BY <1>4 DEF IInv, Sound, Infer
  <2>2. Sound(r)'
    BY <1>4 DEF IInv, Sound, Infer, Working
  <2>3. QED
    BY <2>1, <2>2
<1>7. QED
  BY <1>3, <1>5, <1>6 DEF IInv

LEMMA EvalOPAIInv == ASSUME IInv, NEW r \in Requests, EvalOPA(r) PROVE IInv'
<1>1. TypeOK'
  <2> DEFINE States == [pc : {"idle", "over"} \cup Working, score : 0 .. 100,
                        allow : BOOLEAN]
  <2>1. eval \in [Requests -> States] /\ eval[r].score \in 0 .. 100
    BY DEF IInv, TypeOK
  <2>2. [pc |-> "answer", score |-> eval[r].score, allow |-> TRUE] \in States
    BY <2>1 DEF Working
  <2>3. [eval[r] EXCEPT !.pc = "answer"] \in States
    BY <2>1 DEF Working
  <2>4. eval' \in [Requests -> States]
    BY <2>1, <2>2, <2>3 DEF EvalOPA
  <2>5. QED
    BY <2>4 DEF IInv, TypeOK, EvalOPA
<1>2. /\ \A q \in Requests \ {r} : eval'[q] = eval[q]
      /\ eval'[r].pc = "answer"
      /\ updates' \subseteq updates \cup {r}
  BY DEF IInv, TypeOK, EvalOPA
<1>3. ~ask[r].forged /\ eval[r].score \in Scores \cup {Fallback}
      /\ gate[r] \in {"waiting", "gaveup"}
  BY DEF IInv, Sound, EvalOPA, Working
<1>4. CASE /\ allow(Input(ask[r], eval[r].score))
           /\ eval' = [eval EXCEPT ![r] =
                [pc |-> "answer", score |-> eval[r].score, allow |-> TRUE]]
  <2>1. Permitted(ask[r])
    BY <1>3, <1>4 DEF Permitted
  <2>2. eval'[r].allow
    BY <1>4 DEF IInv, TypeOK
  <2>3. LearntUnlessGivenUp'
    BY <1>2, <1>3, <2>2 DEF IInv, TypeOK, LearntUnlessGivenUp, EvalOPA
  <2>4. \A q \in Requests \ {r} : Sound(q)'
    BY <1>2 DEF IInv, Sound, EvalOPA
  <2>5. Sound(r)'
    BY <1>2, <1>3, <2>1 DEF IInv, Sound, EvalOPA, Working
  <2>6. QED
    BY <1>1, <2>3, <2>4, <2>5 DEF IInv
<1>5. CASE eval' = [eval EXCEPT ![r].pc = "answer"] /\ UNCHANGED updates
  <2>1. eval'[r].allow = eval[r].allow
    BY <1>5 DEF IInv, TypeOK
  <2>2. LearntUnlessGivenUp'
    BY <1>2, <1>5, <2>1 DEF IInv, TypeOK, LearntUnlessGivenUp, EvalOPA
  <2>3. \A q \in Requests \ {r} : Sound(q)'
    BY <1>2, <1>5 DEF IInv, Sound, EvalOPA
  <2>4. Sound(r)'
    BY <1>2, <1>3, <1>5, <2>1 DEF IInv, Sound, EvalOPA, Working
  <2>5. QED
    BY <1>1, <2>2, <2>3, <2>4 DEF IInv
<1>6. QED
  BY <1>4, <1>5 DEF EvalOPA

LEMMA RespondIInv == ASSUME IInv, NEW r \in Requests, Respond(r) PROVE IInv'
<1>1. TypeOK'
  BY DEF IInv, TypeOK, Respond, Working
<1>2. /\ \A q \in Requests \ {r} : eval'[q] = eval[q] /\ gate'[q] = gate[q]
      /\ eval'[r].pc = "over" /\ eval'[r].allow = eval[r].allow
      /\ gate[r] = "waiting" /\ eval[r].allow => gate'[r] = "forwarded"
      /\ gate[r] # "waiting" => gate'[r] = gate[r]
      /\ gate'[r] = "forwarded" => gate[r] = "forwarded" \/ eval[r].allow
  BY DEF IInv, TypeOK, Respond
<1>3. LearntUnlessGivenUp'
  BY <1>2 DEF IInv, TypeOK, LearntUnlessGivenUp, Respond
<1>4. \A q \in Requests \ {r} : Sound(q)'
  BY <1>2 DEF IInv, Sound, Respond
<1>5. Sound(r)'
  <2>1. (Permitted(ask[r]))' <=> Permitted(ask[r])
    BY DEF Respond
  <2>2. eval'[r].allow \/ r \in (updates \cup memory)' => Permitted(ask[r])
    BY <1>2 DEF IInv, Sound, Respond
  <2>3. gate'[r] = "forwarded" => Permitted(ask[r])
    BY <1>2 DEF IInv, Sound
  <2>4. QED
    BY <1>2, <2>1, <2>2, <2>3 DEF Sound, Working
<1>6. QED
  BY <1>1, <1>3, <1>4, <1>5 DEF IInv

LEMMA GiveUpIInv == ASSUME IInv, NEW r \in Requests, GiveUp(r) PROVE IInv'
<1>1. TypeOK'
  BY DEF IInv, TypeOK, GiveUp
<1>2. \A q \in Requests \ {r} : gate'[q] = gate[q]
  BY DEF IInv, TypeOK, GiveUp
<1>3. gate'[r] = "gaveup"
  BY DEF IInv, TypeOK, GiveUp
<1>4. LearntUnlessGivenUp'
  BY <1>2, <1>3 DEF IInv, TypeOK, LearntUnlessGivenUp, GiveUp
<1>5. \A q \in Requests : Sound(q)'
  BY <1>2, <1>3 DEF IInv, Sound, GiveUp
<1>6. QED
  BY <1>1, <1>4, <1>5 DEF IInv

LEMMA UpdateIInv == ASSUME IInv, NEW r \in Requests, Update(r) PROVE IInv'
<1>1. updates' \subseteq updates /\ memory' \subseteq memory \cup updates
  BY DEF Update
<1>2. QED
  BY <1>1 DEF IInv, TypeOK, LearntUnlessGivenUp, Sound, Update

LEMMA StopIInv == ASSUME IInv, Stop PROVE IInv'
<1> DEFINE States == [pc : {"idle", "over"} \cup Working, score : 0 .. 100,
                      allow : BOOLEAN]
<1>0. ASSUME NEW q \in Requests
      PROVE  /\ eval'[q] \in States /\ eval'[q].pc \notin Working
             /\ eval'[q].allow = eval[q].allow
  <2>1. eval[q] \in States
    BY DEF IInv, TypeOK
  <2>2. CASE eval[q].pc \in Working
    <3>1. eval'[q] = [eval[q] EXCEPT !.pc = "over"]
      BY <2>2 DEF Stop
    <3>2. QED
      BY <2>1, <3>1 DEF Working
  <2>3. CASE eval[q].pc \notin Working
    <3>1. eval'[q] = eval[q]
      BY <2>3 DEF Stop
    <3>2. QED
      BY <2>1, <2>3, <3>1
  <2>4. QED
    BY <2>2, <2>3
<1>1. TypeOK'
  <2>1. eval' \in [Requests -> States]
    BY <1>0 DEF Stop
  <2>2. QED
    BY <2>1 DEF IInv, TypeOK, Stop
<1>2. \A q \in Requests : /\ eval'[q].pc \notin Working
                          /\ eval'[q].allow = eval[q].allow
  BY <1>0
<1>3. LearntUnlessGivenUp'
  BY <1>2 DEF IInv, TypeOK, LearntUnlessGivenUp, Stop
<1>4. \A q \in Requests : Sound(q)'
  BY <1>2 DEF IInv, Sound, Stop, Working
<1>5. QED
  BY <1>1, <1>3, <1>4 DEF IInv

LEMMA NextIInv == IInv /\ [Next]_vars => IInv'
<1> SUFFICES ASSUME IInv, [Next]_vars PROVE IInv'
  OBVIOUS
<1>1. ASSUME NEW r \in Requests, Receive(r) PROVE IInv'
  BY <1>1, ReceiveIInv
<1>2. ASSUME NEW r \in Requests, Verify(r) PROVE IInv'
  BY <1>2, StepIInv DEF Verify, Working
<1>3. ASSUME NEW r \in Requests, TPM(r) PROVE IInv'
  <2>1. ~ask[r].forged
    BY <1>3 DEF IInv, Sound, TPM, Step
  <2>2. QED
    BY <1>3, <2>1, StepIInv DEF TPM, Working
<1>4. ASSUME NEW r \in Requests, Infer(r) PROVE IInv'
  BY <1>4, InferIInv
<1>5. ASSUME NEW r \in Requests, EvalOPA(r) PROVE IInv'
  BY <1>5, EvalOPAIInv
<1>6. ASSUME NEW r \in Requests, Respond(r) PROVE IInv'
  BY <1>6, RespondIInv
<1>7. ASSUME NEW r \in Requests, GiveUp(r) PROVE IInv'
  BY <1>7, GiveUpIInv
<1>8. ASSUME NEW r \in Requests, Update(r) PROVE IInv'
  BY <1>8, UpdateIInv
<1>9. CASE Stop
  BY <1>9, StopIInv
<1>10. CASE Start
  BY <1>10 DEF IInv, TypeOK, LearntUnlessGivenUp, Sound, Start
<1>11. CASE UNCHANGED vars
  BY <1>11 DEF IInv, TypeOK, LearntUnlessGivenUp, Sound, vars
<1>12. QED
  BY <1>1, <1>2, <1>3, <1>4, <1>5, <1>6, <1>7, <1>8, <1>9, <1>10, <1>11
     DEF Next, Evaluate

LEMMA Invariance == Spec => []IInv
BY InitIInv, NextIInv, PTL DEF Spec
-----------------------------------------------------------------------------
\* What the steps do to the fate of a request.
LEMMA FateOf ==
  ASSUME TypeOK, NEW r \in Requests, NEW after \in DOMAIN Fates,
         gate' = [gate EXCEPT ![r] = after]
  PROVE  fate' = [fate EXCEPT ![r] = Fates[after]]
BY DEF TypeOK, fate, Fates

LEMMA InitGate == Init => Gate!Init
BY DEF Init, Gate!Init, fate, Fates

\* A step is one of the gate, or changes nothing that the gate sees.
LEMMA NextGate == IInv /\ [Next]_vars => [Gate!Next]_(Gate!vars)
<1> SUFFICES ASSUME IInv, [Next]_vars PROVE [Gate!Next]_(Gate!vars)
  OBVIOUS
<1> USE DEF Gate!Next, Gate!vars
<1>t. TypeOK
  BY DEF IInv
<1>1. ASSUME NEW r \in Requests, Receive(r) PROVE Gate!Submit(r)
  <2>1. fate' = [fate EXCEPT ![r] = "pending"]
    BY <1>1, <1>t, FateOf DEF Receive, Fates
  <2>2. QED
    BY <1>1, <2>1 DEF Receive, Gate!Submit, Gate!Become, fate, Fates
<1>2. ASSUME NEW r \in Requests, Verify(r) \/ TPM(r) \/ Infer(r) \/ EvalOPA(r)
      PROVE  UNCHANGED Gate!vars
  BY <1>2 DEF Verify, TPM, Infer, EvalOPA, Step, fate
<1>3. ASSUME NEW r \in Requests, Respond(r) PROVE [Gate!Next]_(Gate!vars)
  <2>1. CASE gate[r] = "waiting" /\ eval[r].allow
    <3>1. fate' = [fate EXCEPT ![r] = "served"]
      BY <1>3, <1>t, <2>1, FateOf DEF Respond, Fates
    <3>2. Permitted(ask[r])
      BY <2>1 DEF IInv, Sound
    <3>3. Gate!Serve(r)
      BY <1>3, <2>1, <3>1, <3>2 DEF Respond, Gate!Serve, Gate!Become, fate, Fates
    <3>4. QED
      BY <3>3
  <2>2. CASE gate[r] = "waiting" /\ ~eval[r].allow
    <3>1. fate' = [fate EXCEPT ![r] = "refused"]
      BY <1>3, <1>t, <2>2, FateOf DEF Respond, Fates
    <3>2. Gate!Refuse(r)
      BY <1>3, <2>2, <3>1 DEF Respond, Gate!Refuse, Gate!Become, fate, Fates
    <3>3. QED
      BY <3>2
  <2>3. CASE gate[r] # "waiting"
    BY <1>3, <2>3 DEF Respond, fate
  <2>4. QED
    BY <2>1, <2>2, <2>3
<1>4. ASSUME NEW r \in Requests, GiveUp(r) PROVE Gate!Refuse(r)
  <2>1. fate' = [fate EXCEPT ![r] = "refused"]
    BY <1>4, <1>t, FateOf DEF GiveUp, Fates
  <2>2. QED
    BY <1>4, <2>1 DEF GiveUp, Gate!Refuse, Gate!Become, fate, Fates
<1>5. ASSUME NEW r \in Requests, Update(r) PROVE [Gate!Next]_(Gate!vars)
  <2>1. UNCHANGED <<ask, fate>>
    BY <1>5 DEF Update, fate
  <2>2. CASE memory' = memory
    BY <2>1, <2>2
  <2>3. CASE memory' = memory \cup {r}
    <3>1. Permitted(ask[r]) /\ gate[r] # "new"
      BY <1>5 DEF IInv, Sound, LearntUnlessGivenUp, Update
    <3>2. fate[r] # "new"
      BY <1>t, <3>1 DEF TypeOK, fate, Fates
    <3>3. Gate!Learn(r)
      BY <2>1, <2>3, <3>1, <3>2 DEF Gate!Learn
    <3>4. QED
      BY <3>3
  <2>4. QED
    BY <1>5, <2>2, <2>3 DEF Update
<1>6. CASE Stop \/ Start \/ UNCHANGED vars
  BY <1>6 DEF Stop, Start, vars, fate
<1>7. QED
  BY <1>1, <1>2, <1>3, <1>4, <1>5, <1>6 DEF Next, Evaluate

-----------------------------------------------------------------------------
\* The records of requests and goroutines keep their types, and scores stay
\* between 0 and 1.
THEOREM TypeCorrect == Spec => []TypeOK
<1>1. IInv => TypeOK
  BY DEF IInv
<1>2. QED
  BY <1>1, Invariance, PTL

\* The model learns from no request that the orchestrator refused, however the
\* steps of Envoy, the orchestrator and its background goroutines interleave.
THEOREM LearningOrder == Spec => []LearntUnlessGivenUp
<1>1. IInv => LearntUnlessGivenUp
  BY DEF IInv
<1>2. QED
  BY <1>1, Invariance, PTL

\* Envoy and the orchestrator implement the abstract gate: what is served or
\* learnt from was permitted as it was described to the orchestrator, and the
\* fate of a request is decided once.
THEOREM Implements == Spec => ImplementsGate
<1>1. Spec => Gate!Init
  BY InitGate DEF Spec
<1>2. Spec => [][Gate!Next]_(Gate!vars)
  BY Invariance, NextGate, PTL DEF Spec
<1>3. QED
  BY <1>1, <1>2 DEF ImplementsGate, Gate!Spec

\* Whatever fails or is late: a request that Envoy serves is one that the policy
\* allows as Envoy holds it, if the headers that BuildEvaluateHandler prefers to
\* the path and the method of the call are absent or agree with them.
THEOREM HeldAsDescribed == Spec => []ServedAsPermitted
<1>1. ASSUME NEW a, Truthful(a), Permitted(a) PROVE PermittedAsHeld(a)
  BY <1>1 DEF Truthful, Input, Permitted, PermittedAsHeld
<1>2. IInv => ServedAsPermitted
  <2>1. SUFFICES ASSUME IInv, NEW r \in Requests, gate[r] = "forwarded",
                        Truthful(ask[r])
                 PROVE  PermittedAsHeld(ask[r])
    BY DEF ServedAsPermitted
  <2>2. Permitted(ask[r])
    BY <2>1 DEF IInv, Sound
  <2>3. QED
    BY <1>1, <2>1, <2>2
<1>3. QED
  BY <1>2, Invariance, PTL

-----------------------------------------------------------------------------
(* The steps of an evaluation, in their order *)

Rank == [idle |-> 0, verify |-> 1, tpm |-> 2, infer |-> 3, opa |-> 4,
         answer |-> 5, over |-> 6]

\* Envoy calls for a request once.
Unasked == \A r \in Requests : gate[r] = "new" => eval[r].pc = "idle"

EvalForward(r) == eval'[r] = eval[r] \/ Rank[eval'[r].pc] > Rank[eval[r].pc]
GateForward(r) == \/ gate'[r] = gate[r]
                  \/ gate[r] = "new" /\ gate'[r] = "waiting"
                  \/ gate[r] = "waiting" /\ gate'[r] \in {"forwarded", "refused", "gaveup"}

Forward == \A r \in Requests : EvalForward(r) /\ GateForward(r)

LEMMA NextForward ==
  ASSUME TypeOK, Unasked, [Next]_vars
  PROVE  Unasked' /\ Forward
<1> USE DEF Working
<1>1. ASSUME NEW r \in Requests,
             \A q \in Requests \ {r} : eval'[q] = eval[q] /\ gate'[q] = gate[q],
             EvalForward(r), GateForward(r), gate'[r] # "new"
      PROVE  Unasked' /\ Forward
  BY <1>1 DEF Unasked, Forward, EvalForward, GateForward
<1>2. ASSUME NEW r \in Requests, Receive(r) PROVE Unasked' /\ Forward
  <2>1. /\ \A q \in Requests \ {r} : eval'[q] = eval[q] /\ gate'[q] = gate[q]
        /\ eval'[r] = eval[r] \/ eval'[r].pc \in {"verify", "infer"}
        /\ gate[r] = "new" /\ gate'[r] = "waiting"
    BY <1>2 DEF TypeOK, Receive
  <2>2. EvalForward(r) /\ GateForward(r)
    BY <2>1 DEF Unasked, EvalForward, GateForward, Rank
  <2>3. QED
    BY <1>1, <2>1, <2>2
<1>3. ASSUME NEW r \in Requests, Evaluate(r) PROVE Unasked' /\ Forward
  <2>1. \A q \in Requests \ {r} : eval'[q] = eval[q] /\ gate'[q] = gate[q]
    BY <1>3 DEF TypeOK, Evaluate, Verify, TPM, Infer, EvalOPA, Respond, Step
  <2>2. eval[r].pc \in Working
    BY <1>3 DEF Evaluate, Verify, TPM, Infer, EvalOPA, Respond, Step
  <2>3. EvalForward(r)
    <3>1. CASE Verify(r) \/ TPM(r)
      <4>1. \/ (eval[r].pc = "verify" /\ eval'[r].pc \in {"tpm", "answer"})
            \/ (eval[r].pc = "tpm" /\ eval'[r].pc = "infer")
        BY <3>1 DEF TypeOK, Verify, TPM, Step
      <4>2. QED
        BY <4>1 DEF EvalForward, Rank
    <3>2. CASE Infer(r)
      <4>1. eval[r].pc = "infer" /\ eval'[r].pc = "opa"
        BY <3>2 DEF TypeOK, Infer
      <4>2. QED
        BY <4>1 DEF EvalForward, Rank
    <3>3. CASE EvalOPA(r)
      <4>1. eval[r].pc = "opa" /\ eval'[r].pc = "answer"
        BY <3>3 DEF TypeOK, EvalOPA
      <4>2. QED
        BY <4>1 DEF EvalForward, Rank
    <3>4. CASE Respond(r)
      <4>1. eval[r].pc = "answer" /\ eval'[r].pc = "over"
        BY <3>4 DEF TypeOK, Respond
      <4>2. QED
        BY <4>1 DEF EvalForward, Rank
    <3>5. QED
      BY <1>3, <3>1, <3>2, <3>3, <3>4 DEF Evaluate
  <2>4. gate'[r] = gate[r]
          \/ (gate[r] = "waiting" /\ gate'[r] \in {"forwarded", "refused"})
    BY <1>3 DEF TypeOK, Evaluate, Verify, TPM, Infer, EvalOPA, Respond, Step
  <2>5. GateForward(r) /\ gate'[r] # "new"
    BY <2>2, <2>4 DEF GateForward, Unasked
  <2>6. QED
    BY <1>1, <2>1, <2>3, <2>5
<1>4. ASSUME NEW r \in Requests, GiveUp(r) PROVE Unasked' /\ Forward
  <2>1. /\ \A q \in Requests : eval'[q] = eval[q]
        /\ \A q \in Requests \ {r} : gate'[q] = gate[q]
        /\ gate[r] = "waiting" /\ gate'[r] = "gaveup"
    BY <1>4 DEF TypeOK, GiveUp
  <2>2. QED
    BY <1>1, <2>1 DEF EvalForward, GateForward
<1>5. CASE Stop
  <2>1. ASSUME NEW r \in Requests
        PROVE  \/ eval'[r] = eval[r]
               \/ (eval[r].pc \in Working /\ eval'[r].pc = "over")
    BY <1>5 DEF TypeOK, Stop
  <2>2. Forward
    BY <1>5, <2>1 DEF Stop, Forward, EvalForward, GateForward, Rank
  <2>3. QED
    BY <1>5, <2>1, <2>2 DEF Stop, Unasked
<1>6. ASSUME UNCHANGED <<gate, eval>> PROVE Unasked' /\ Forward
  BY <1>6 DEF Unasked, Forward, EvalForward, GateForward
<1>7. QED
  BY <1>2, <1>3, <1>4, <1>5, <1>6 DEF Next, Update, Start, vars

\* Neither Envoy nor the handler goes back: a request is asked for once, each
\* call of its evaluation is made at most once, whatever fails, and its fate is
\* not changed (BuildEvaluateHandler retries nothing, and a late answer is not
\* heard).  Hence an evaluation ends within five steps, if its calls end.
THEOREM NothingRetried == Spec => [][Forward]_vars
<1>1. Init => Unasked
  BY DEF Init, Unasked
<1>2. TypeOK /\ Unasked /\ [Next]_vars => Unasked' /\ Forward
  BY NextForward
<1>3. Spec => []Unasked
  BY <1>1, <1>2, TypeCorrect, PTL DEF Spec
<1>4. QED
  BY <1>2, <1>3, TypeCorrect, PTL DEF Spec
=============================================================================
