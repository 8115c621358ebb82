------------------------------ MODULE AuthGate ------------------------------
(***************************************************************************)
(* What the enforcement point and the decision point promise together,     *)
(* whatever fails between them: a request is served only if it is          *)
(* permitted as it was described to the decision point, its fate is        *)
(* decided once, and the anomaly model learns from such requests only.     *)
(* Whether the description is that of the request is not promised here.    *)
(***************************************************************************)
CONSTANTS
  Requests,
  Asks,         \* what a request may be
  Permitted(_)  \* whether it may be served, going by its description

VARIABLES
  ask,    \* what each request is
  fate,   \* what has become of it
  learnt  \* the requests the model has learnt from

vars == <<ask, fate, learnt>>

Init ==
  /\ ask \in [Requests -> Asks]
  /\ fate = [r \in Requests |-> "new"]
  /\ learnt = {}

Become(r, before, after) ==
  /\ fate[r] = before
  /\ fate' = [fate EXCEPT ![r] = after]
  /\ UNCHANGED <<ask, learnt>>

Submit(r) == Become(r, "new", "pending")
Serve(r) == Permitted(ask[r]) /\ Become(r, "pending", "served")
Refuse(r) == Become(r, "pending", "refused")

Learn(r) ==
  /\ fate[r] # "new" /\ Permitted(ask[r])
  /\ learnt' = learnt \cup {r}
  /\ UNCHANGED <<ask, fate>>

Next == \E r \in Requests : Submit(r) \/ Serve(r) \/ Refuse(r) \/ Learn(r)

Spec == Init /\ [][Next]_vars
=============================================================================
