------------------------------ MODULE InfoFlow ------------------------------
(***************************************************************************)
(* What the policy achieves over many requests of many users: who comes to *)
(* know what.  Every collection of the business service starts with        *)
(* information of its own; a request that the policy allows carries        *)
(* information from the collection to the user, and a writing one from the *)
(* user to the collection.  The reply to a write tells something too: that *)
(* the record was there, or was not.                                       *)
(*                                                                         *)
(* The trusted guard lets an administrator delete from the personnel, two  *)
(* levels down and more: the request is answered with an empty 202 and the *)
(* deletion follows hours later, from a goroutine that a restart loses.    *)
(* What the administrator knew when choosing the record is then released.  *)
(*                                                                         *)
(* Information is named by the collection it comes from.                   *)
(***************************************************************************)
EXTENDS Policy, FiniteSets

CONSTANTS
  Subjects,  \* users
  Role,      \* Role[u]: the role in the tokens of u
  Ids,       \* path parameters
  MaxPending \* bound on the deletions that wait

ASSUME FlowAssumption ==
  /\ Role \in [Subjects -> Roles]
  /\ MaxPending \in Nat

VARIABLES
  know,     \* the origins of what each user has been told
  holds,    \* the origins of what each collection contains
  pending,  \* what each delayed deletion of the guard will release
  released  \* what deletions of the guard have released

vars == <<know, holds, pending, released>>

-----------------------------------------------------------------------------
OUs == Roles \cup {"absent", "blank"}

Paths == Rotte \cup {Append(p, id) : p \in Rotte, id \in Ids}

\* The requests that the policy allows with some certificate and at some
\* score, and the route of the matrix that each concerns.
Ways == [u : Subjects, method : Methods, path : Paths, p : Rotte]

Allowed == {w \in Ways :
  /\ w.p \in rotta_base(w.path)
  /\ \E ou \in OUs, score \in Scores :
       AllowMatrix([method |-> w.method, path |-> w.path, role |-> Role[w.u],
                    ou |-> ou, score |-> score])}

Init ==
  /\ know = [u \in Subjects |-> {}]
  /\ holds = [p \in Collections |-> {p}]
  /\ pending = {}
  /\ released = {}

\* List... and Get...
Read(w) ==
  /\ w.method = "GET" /\ w.p \in Collections
  /\ know' = [know EXCEPT ![w.u] = @ \cup holds[w.p]]
  /\ UNCHANGED <<holds, pending, released>>

\* Create... and Delete...
Write(w) ==
  /\ w.method \in metodi_scrittura /\ w.p \in Collections
  /\ holds' = [holds EXCEPT ![w.p] = @ \cup know[w.u]]
  /\ know' = [know EXCEPT ![w.u] = @ \cup holds[w.p]]
  /\ UNCHANGED <<pending, released>>

\* TrustedGuardDeletePersonnel: the reply says nothing.  Two deletions that
\* release the same are one here, as the second adds nothing.
GuardRequest(w) ==
  /\ w.method = "POST" /\ w.p = Guard
  /\ Cardinality(pending) < MaxPending
  /\ pending' = pending \cup {know[w.u]}
  /\ UNCHANGED <<know, holds, released>>

\* Its goroutine wakes up and deletes the record.
GuardDelete(m) ==
  /\ m \in pending
  /\ pending' = pending \ {m}
  /\ holds' = [holds EXCEPT ![Personnel] = @ \cup m]
  /\ released' = released \cup m
  /\ UNCHANGED know

\* The service stops, or a deletion fails: its goroutines are gone.
Forget ==
  /\ pending # {}
  /\ pending' \in SUBSET pending
  /\ UNCHANGED <<know, holds, released>>

Next ==
  \/ \E w \in Allowed : Read(w) \/ Write(w) \/ GuardRequest(w)
  \/ \E m \in pending : GuardDelete(m)
  \/ Forget

Spec == Init /\ [][Next]_vars

-----------------------------------------------------------------------------
(* Properties *)

TypeOK ==
  /\ know \in [Subjects -> SUBSET Collections]
  /\ holds \in [Collections -> SUBSET Collections]
  /\ pending \subseteq SUBSET Collections
  /\ released \subseteq Collections

\* The clearance and the categories of the role cover the collection.
Dominates(role, p) ==
  /\ ruoli_to_blp[role].clearance >= Level(p)
  /\ matrice_sicurezza[p].categorie \subseteq ruoli_to_blp[role].categorie

\* However reads and writes of all the users interleave, what a user has been
\* told comes from collections that its role dominates, or went through the
\* trusted guard: the matrix, which tests one request at a time and only that
\* the user has the categories of the collection, leaves no way around.
LeaksOnlyThroughGuard ==
  \A u \in Subjects : \A o \in know[u] : Dominates(Role[u], o) \/ o \in released
=============================================================================
