--------------------------- MODULE BusinessStore ---------------------------
(***************************************************************************)
(* The API of business-logic over its four collections: create, get and    *)
(* delete by the name a record carries, and the deletion of personnel      *)
(* through the trusted guard, which is answered at once and done hours     *)
(* later.  Every request is a goroutine, and every call of the database a  *)
(* step; a failing call may have been applied.                             *)
(*                                                                         *)
(* A document is known here by the request that inserted it.  The lists,   *)
(* which change nothing and name nothing, are left out, and so are the     *)
(* Update functions, which no handler calls.                               *)
(*                                                                         *)
(* Operators named after a fault stand beside the one they falsify; no     *)
(* action uses them.                                                       *)
(***************************************************************************)
EXTENDS Naturals

CONSTANTS
  Requests,
  Seeds,    \* documents that were there before
  Seeded,   \* their collection, name and second name
  Names,    \* employee_id, reactor_id, document_id, material_id
  Seconds,  \* badge_id, serial_number
  None      \* no document, no name, and no second name where none is used

Collections == {"personnel", "reactor_parameters", "documents", "nuclear_materials"}

\* The unique indexes.
UniqueName == Collections \ {"reactor_parameters"}
UniqueSecond == {"personnel", "nuclear_materials"}

Label == [coll : UniqueSecond, name : Names, second : Seconds]
           \cup [coll : Collections \ UniqueSecond, name : Names, second : {None}]

\* What was there before is as the unique indexes want it.
ASSUME BusinessStoreAssumption ==
  /\ Seeds \cap Requests = {}
  /\ Seeded \in [Seeds -> Label]
  /\ \A d, e \in Seeds :
       /\ Seeded[d].coll \in UniqueName
       /\ Seeded[d].coll = Seeded[e].coll /\ Seeded[d].name = Seeded[e].name
       => d = e
  /\ None \notin Seeds \cup Requests \cup Names \cup Seconds

VARIABLES
  doc,  \* every document there is, was or will be
  req   \* requests

vars == <<doc, req>>

-----------------------------------------------------------------------------
(* Documents *)

NotStored == "not stored"
Docs == Seeds \cup Requests

Named(coll, name) ==
  {d \in Docs : doc[d].st = "stored" /\ doc[d].coll = coll /\ doc[d].name = name}

OnlySecond(new) ==
  \A d \in Docs : (doc[d].st = "stored" /\ doc[d].coll = new.coll) =>
    (new.coll \in UniqueSecond => doc[d].second # new.second)

IndexAllows(new) ==
  \A d \in Docs : (doc[d].st = "stored" /\ doc[d].coll = new.coll) =>
    /\ (new.coll \in UniqueName => doc[d].name # new.name)
    /\ (new.coll \in UniqueSecond => doc[d].second # new.second)

Stored(label) == [st |-> "stored", coll |-> label.coll, name |-> label.name,
                  second |-> label.second]
Never == [st |-> NotStored, coll |-> "none", name |-> None, second |-> None]

-----------------------------------------------------------------------------
(* Requests *)

\* A request, the document it has found or removed, and those that had its
\* name when it arrived.
Idle == [pc |-> "new", op |-> "none", label |-> Never, doc |-> None, saw |-> {}]

At(r, op, pc) == req[r].op = op /\ req[r].pc = pc
To(r, pc) == req' = [req EXCEPT ![r].pc = pc]
With(r, d, pc) == req' = [req EXCEPT ![r] =
  [pc |-> pc, op |-> @.op, label |-> @.label, doc |-> d, saw |-> @.saw]]
Mine(r) == Named(req[r].label.coll, req[r].label.name)

\* What the routes let a request ask for; personnel is deleted by the guard
\* only.
Asks == [op : {"create"}, label : Label]
          \cup [op : {"get", "delete", "guard"},
                label : [coll : Collections, name : Names, second : {None}]]

Routed(ask) == /\ ask.op = "delete" => ask.label.coll # "personnel"
               /\ ask.op = "guard" => ask.label.coll = "personnel"

-----------------------------------------------------------------------------
Init ==
  /\ doc = [d \in Docs |-> IF d \in Seeds THEN Stored(Seeded[d]) ELSE Never]
  /\ req = [r \in Requests |-> Idle]

\* The X-Current-User header is absent or rightly signed, and the body of a
\* create decodes and keeps the rules of its type.
Arrive(r, ask) ==
  /\ req[r].pc = "new" /\ Routed(ask)
  /\ req' = [req EXCEPT ![r] =
       [pc |-> "handler", op |-> ask.op, label |-> ask.label, doc |-> None,
        saw |-> Named(ask.label.coll, ask.label.name)]]
  /\ UNCHANGED doc

\* Of the other requests nothing is done.
Refuse(r) ==
  /\ req[r].pc = "new"
  /\ To(r, "refused")
  /\ UNCHANGED doc

\* The hash is set and the record inserted.  The validator of the collection
\* may refuse what the rules of the type let through.
Create(r) ==
  /\ At(r, "create", "handler")
  /\ \/ /\ IndexAllows(req[r].label)
        /\ doc' = [doc EXCEPT ![r] = Stored(req[r].label)]
        /\ \E pc \in {"201", "500"} : To(r, pc)
     \/ UNCHANGED doc /\ To(r, "500")

\* FindOne returns any one.
Get(r) ==
  /\ At(r, "get", "handler")
  /\ \/ \E d \in Mine(r) : With(r, d, "200")
     \/ Mine(r) = {} /\ To(r, "404")
     \/ To(r, "500")
  /\ UNCHANGED doc

DeleteMany(r, removed, nothing, error) ==
  \/ \E d \in Mine(r) :
       /\ doc' = [e \in Docs |-> IF e \in Mine(r) THEN [doc[e] EXCEPT !.st = "removed"]
                                                  ELSE doc[e]]
       /\ With(r, d, removed)
  \/ Mine(r) = {} /\ UNCHANGED doc /\ To(r, nothing)

\* DeleteOne removes any one.
DeleteOne(r, removed, nothing, error) ==
  \/ \E d \in Mine(r), pc \in {removed, error} :
       /\ doc' = [doc EXCEPT ![d].st = "removed"]
       /\ With(r, d, pc)
  \/ Mine(r) = {} /\ UNCHANGED doc /\ To(r, nothing)
  \/ UNCHANGED doc /\ To(r, error)

Delete(r) ==
  /\ At(r, "delete", "handler")
  /\ DeleteOne(r, "204", "404", "500")

\* 202, before anything is looked at.
Guard(r) ==
  /\ At(r, "guard", "handler")
  /\ To(r, "asleep")
  /\ UNCHANGED doc

\* With the context of the request, which has ended, the driver deletes nothing
\* and returns the error of that context.
WakeCancelled(r) ==
  /\ At(r, "guard", "asleep")
  /\ UNCHANGED doc /\ To(r, "cancelled")

\* Two to six hours later, with a context of its own, which does not end: what
\* fails is the call of the database.
Wake(r) ==
  /\ At(r, "guard", "asleep")
  /\ DeleteOne(r, "removed", "no such record", "failed")

\* The server stops: requests are waited for, or lost after five seconds or in
\* a crash; who sleeps is lost.
Restart ==
  /\ \E r \in Requests : req[r].pc \in {"handler", "asleep"}
  /\ req' = [r \in Requests |-> IF req[r].pc \in {"handler", "asleep"}
                                THEN [req[r] EXCEPT !.pc = "lost"] ELSE req[r]]
  /\ UNCHANGED doc

Handle(r) == Create(r) \/ Get(r) \/ Delete(r) \/ Guard(r)

Next ==
  \/ \E r \in Requests, ask \in Asks : Arrive(r, ask)
  \/ \E r \in Requests : Refuse(r) \/ Handle(r) \/ Wake(r)
  \/ Restart

Spec == Init /\ [][Next]_vars

\* Handlers run, and sleeps of a bounded time end.
FairSpec == Spec /\ \A r \in Requests : WF_vars(Handle(r)) /\ WF_vars(Wake(r))

-----------------------------------------------------------------------------
(* Properties *)

Document == [st : {NotStored, "stored", "removed"},
             coll : Collections \cup {"none"},
             name : Names \cup {None}, second : Seconds \cup {None}]

States == {"new", "refused", "handler", "asleep", "lost", "200", "201", "204",
           "404", "500", "removed", "no such record", "failed"}

Request == [pc : States,
            op : {"none", "create", "get", "delete", "guard"},
            label : Label \cup {Never}
                      \cup [coll : Collections, name : Names, second : {None}],
            doc : Docs \cup {None}, saw : SUBSET Docs]

TypeOK == doc \in [Docs -> Document] /\ req \in [Requests -> Request]

\* Where names are unique, a request is answered for the record that had the
\* name when it arrived, unless somebody else has removed that one meanwhile.
\* This is what keeps the guard from removing another record than the one it
\* was asked for: only who was overtaken by another removal, or asked for
\* what was not there, may hit a record created since.
AnswersForTheName ==
  \A r \in Requests :
    (/\ req[r].pc \in {"200", "204", "404", "removed", "no such record"}
     /\ req[r].label.coll \in UniqueName)
      => \A d \in req[r].saw : req[r].doc = d \/ doc[d].st = "removed"

\* What is gone was removed by a request for its name, and none removes two:
\* also where several readings share the name of their reactor.
RemovedOnRequest ==
  \A d \in Docs : doc[d].st = "removed" =>
    \E r \in Requests : /\ req[r].op \in {"delete", "guard"}
                        /\ req[r].doc = d
                        /\ doc[d].coll = req[r].label.coll
                        /\ doc[d].name = req[r].label.name

\* What the guard has accepted to delete goes away: the end of the request does
\* not take the deletion with it.  Two things may, and do in the code: the end of
\* the process before the guard wakes ("lost"), and an error of the database in
\* its one attempt ("failed").
GuardedGoes ==
  \A r \in Requests :
    req[r].pc = "asleep" ~> \/ req[r].pc \in {"lost", "failed"}
                            \/ \A d \in req[r].saw : doc[d].st = "removed"
=============================================================================
