------------------------ MODULE BusinessStoreProofs ------------------------
(***************************************************************************)
(* Theorems about BusinessStore, for any requests, names and documents.    *)
(*                                                                         *)
(* A document goes one way, from not stored to stored to removed, and      *)
(* keeps its name.  Where the index makes a name unique, at most one       *)
(* stored document has it; so what a request finds under a name, while     *)
(* what had it before is still stored, is just that.  A guard that wakes   *)
(* hours later therefore leaves nothing of what it was asked to delete.    *)
(***************************************************************************)
EXTENDS BusinessStore, TLAPS

-----------------------------------------------------------------------------
(* The invariant *)

Open == {"new", "handler", "asleep"}

\* A request that is not answered has found nothing and inserted nothing.
OpenHasNothing ==
  \A r \in Requests : req[r].pc \in Open => /\ req[r].doc = None
                                            /\ doc[r].st = NotStored

\* Who asks for something names a collection and a name.
AsksByName ==
  \A r \in Requests :
    IF req[r].pc = "new" THEN req[r].op = "none" /\ req[r].saw = {}
    ELSE req[r].op # "none" => /\ req[r].label.coll \in Collections
                               /\ req[r].label.name \in Names

OneOfAName ==
  \A d, e \in Docs :
    /\ doc[d].st = "stored" /\ doc[e].st = "stored"
    /\ doc[d].coll = doc[e].coll /\ doc[d].name = doc[e].name
    /\ doc[d].coll \in UniqueName
    => d = e

\* What a request saw has been stored, under the name it asked for.
SawByName ==
  \A r \in Requests : \A d \in req[r].saw :
    /\ doc[d].st # NotStored
    /\ doc[d].coll = req[r].label.coll
    /\ doc[d].name = req[r].label.name

Inv == /\ TypeOK /\ OpenHasNothing /\ AsksByName /\ OneOfAName /\ SawByName
       /\ AnswersForTheName /\ RemovedOnRequest

-----------------------------------------------------------------------------
(* The beginning *)

LEMMA RequestsAreDocs == Requests \subseteq Docs /\ Seeds \subseteq Docs /\ None \notin Docs
BY BusinessStoreAssumption DEF Docs

LEMMA LabelTypes ==
  ASSUME NEW l \in Label
  PROVE  l.coll \in Collections /\ l.name \in Names /\ l.second \in Seconds \cup {None}
BY DEF Label, Collections, UniqueSecond

LEMMA MineTypes ==
  ASSUME NEW r \in Requests, NEW d \in Mine(r)
  PROVE  /\ d \in Docs /\ doc[d].st = "stored"
         /\ doc[d].coll = req[r].label.coll /\ doc[d].name = req[r].label.name
BY DEF Mine, Named

\* The initial documents are those of the seeds, which have unique names.
LEMMA InitInv == Init => Inv
<1> SUFFICES ASSUME Init PROVE Inv
  OBVIOUS
<1> USE BusinessStoreAssumption, RequestsAreDocs
<1>1. \A d \in Seeds : /\ doc[d] = Stored(Seeded[d])
                        /\ Seeded[d] \in Label
  BY DEF Init
<1>2. \A r \in Requests : req[r] = Idle /\ doc[r] = Never /\ r \notin Seeds
  BY DEF Init
<1>3. \A d \in Seeds : /\ doc[d].st = "stored"
                        /\ doc[d].coll = Seeded[d].coll
                        /\ doc[d].name = Seeded[d].name
  <2> TAKE d \in Seeds
  <2>1. doc[d] = Stored(Seeded[d])
    BY <1>1
  <2>2. QED
    BY <2>1 DEF Stored
<1>4. \A r \in Requests :
        doc[r].st = NotStored /\ req[r].pc = "new" /\ req[r].op = "none"
          /\ req[r].doc = None /\ req[r].saw = {}
  <2> TAKE r \in Requests
  <2>1. doc[r].st = NotStored
    BY <1>2 DEF Never
  <2>2. req[r].pc = "new" /\ req[r].op = "none" /\ req[r].doc = None
          /\ req[r].saw = {}
    BY <1>2 DEF Idle
  <2>3. QED
    BY <2>1, <2>2
<1>5. \A d \in Docs : doc[d] \in Document
  <2>1. \A d \in Seeds : Stored(Seeded[d]) \in Document
    BY <1>1, LabelTypes DEF Stored, Document
  <2>2. Never \in Document
    BY DEF Never, Document
  <2>3. QED
    BY <1>1, <1>2, <2>1, <2>2 DEF Docs
<1>6. TypeOK
  BY <1>5 DEF TypeOK, Init, Idle, Request, States
<1>7. OpenHasNothing /\ AsksByName /\ SawByName
  BY <1>4 DEF OpenHasNothing, AsksByName, SawByName
<1>8. OneOfAName
  <2> SUFFICES ASSUME NEW d \in Docs, NEW e \in Docs,
                      doc[d].st = "stored", doc[e].st = "stored",
                      doc[d].coll = doc[e].coll, doc[d].name = doc[e].name,
                      doc[d].coll \in UniqueName
               PROVE  d = e
    BY DEF OneOfAName
  <2>1. d \in Seeds /\ e \in Seeds
    BY <1>4 DEF Docs, NotStored
  <2>2. QED
    BY <1>3, <2>1
<1>9. AnswersForTheName
  BY <1>4 DEF AnswersForTheName
<1>10. RemovedOnRequest
  BY <1>3, <1>4 DEF RemovedOnRequest, Docs, NotStored
<1>11. QED
  BY <1>6, <1>7, <1>8, <1>9, <1>10 DEF Inv

-----------------------------------------------------------------------------
(* What a handler, or the guard when it wakes, does in one step *)

\* Request r goes on, and keeps what it asked for and saw.
Goes(r, d, pc) ==
  /\ req'[r].pc = pc /\ req'[r].doc = d
  /\ req'[r].op = req[r].op /\ req'[r].label = req[r].label
  /\ req'[r].saw = req[r].saw
  /\ \A q \in Requests \ {r} : req'[q] = req[q]
  /\ req' \in [Requests -> Request]

Inserts(r) == /\ IndexAllows(req[r].label)
              /\ doc' = [doc EXCEPT ![r] = Stored(req[r].label)]
Removes(r, d) == /\ d \in Mine(r)
                 /\ doc' = [doc EXCEPT ![d].st = "removed"]

Answers == {"200", "204", "404", "removed", "no such record"}

Effect(r, d, pc) ==
  /\ req[r].pc \in {"handler", "asleep"} /\ req[r].op # "none"
  /\ Goes(r, d, pc)
  /\ \/ /\ doc' = doc /\ Mine(r) = {}
        /\ d = None /\ pc \in {"404", "no such record"}
     \/ doc' = doc /\ d \in Mine(r) /\ pc = "200"
     \/ doc' = doc /\ d = None /\ pc \in {"500", "failed", "asleep"}
     \/ /\ req[r].op = "create" /\ Inserts(r)
        /\ d = None /\ pc \in {"201", "500"}
     \/ /\ req[r].op \in {"delete", "guard"} /\ Removes(r, d)
        /\ pc \in {"204", "500", "removed", "failed"}

LEMMA ToGoes ==
  ASSUME TypeOK, NEW r \in Requests, NEW pc \in States, To(r, pc)
  PROVE  Goes(r, req[r].doc, pc)
BY DEF TypeOK, To, Goes, Request

LEMMA WithGoes ==
  ASSUME TypeOK, NEW r \in Requests, NEW d \in Docs, NEW pc \in States,
         With(r, d, pc)
  PROVE  Goes(r, d, pc)
BY DEF TypeOK, With, Goes, Request

\* DeleteOne, from either of its callers.
LEMMA DeleteEffect ==
  ASSUME Inv, NEW r \in Requests,
         req[r].pc \in {"handler", "asleep"}, req[r].op \in {"delete", "guard"},
         \/ DeleteOne(r, "204", "404", "500")
         \/ DeleteOne(r, "removed", "no such record", "failed")
  PROVE  \E d, pc : Effect(r, d, pc)
<1>1. TypeOK /\ req[r].doc = None
  BY DEF Inv, OpenHasNothing, Open
<1>2. CASE \E d \in Mine(r), pc \in {"204", "500", "removed", "failed"} :
             Removes(r, d) /\ With(r, d, pc)
  BY <1>1, <1>2, WithGoes, MineTypes DEF Effect, States
<1>3. CASE /\ Mine(r) = {} /\ doc' = doc
           /\ \E pc \in {"404", "no such record"} : To(r, pc)
  BY <1>1, <1>3, ToGoes DEF Effect, States
<1>4. CASE doc' = doc /\ \E pc \in {"500", "failed"} : To(r, pc)
  BY <1>1, <1>4, ToGoes DEF Effect, States
<1>5. QED
  BY <1>2, <1>3, <1>4 DEF DeleteOne, Removes

LEMMA HandlerEffect ==
  ASSUME Inv, NEW r \in Requests, Handle(r) \/ Wake(r)
  PROVE  \E d, pc : Effect(r, d, pc)
<1>1. TypeOK
  BY DEF Inv
<1>2. req[r].pc \in {"handler", "asleep"} /\ req[r].op # "none" /\ req[r].doc = None
  BY DEF Handle, Wake, Create, Get, Delete, Guard, At, Inv, OpenHasNothing, Open
<1>3. CASE Create(r)
  <2>1. req[r].op = "create"
    BY <1>3 DEF Create, At
  <2>2. CASE \E pc \in {"201", "500"} : Inserts(r) /\ To(r, pc)
    BY <1>1, <1>2, <2>1, <2>2, ToGoes DEF Effect, States
  <2>3. CASE doc' = doc /\ To(r, "500")
    BY <1>1, <1>2, <2>3, ToGoes DEF Effect, States
  <2>4. QED
    BY <1>3, <2>2, <2>3 DEF Create, Inserts
<1>4. CASE Get(r)
  <2>1. CASE \E d \in Mine(r) : With(r, d, "200")
    BY <1>1, <1>2, <1>4, <2>1, WithGoes, MineTypes DEF Effect, States, Get
  <2>2. CASE Mine(r) = {} /\ To(r, "404")
    BY <1>1, <1>2, <1>4, <2>2, ToGoes DEF Effect, States, Get
  <2>3. CASE To(r, "500")
    BY <1>1, <1>2, <1>4, <2>3, ToGoes DEF Effect, States, Get
  <2>4. QED
    BY <1>4, <2>1, <2>2, <2>3 DEF Get
<1>5. CASE Guard(r)
  BY <1>1, <1>2, <1>5, ToGoes DEF Guard, Effect, States
<1>6. CASE Delete(r) \/ Wake(r)
  BY <1>2, <1>6, DeleteEffect DEF Delete, Wake, At
<1>7. QED
  BY <1>3, <1>4, <1>5, <1>6 DEF Handle

-----------------------------------------------------------------------------
(* Such a step keeps the invariant *)

\* What is stored or removed keeps its name, and what is removed stays so.
OneWay ==
  \A d \in Docs : doc[d].st # NotStored =>
    /\ doc'[d].coll = doc[d].coll /\ doc'[d].name = doc[d].name
    /\ doc'[d].st # NotStored
    /\ doc[d].st = "removed" => doc'[d].st = "removed"

\* The documents after an insertion, and after a removal.
LEMMA Inserted ==
  ASSUME TypeOK, NEW r \in Requests, Inserts(r)
  PROVE  /\ doc'[r].st = "stored"
         /\ doc'[r].coll = req[r].label.coll /\ doc'[r].name = req[r].label.name
         /\ \A d \in Docs \ {r} : doc'[d] = doc[d]
BY RequestsAreDocs DEF TypeOK, Inserts, Stored, Document

LEMMA Removed ==
  ASSUME TypeOK, NEW r \in Requests, NEW d, Removes(r, d)
  PROVE  /\ d \in Docs /\ doc[d].st = "stored" /\ doc'[d].st = "removed"
         /\ doc[d].coll = req[r].label.coll /\ doc[d].name = req[r].label.name
         /\ doc'[d].coll = doc[d].coll /\ doc'[d].name = doc[d].name
         /\ \A e \in Docs \ {d} : doc'[e] = doc[e]
BY DEF TypeOK, Removes, Mine, Named, Document

LEMMA EffectOneWay ==
  ASSUME Inv, NEW r \in Requests, NEW d, NEW pc, Effect(r, d, pc)
  PROVE  OneWay
<1>1. TypeOK /\ doc[r].st = NotStored
  BY DEF Inv, Effect, OpenHasNothing, Open
<1>2. CASE doc' = doc
  BY <1>2 DEF OneWay
<1>3. CASE Inserts(r)
  BY <1>1, <1>3, Inserted DEF OneWay
<1>4. CASE Removes(r, d)
  BY <1>1, <1>4, Removed DEF OneWay, NotStored
<1>5. QED
  BY <1>2, <1>3, <1>4 DEF Effect

LEMMA EffectTypes ==
  ASSUME Inv, NEW r \in Requests, NEW d, NEW pc, Effect(r, d, pc)
  PROVE  TypeOK'
<1>1. TypeOK /\ req' \in [Requests -> Request]
  BY DEF Inv, Effect, Goes
<1>2. CASE doc' = doc
  BY <1>1, <1>2 DEF TypeOK
<1>3. CASE req[r].op = "create" /\ Inserts(r)
  <2>1. req[r].label.coll \in Collections /\ req[r].label.name \in Names
    BY <1>3 DEF Inv, AsksByName, Effect
  <2>2. req[r].label.second \in Seconds \cup {None}
    <3>1. req[r].label \in Label \cup {Never}
            \cup [coll : Collections, name : Names, second : {None}]
      BY <1>1 DEF TypeOK, Request
    <3>2. QED
      BY <3>1, LabelTypes DEF Never
  <2>3. Stored(req[r].label) \in Document
    BY <2>1, <2>2 DEF Stored, Document
  <2>4. QED
    BY <1>1, <1>3, <2>3 DEF TypeOK, Inserts
<1>4. CASE Removes(r, d)
  BY <1>1, <1>4 DEF TypeOK, Removes, Document
<1>5. QED
  BY <1>2, <1>3, <1>4 DEF Effect

\* At most one stored document of a name, as the index wants it.
LEMMA EffectOneOfAName ==
  ASSUME Inv, NEW r \in Requests, NEW d, NEW pc, Effect(r, d, pc)
  PROVE  OneOfAName'
<1>1. TypeOK /\ OneOfAName
  BY DEF Inv
<1>2. CASE doc' = doc
  BY <1>1, <1>2 DEF OneOfAName
<1>3. CASE Inserts(r)
  <2>1. \A e \in Docs : doc[e].st = "stored" /\ doc[e].coll = req[r].label.coll
                          /\ doc[e].coll \in UniqueName
                          => doc[e].name # req[r].label.name
    BY <1>3 DEF Inserts, IndexAllows
  <2>2. QED
    BY <1>1, <1>3, <2>1, Inserted DEF OneOfAName
<1>4. CASE Removes(r, d)
  BY <1>1, <1>4, Removed DEF OneOfAName
<1>5. QED
  BY <1>2, <1>3, <1>4 DEF Effect

LEMMA EffectSaw ==
  ASSUME Inv, NEW r \in Requests, NEW d, NEW pc, Effect(r, d, pc)
  PROVE  SawByName' /\ AsksByName'
<1>1. \A q \in Requests : /\ req'[q].saw = req[q].saw /\ req'[q].label = req[q].label
                          /\ req'[q].op = req[q].op
                          /\ req'[q].pc = req[q].pc \/ (q = r /\ req'[q].pc = pc)
  BY DEF Effect, Goes
<1>2. \A q \in Requests : req[q].saw \subseteq Docs
  BY DEF Inv, TypeOK, Request
<1>3. SawByName'
  BY <1>1, <1>2, EffectOneWay DEF SawByName, OneWay, Inv
<1>4. req[r].pc # "new" /\ pc # "new"
  BY DEF Effect
<1>5. AsksByName'
  BY <1>1, <1>4 DEF AsksByName, Inv
<1>6. QED
  BY <1>3, <1>5

\* The answer of r names what it saw, unless that has gone.
LEMMA EffectAnswers ==
  ASSUME Inv, NEW r \in Requests, NEW d, NEW pc, Effect(r, d, pc)
  PROVE  AnswersForTheName'
<1>1. \A e \in req[r].saw : /\ e \in Docs /\ doc[e].st \in {"stored", "removed"}
                            /\ doc[e].coll = req[r].label.coll
                            /\ doc[e].name = req[r].label.name
  BY DEF Inv, TypeOK, SawByName, Document, Request
<1>2. ASSUME pc \in Answers, req[r].label.coll \in UniqueName, NEW e \in req[r].saw
      PROVE  d = e \/ doc'[e].st = "removed"
  <2>1. CASE doc[e].st = "removed"
    BY <1>1, <2>1, EffectOneWay DEF OneWay, NotStored
  <2>2. CASE doc[e].st = "stored"
    <3>1. e \in Mine(r)
      BY <1>1, <2>2 DEF Mine, Named
    <3>2. \A f \in Mine(r) : f = e
      BY <1>1, <1>2, <2>2, MineTypes DEF Inv, OneOfAName
    <3>3. d \in Mine(r)
      BY <1>2, <3>1 DEF Effect, Answers, Removes
    <3>4. QED
      BY <3>2, <3>3
  <2>3. QED
    BY <1>1, <2>1, <2>2
<1>3. QED
  <2> SUFFICES ASSUME NEW q \in Requests, req'[q].pc \in Answers,
                      req'[q].label.coll \in UniqueName, NEW e \in req'[q].saw
               PROVE  req'[q].doc = e \/ doc'[e].st = "removed"
    BY DEF AnswersForTheName, Answers
  <2>1. CASE q = r
    BY <1>2, <2>1 DEF Effect, Goes
  <2>2. CASE q # r
    <3>1. req'[q] = req[q]
      BY <2>2 DEF Effect, Goes
    <3>2. req[q].doc = e \/ doc[e].st = "removed"
      BY <3>1 DEF Inv, AnswersForTheName, Answers
    <3>3. e \in Docs
      BY <3>1 DEF Inv, TypeOK, Request
    <3>4. QED
      BY <3>1, <3>2, <3>3, EffectOneWay DEF OneWay, NotStored
  <2>3. QED
    BY <2>1, <2>2

LEMMA EffectRemoved ==
  ASSUME Inv, NEW r \in Requests, NEW d, NEW pc, Effect(r, d, pc)
  PROVE  RemovedOnRequest'
<1>1. TypeOK /\ req[r].doc = None /\ doc[r].st = NotStored
  BY DEF Inv, Effect, OpenHasNothing, Open
<1> SUFFICES ASSUME NEW e \in Docs, doc'[e].st = "removed"
             PROVE  \E q \in Requests : /\ req'[q].op \in {"delete", "guard"}
                                        /\ req'[q].doc = e
                                        /\ doc'[e].coll = req'[q].label.coll
                                        /\ doc'[e].name = req'[q].label.name
  BY DEF RemovedOnRequest
<1>2. CASE doc[e].st = "removed"
  <2>1. PICK q \in Requests : /\ req[q].op \in {"delete", "guard"}
                              /\ req[q].doc = e
                              /\ doc[e].coll = req[q].label.coll
                              /\ doc[e].name = req[q].label.name
    BY <1>2 DEF Inv, RemovedOnRequest
  <2>2. q # r
    BY <1>1, <2>1, RequestsAreDocs
  <2>3. req'[q] = req[q]
    BY <2>2 DEF Effect, Goes
  <2>4. doc'[e].coll = doc[e].coll /\ doc'[e].name = doc[e].name
    BY <1>2, EffectOneWay DEF OneWay, NotStored
  <2>5. QED
    BY <2>1, <2>3, <2>4
<1>3. CASE doc[e].st # "removed"
  <2>1. doc' # doc
    BY <1>3
  <2>2. ~Inserts(r)
    BY <1>1, <1>3, Inserted
  <2>3. Removes(r, d) /\ req[r].op \in {"delete", "guard"}
    BY <2>1, <2>2 DEF Effect
  <2>4. e = d
    BY <1>1, <1>3, <2>3, Removed
  <2>5. req'[r].doc = d /\ req'[r].op = req[r].op /\ req'[r].label = req[r].label
    BY DEF Effect, Goes
  <2>6. QED
    BY <1>1, <2>3, <2>4, <2>5, Removed
<1>4. QED
  BY <1>2, <1>3

LEMMA EffectOpen ==
  ASSUME Inv, NEW r \in Requests, NEW d, NEW pc, Effect(r, d, pc)
  PROVE  OpenHasNothing'
<1>1. TypeOK /\ doc[r].st = NotStored
  BY DEF Inv, Effect, OpenHasNothing, Open
<1> SUFFICES ASSUME NEW q \in Requests, req'[q].pc \in Open
             PROVE  req'[q].doc = None /\ doc'[q].st = NotStored
  BY DEF OpenHasNothing
<1>2. CASE q = r
  <2>1. pc \in Open
    BY <1>2 DEF Effect, Goes
  <2>2. doc' = doc /\ d = None
    BY <2>1 DEF Effect, Open
  <2>3. QED
    BY <1>1, <1>2, <2>2 DEF Effect, Goes
<1>3. CASE q # r
  <2>1. req'[q] = req[q]
    BY <1>3 DEF Effect, Goes
  <2>2. req[q].doc = None /\ doc[q].st = NotStored
    BY <2>1 DEF Inv, OpenHasNothing
  <2>3. doc'[q] = doc[q]
    BY <1>1, <1>3, <2>2, Inserted, Removed, RequestsAreDocs DEF Effect, NotStored
  <2>4. QED
    BY <2>1, <2>2, <2>3
<1>4. QED
  BY <1>2, <1>3

-----------------------------------------------------------------------------
(* The other steps *)

LEMMA ArriveKeeps ==
  ASSUME Inv, NEW r \in Requests, NEW ask \in Asks, Arrive(r, ask)
  PROVE  Inv'
<1>1. /\ req[r].pc = "new" /\ req[r].doc = None /\ doc[r].st = NotStored
      /\ doc' = doc
      /\ req' = [req EXCEPT ![r] =
           [pc |-> "handler", op |-> ask.op, label |-> ask.label, doc |-> None,
            saw |-> Named(ask.label.coll, ask.label.name)]]
  BY DEF Arrive, Inv, OpenHasNothing, Open
<1>2. TypeOK
  BY DEF Inv
<1>3. /\ ask.op \in {"create", "get", "delete", "guard"}
      /\ ask.label \in Label \cup [coll : Collections, name : Names, second : {None}]
      /\ ask.label.coll \in Collections /\ ask.label.name \in Names
  BY LabelTypes DEF Asks
<1>4. /\ req'[r].pc = "handler" /\ req'[r].op = ask.op /\ req'[r].doc = None
      /\ req'[r].label = ask.label
      /\ req'[r].saw = Named(ask.label.coll, ask.label.name)
      /\ \A q \in Requests \ {r} : req'[q] = req[q]
  BY <1>1, <1>2 DEF TypeOK
<1>5. TypeOK'
  <2>1. Named(ask.label.coll, ask.label.name) \in SUBSET Docs
    BY DEF Named
  <2>2. [pc |-> "handler", op |-> ask.op, label |-> ask.label, doc |-> None,
         saw |-> Named(ask.label.coll, ask.label.name)] \in Request
    BY <1>3, <2>1 DEF Request, States
  <2>3. QED
    BY <1>1, <1>2, <2>2 DEF TypeOK
<1>6. OpenHasNothing'
  BY <1>1, <1>4 DEF Inv, OpenHasNothing
<1>7. AsksByName'
  BY <1>3, <1>4 DEF Inv, AsksByName
<1>8. OneOfAName'
  BY <1>1 DEF Inv, OneOfAName
<1>9. SawByName'
  <2>1. \A d \in Named(ask.label.coll, ask.label.name) :
          doc[d].st # NotStored /\ doc[d].coll = ask.label.coll
            /\ doc[d].name = ask.label.name
    BY DEF Named, NotStored
  <2>2. QED
    BY <1>1, <1>4, <2>1 DEF Inv, SawByName
<1>10. AnswersForTheName'
  BY ZenonT(30), <1>1, <1>4 DEF Inv, AnswersForTheName
<1>11. RemovedOnRequest'
  <2>1. \A q \in Requests : req[q].op \in {"delete", "guard"} => q # r
    BY <1>1 DEF Inv, AsksByName
  <2>2. QED
    BY <1>1, <1>4, <2>1 DEF Inv, RemovedOnRequest
<1>12. QED
  BY <1>5, <1>6, <1>7, <1>8, <1>9, <1>10, <1>11 DEF Inv

\* Requests that end without an answer: their state is all that changes.
LEMMA EndingKeeps ==
  ASSUME Inv, doc' = doc, req' \in [Requests -> Request],
         \A q \in Requests :
           \/ req'[q] = req[q]
           \/ /\ req'[q].pc \in {"refused", "lost"}
              /\ req'[q].op = req[q].op /\ req'[q].label = req[q].label
              /\ req'[q].doc = req[q].doc /\ req'[q].saw = req[q].saw
              /\ req[q].pc = "handler" \/ req[q].pc = "asleep" \/ req[q].pc = "new"
  PROVE  Inv'
<1>1. TypeOK'
  BY DEF Inv, TypeOK
<1>2. OpenHasNothing'
  BY DEF Inv, OpenHasNothing, Open
<1>3. AsksByName'
  BY DEF Inv, AsksByName
<1>4. OneOfAName'
  BY DEF Inv, OneOfAName
<1>5. SawByName'
  BY DEF Inv, SawByName
<1>6. AnswersForTheName'
  BY ZenonT(30) DEF Inv, AnswersForTheName
<1>7. RemovedOnRequest'
  BY DEF Inv, RemovedOnRequest
<1>8. QED
  BY <1>1, <1>2, <1>3, <1>4, <1>5, <1>6, <1>7 DEF Inv

-----------------------------------------------------------------------------
(* The theorems *)

LEMMA InvSteps ==
  ASSUME Inv, [Next]_vars
  PROVE  Inv'
<1>1. TypeOK
  BY DEF Inv
<1>2. ASSUME NEW r \in Requests, NEW ask \in Asks, Arrive(r, ask)
      PROVE  Inv'
  BY <1>2, ArriveKeeps
<1>3. ASSUME NEW r \in Requests, Handle(r) \/ Wake(r)
      PROVE  Inv'
  <2>1. PICK d, pc : Effect(r, d, pc)
    BY <1>3, HandlerEffect
  <2>2. QED
    BY <2>1, EffectTypes, EffectOneOfAName, EffectSaw, EffectAnswers,
       EffectRemoved, EffectOpen DEF Inv
<1>4. ASSUME NEW r \in Requests, Refuse(r)
      PROVE  Inv'
  <2>1. Goes(r, req[r].doc, "refused") /\ doc' = doc /\ req[r].pc = "new"
    BY <1>1, <1>4, ToGoes DEF Refuse, States
  <2>2. QED
    BY <2>1, EndingKeeps DEF Goes
<1>5. CASE Restart
  <2>1. req' \in [Requests -> Request]
    <3>1. \A q \in Requests : [req[q] EXCEPT !.pc = "lost"] \in Request
      BY <1>1 DEF TypeOK, Request, States
    <3>2. QED
      BY <1>1, <1>5, <3>1 DEF Restart, TypeOK
  <2>2. \A q \in Requests :
          \/ req'[q] = req[q]
          \/ /\ req'[q].pc = "lost" /\ req'[q].op = req[q].op
             /\ req'[q].label = req[q].label /\ req'[q].doc = req[q].doc
             /\ req'[q].saw = req[q].saw
             /\ req[q].pc = "handler" \/ req[q].pc = "asleep"
    BY <1>1, <1>5 DEF Restart, TypeOK, Request
  <2>3. QED
    BY <1>5, <2>1, <2>2, EndingKeeps DEF Restart
<1>6. CASE UNCHANGED vars
  BY <1>1, <1>6, EndingKeeps DEF vars, TypeOK
<1>7. QED
  BY <1>2, <1>3, <1>4, <1>5, <1>6 DEF Next

\* The invariant holds in every state.
THEOREM Invariance == Spec => []Inv
<1>1. Inv /\ [Next]_vars => Inv'
  BY InvSteps
<1>2. QED
  BY <1>1, InitInv, PTL DEF Spec

\* Documents and requests are of their types.
THEOREM TypeCorrect == Spec => []TypeOK
<1>1. Inv => TypeOK
  BY DEF Inv
<1>2. QED
  BY <1>1, Invariance, PTL

\* A get, a delete or the guard is answered for the record its name meant when
\* the request arrived, or that record has been removed by somebody else.
THEOREM RightRecord == Spec => []AnswersForTheName
<1>1. Inv => AnswersForTheName
  BY DEF Inv
<1>2. QED
  BY <1>1, Invariance, PTL

\* A record goes only by a request that names it, and each takes one.
THEOREM OnlyOnRequest == Spec => []RemovedOnRequest
<1>1. Inv => RemovedOnRequest
  BY DEF Inv
<1>2. QED
  BY <1>1, Invariance, PTL

-----------------------------------------------------------------------------
(* The guard when it has woken *)

\* The safety half of GuardedGoes: a guard that found a record, or none, leaves
\* nothing of what was there when it was asked.
GuardDone(r) ==
  req[r].op = "guard" =>
    /\ req[r].label.coll = "personnel"
    /\ req[r].pc \in {"removed", "no such record"} =>
         \A d \in req[r].saw : doc[d].st = "removed"

GuardInv == \A r \in Requests : GuardDone(r)

\* A request that a step leaves alone, or takes to another end.
LEMMA GuardKept ==
  ASSUME Inv, GuardInv, OneWay, NEW q \in Requests,
         req'[q].op = req[q].op, req'[q].label = req[q].label,
         req'[q].saw = req[q].saw,
         req'[q].pc \in {"removed", "no such record"} => req'[q].pc = req[q].pc
  PROVE  GuardDone(q)'
<1>1. req[q].saw \subseteq Docs
  BY DEF Inv, TypeOK, Request
<1>2. GuardDone(q)
  BY DEF GuardInv
<1>3. QED
  BY <1>1, <1>2 DEF GuardDone, OneWay, NotStored

LEMMA EffectGuard ==
  ASSUME Inv, GuardInv, NEW r \in Requests, NEW d, NEW pc, Effect(r, d, pc)
  PROVE  GuardInv'
<1>1. ASSUME NEW q \in Requests PROVE GuardDone(q)'
  <2>1. CASE q # r
    <3>1. req'[q] = req[q]
      BY <2>1 DEF Effect, Goes
    <3>2. QED
      BY <3>1, EffectOneWay, GuardKept
  <2>2. CASE q = r /\ pc \notin {"removed", "no such record"}
    <3>1. /\ req'[q].op = req[q].op /\ req'[q].label = req[q].label
          /\ req'[q].saw = req[q].saw /\ req'[q].pc = pc
      BY <2>2 DEF Effect, Goes
    <3>2. QED
      BY <2>2, <3>1, EffectOneWay, GuardKept
  <2>3. CASE q = r /\ pc \in {"removed", "no such record"}
    <3> SUFFICES ASSUME req'[r].op = "guard"
                 PROVE  /\ req'[r].label.coll = "personnel"
                        /\ \A e \in req'[r].saw : doc'[e].st = "removed"
      BY <2>3 DEF GuardDone
    <3>1. /\ req'[r].pc = pc /\ req'[r].doc = d /\ req'[r].saw = req[r].saw
          /\ req'[r].label = req[r].label /\ req[r].op = "guard"
      BY DEF Effect, Goes
    <3>2. req[r].label.coll = "personnel" /\ req[r].label.coll \in UniqueName
      BY <3>1 DEF GuardInv, GuardDone, UniqueName, Collections
    <3>3. \A e \in req[r].saw : d = e \/ doc'[e].st = "removed"
      BY <2>3, <3>1, <3>2, EffectAnswers DEF AnswersForTheName
    <3>4. CASE Removes(r, d)
      <4>1. doc'[d].st = "removed"
        BY <3>4, Removed DEF Inv
      <4>2. QED
        BY <3>1, <3>2, <3>3, <4>1
    <3>5. CASE d = None
      <4>1. \A e \in req[r].saw : e # d
        BY <3>5, RequestsAreDocs DEF Inv, TypeOK, Request
      <4>2. QED
        BY <3>1, <3>2, <3>3, <4>1
    <3>6. QED
      BY <2>3, <3>4, <3>5 DEF Effect
  <2>4. QED
    BY <2>1, <2>2, <2>3
<1>2. QED
  BY <1>1 DEF GuardInv

\* What the guard has accepted to delete is gone when it reports a removal, or
\* that there is nothing: neither a restart nor a removal by somebody else,
\* nor a new record of the same name, makes it take the wrong one.
THEOREM GuardKeepsItsWord ==
  Spec => [](\A r \in Requests :
               req[r].op = "guard" /\ req[r].pc \in {"removed", "no such record"} =>
                 \A d \in req[r].saw : doc[d].st = "removed")
<1> DEFINE Word == \A r \in Requests :
              req[r].op = "guard" /\ req[r].pc \in {"removed", "no such record"} =>
                \A d \in req[r].saw : doc[d].st = "removed"
<1>1. Init => GuardInv
  <2> SUFFICES ASSUME Init, NEW r \in Requests PROVE GuardDone(r)
    BY DEF GuardInv
  <2>1. req[r].op = "none"
    BY DEF Init, Idle
  <2>2. QED
    BY <2>1 DEF GuardDone
<1>2. ASSUME Inv, GuardInv, [Next]_vars PROVE GuardInv'
  <2>0. TypeOK
    BY <1>2 DEF Inv
  <2>1. ASSUME NEW r \in Requests, NEW ask \in Asks, Arrive(r, ask) PROVE GuardInv'
    <3>1. /\ req'[r].pc = "handler" /\ req'[r].op = ask.op /\ req'[r].label = ask.label
          /\ ask.op = "guard" => ask.label.coll = "personnel"
          /\ \A q \in Requests \ {r} : req'[q] = req[q]
          /\ doc' = doc
      BY <2>0, <2>1 DEF Arrive, Routed, TypeOK
    <3>2. GuardDone(r)'
      BY <3>1 DEF GuardDone
    <3>3. \A q \in Requests \ {r} : GuardDone(q)'
      BY <1>2, <3>1 DEF GuardInv, GuardDone
    <3>4. QED
      BY <3>2, <3>3 DEF GuardInv
  <2>2. ASSUME NEW r \in Requests, Handle(r) \/ Wake(r) PROVE GuardInv'
    <3>1. PICK d, pc : Effect(r, d, pc)
      BY <1>2, <2>2, HandlerEffect
    <3>2. QED
      BY <1>2, <3>1, EffectGuard
  <2>3. ASSUME doc' = doc,
               \A q \in Requests :
                 /\ req'[q].op = req[q].op /\ req'[q].label = req[q].label
                 /\ req'[q].saw = req[q].saw
                 /\ req'[q].pc = req[q].pc \/ req'[q].pc \in {"refused", "lost"}
        PROVE  GuardInv'
    <3>1. OneWay
      BY <2>3 DEF OneWay
    <3>2. QED
      BY <1>2, <2>3, <3>1, GuardKept DEF GuardInv
  <2>4. ASSUME NEW r \in Requests, Refuse(r) PROVE GuardInv'
    <3>1. Goes(r, req[r].doc, "refused") /\ doc' = doc
      BY <2>0, <2>4, ToGoes DEF Refuse, States
    <3>2. QED
      BY <2>3, <3>1 DEF Goes
  <2>5. CASE Restart
    <3>1. doc' = doc /\ \A q \in Requests :
            /\ req'[q].op = req[q].op /\ req'[q].label = req[q].label
            /\ req'[q].saw = req[q].saw
            /\ req'[q].pc = req[q].pc \/ req'[q].pc = "lost"
      BY <2>0, <2>5 DEF Restart, TypeOK, Request
    <3>2. QED
      BY <2>3, <3>1
  <2>6. CASE UNCHANGED vars
    BY <2>3, <2>6 DEF vars
  <2>7. QED
    BY <1>2, <2>1, <2>2, <2>4, <2>5, <2>6 DEF Next
<1>3. GuardInv => Word
  BY DEF GuardInv, GuardDone
<1>4. QED
  BY <1>1, <1>2, <1>3, Invariance, PTL DEF Spec
=============================================================================
