------------------------------- MODULE Seeder -------------------------------
(***************************************************************************)
(* tools/seeder on the business database.  A run goes through the          *)
(* collections in a fixed order: it counts the documents, skips the        *)
(* collection if there are any, and otherwise inserts its seeds with one   *)
(* ordered InsertMany, whose documents appear one after the other.  An     *)
(* error of InsertMany ends the program (log.Fatalf).  Nothing undoes what *)
(* was inserted, and nothing prevents two runs at once: the compose file   *)
(* starts one at every "up" and another one after a reset, and it is run   *)
(* by hand.                                                                *)
(*                                                                         *)
(* Operators named after a fault stand beside the one they falsify; no     *)
(* action uses them.                                                       *)
(***************************************************************************)
EXTENDS Naturals, Sequences, FiniteSets

CONSTANTS
  Runs,    \* runs of the program
  Seeds,   \* Seeds[c]: the documents of the c-th collection, in their order
  Unique   \* the collections with a unique index on the key

Collections == DOMAIN Seeds

Documents(c) == {Seeds[c][i] : i \in DOMAIN Seeds[c]}

KeysOf(c) == {d.key : d \in Documents(c)}

Keys == UNION {KeysOf(c) : c \in Collections}

\* The collection of a key.
Home == [k \in Keys |-> CHOOSE c \in Collections : k \in KeysOf(c)]

\* A key belongs to one place of one collection; what a document names comes
\* before it.
ASSUME SeedsAssumption ==
  /\ Seeds \in Seq(Seq([key : Keys, refs : SUBSET Keys])) /\ Seeds # <<>>
  /\ \A c \in Collections : Seeds[c] # <<>>
  /\ \A c, e \in Collections : \A i \in DOMAIN Seeds[c], j \in DOMAIN Seeds[e] :
       /\ Seeds[c][i].key = Seeds[e][j].key => c = e /\ i = j
       /\ Seeds[e][j].key \in Seeds[c][i].refs => e < c \/ (e = c /\ j < i)
  /\ Unique \subseteq Collections

VARIABLES
  copies,  \* copies[k]: how many documents with key k are stored
  run,     \* where each run stands
  cut      \* collections a run died in after its first insertion

vars == <<copies, run, cut>>

-----------------------------------------------------------------------------
(* Places *)

Stored(k) == copies[k] > 0
Complete(c) == \A k \in KeysOf(c) : Stored(k)
Empty(c) == \A k \in KeysOf(c) : ~Stored(k)

Active == {"count", "insert"}
Started == {r \in Runs : run[r].pc # "new"}
Running == {r \in Runs : run[r].pc \in Active}

\* alone: no other run was active at any time of this one.
\* blind: an error of CountDocuments was taken for an empty collection.
NotStarted == [pc |-> "new", coll |-> 1, next |-> 1, alone |-> TRUE,
               blind |-> FALSE]

\* The key that the ordered insertion comes to next.
FromAMap(r) ==
  IF r = CHOOSE q \in Runs : TRUE
  THEN Seeds[run[r].coll][Len(Seeds[run[r].coll]) + 1 - run[r].next].key
  ELSE Seeds[run[r].coll][run[r].next].key
Current(r) == Seeds[run[r].coll][run[r].next].key

Inserting(r) ==
  run[r].pc = "insert" /\ run[r].next \in DOMAIN Seeds[run[r].coll]

\* Runs that have yet to insert something, or to fail, in collection c.
Filling(c) == {r \in Runs : Inserting(r) /\ run[r].coll = c}

\* The collection is dealt with: the next one, or the end of the seeding.
Advance(r) ==
  LET Place(pc, c, i) == [pc |-> pc, coll |-> c, next |-> i,
                          alone |-> run[r].alone, blind |-> run[r].blind]
  IN  run' = [run EXCEPT ![r] =
                IF run[r].coll = Len(Seeds)
                THEN Place("done", run[r].coll, run[r].next)
                ELSE Place("count", run[r].coll + 1, 1)]

-----------------------------------------------------------------------------
Init ==
  /\ copies = [k \in Keys |-> 0]
  /\ run = [r \in Runs |-> NotStarted]
  /\ cut = {}

\* main has connected to the database.
Start(r) ==
  /\ run[r].pc = "new"
  /\ run' = [q \in Runs |->
       IF q = r
       THEN [pc |-> "count", coll |-> 1, next |-> 1,
             alone |-> Running = {}, blind |-> FALSE]
       ELSE IF q \in Running THEN [run[q] EXCEPT !.alone = FALSE] ELSE run[q]]
  /\ UNCHANGED <<copies, cut>>

\* CountDocuments and the test of the count.  Its error is dropped and leaves
\* a count of zero.
CountsOnlyIndexed(r) ==
  /\ run[r].pc = "count"
  /\ IF run[r].coll \in Unique /\ ~Empty(run[r].coll)
     THEN Advance(r)
     ELSE run' = [run EXCEPT ![r].pc = "insert"]
  /\ UNCHANGED <<copies, cut>>

Count(r) ==
  /\ run[r].pc = "count"
  /\ \/ /\ ~Empty(run[r].coll)
        /\ Advance(r)
     \/ /\ Empty(run[r].coll)
        /\ run' = [run EXCEPT ![r].pc = "insert"]
     \/ run' = [run EXCEPT ![r].pc = "insert", ![r].blind = TRUE]
  /\ UNCHANGED <<copies, cut>>

\* One document of InsertMany.  The unique index refuses a key that is there,
\* and the program ends.
InsertOne(r) ==
  /\ Inserting(r)
  /\ \/ /\ run[r].coll \in Unique => ~Stored(Current(r))
        /\ copies' = [copies EXCEPT ![Current(r)] = @ + 1]
        /\ run' = [run EXCEPT ![r].next = @ + 1]
     \/ /\ run[r].coll \in Unique /\ Stored(Current(r))
        /\ run' = [run EXCEPT ![r].pc = "duplicate"]
        /\ UNCHANGED copies
  /\ UNCHANGED cut

\* InsertMany returns without an error.
Inserted(r) ==
  /\ run[r].pc = "insert" /\ ~Inserting(r)
  /\ Advance(r)
  /\ UNCHANGED <<copies, cut>>

\* The run is killed, or InsertMany fails: a lost connection, or the context
\* of 120 s is over.  (A run whose client is gone while the server still works
\* on its batch has not died yet.)
GoOn(r) ==
  /\ run[r].pc \in Active
  /\ Advance(r)
  /\ UNCHANGED <<copies, cut>>

Die(r) ==
  /\ run[r].pc \in Active
  /\ run' = [run EXCEPT ![r].pc = "dead"]
  /\ cut' = IF Inserting(r) /\ run[r].next > 1 THEN cut \cup {run[r].coll}
                                               ELSE cut
  /\ UNCHANGED copies

\* No run is left.
Finished ==
  /\ \A r \in Runs : run[r].pc \notin Active \cup {"new"}
  /\ UNCHANGED vars

Next == \/ \E r \in Runs :
             Start(r) \/ Count(r) \/ InsertOne(r) \/ Inserted(r) \/ Die(r)
        \/ Finished

Spec == Init /\ [][Next]_vars

-----------------------------------------------------------------------------
(* Properties *)

TypeOK ==
  /\ copies \in [Keys -> Nat]
  /\ run \in [Runs -> [pc : {"new", "done", "dead", "duplicate"} \cup Active,
                       coll : Collections, next : Nat \ {0},
                       alone : BOOLEAN, blind : BOOLEAN]]
  /\ \A r \in Runs : run[r].next <= Len(Seeds[run[r].coll]) + 1
  /\ cut \subseteq Collections

\* "Respects referential dependencies" (main.go): a document that is stored
\* names only documents that are stored, unless a run is just inserting the
\* collection of the missing one, or died while it did.  So of two runs the
\* second, which skips a collection the first has only begun, is ahead of it
\* for no longer than the first takes.
DanglingExplained ==
  \A c \in Collections : \A d \in Documents(c) : Stored(d.key) =>
    \A k \in d.refs :
      Stored(k) \/ Home[k] \in cut \/ Filling(Home[k]) # {}

\* A run that ends well leaves every collection complete, but for those that
\* another run was cut short in or has not finished.
DoneMeansComplete ==
  (\E r \in Runs : run[r].pc = "done") =>
    \A c \in Collections : Complete(c) \/ c \in cut \/ Filling(c) # {}

\* Runs that start together on an empty database stop each other at the unique
\* indexes, but never all of them: unless a fault ended one, or some are still
\* at work, one of those that started has completed.
SomebodySurvives ==
  (Started # {} /\ Running = {} /\ \A r \in Runs : run[r].pc # "dead")
    => \E r \in Runs : run[r].pc = "done"

\* Running the program again doubles nothing; only two runs at once, or an
\* error of the count, can, and only where no unique index refuses it (the
\* readings of the reactor).
DoubledOnlyInARace ==
  \A k \in Keys : copies[k] > 1 =>
    /\ Home[k] \notin Unique
    /\ \E r \in Runs : run[r].blind \/ ~run[r].alone
=============================================================================
