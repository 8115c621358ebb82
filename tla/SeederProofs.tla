---------------------------- MODULE SeederProofs ----------------------------
(***************************************************************************)
(* Theorems about Seeder, for any runs, any seeds whose references point   *)
(* backwards, and any choice of unique indexes.                            *)
(*                                                                         *)
(* Documents are spoken of by their place (c, i).  What is stored of a     *)
(* collection is a prefix of it, since every insertion is ordered and      *)
(* begins with the first document; in a collection with a unique index one *)
(* run alone gets past the first document.                                 *)
(***************************************************************************)
EXTENDS Seeder, TLAPS

\* The places of a collection, and the key of a place.
Places(c) == DOMAIN Seeds[c]
KeyAt(c, i) == Seeds[c][i].key
Last == Len(Seeds)

\* The document at a place is stored.
At(c, i) == copies[KeyAt(c, i)] > 0

\* Run r has begun to fill collection c.
Began(r, c) == run[r].pc = "insert" /\ run[r].coll = c /\ run[r].next > 1

Held(c) == \E i \in Places(c) : At(c, i)

\* A collection that nothing needs to be done about, as far as it goes.
Dealt(c) ==
  \/ \A i \in Places(c) : At(c, i)
  \/ c \in cut
  \/ \E r \in Runs : Began(r, c) /\ run[r].next \in Places(c)

-----------------------------------------------------------------------------
(* The invariant *)

PrefixClosed ==
  \A c \in Collections : \A i, j \in Places(c) : j < i /\ At(c, i) => At(c, j)

Behind ==
  \A r \in Runs :
    /\ run[r].pc = "count" => run[r].next = 1
    /\ \A c \in Collections : run[r].pc = "insert" /\ run[r].coll = c =>
         \A i \in Places(c) : i < run[r].next => At(c, i)

\* Who has begun a collection with a unique index has it alone.
Sole ==
  \A c \in Unique : \A r \in Runs : Began(r, c) =>
    /\ \A i \in Places(c) : i >= run[r].next => ~At(c, i)
    /\ \A q \in Runs \ {r} : ~Began(q, c)

HeldIsDealt ==
  \A c \in Collections : Held(c) =>
    \A e \in Collections : e <= c => Dealt(e)

PassedIsDealt ==
  \A r \in Runs : run[r].pc # "new" =>
    \A c \in Collections : c < run[r].coll \/ run[r].pc = "done" => Dealt(c)

Inv == TypeOK /\ PrefixClosed /\ Behind /\ Sole /\ HeldIsDealt /\ PassedIsDealt

\* For SomebodySurvives: unless a run died, somebody is beyond the first
\* document of every collection that has one.
Beyond(s, c) ==
  \/ run[s].pc = "done"
  \/ run[s].pc \in Active /\ run[s].coll > c
  \/ Began(s, c)

Front ==
  (\A r \in Runs : run[r].pc # "dead") =>
    \A c \in Collections : Held(c) => \E s \in Runs : Beyond(s, c)

RefusedByHeld ==
  \A r \in Runs : \A c \in Collections :
    run[r].pc = "duplicate" /\ run[r].coll = c => Held(c)

\* For DoubledOnlyInARace.
Undisturbed == \A r \in Runs : run[r].alone /\ ~run[r].blind

Fresh == \A r \in Runs : run[r].pc = "new" => run[r].alone /\ ~run[r].blind

SingleWhereUnique ==
  \A c \in Unique : \A i \in Places(c) : copies[KeyAt(c, i)] <= 1

SingleUnlessDisturbed ==
  Undisturbed =>
    /\ \A c \in Collections : \A i \in Places(c) : copies[KeyAt(c, i)] <= 1
    /\ \A r \in Running, c \in Collections :
         run[r].pc = "insert" /\ run[r].coll = c =>
           \A i \in Places(c) : i >= run[r].next => ~At(c, i)
    /\ \A r, q \in Running : r = q

Orderly == Fresh /\ SingleWhereUnique /\ SingleUnlessDisturbed

-----------------------------------------------------------------------------
(* The seeds *)

\* Collections and places are numbered from 1, and keys and places correspond.
LEMMA SeedShape ==
  /\ Last \in Nat \ {0} /\ Collections = 1 .. Last
  /\ \A c \in Collections :
       Len(Seeds[c]) \in Nat \ {0} /\ Places(c) = 1 .. Len(Seeds[c])
<1>1. Seeds \in Seq(Seq([key : Keys, refs : SUBSET Keys])) /\ Seeds # <<>>
  BY SeedsAssumption
<1>2. Last \in Nat \ {0} /\ Collections = 1 .. Last
  BY <1>1 DEF Last, Collections
<1>3. ASSUME NEW c \in Collections
      PROVE  Len(Seeds[c]) \in Nat \ {0} /\ Places(c) = 1 .. Len(Seeds[c])
  <2>1. Seeds[c] \in Seq([key : Keys, refs : SUBSET Keys])
    BY <1>1, <1>2 DEF Last
  <2>2. Seeds[c] # <<>>
    BY SeedsAssumption
  <2>3. QED
    BY <2>1, <2>2 DEF Places
<1>4. QED
  BY <1>2, <1>3

LEMMA KeysAndPlaces ==
  /\ \A c \in Collections : \A i \in Places(c) : KeyAt(c, i) \in Keys
  /\ \A c, e \in Collections : \A i \in Places(c), j \in Places(e) :
       KeyAt(c, i) = KeyAt(e, j) => c = e /\ i = j
  /\ \A k \in Keys : \E c \in Collections : \E i \in Places(c) : k = KeyAt(c, i)
<1>1. ASSUME NEW c \in Collections, NEW i \in Places(c)
      PROVE  KeyAt(c, i) \in Keys
  BY <1>1 DEF Keys, KeysOf, Documents, KeyAt, Places
<1>2. ASSUME NEW k \in Keys
      PROVE  \E c \in Collections : \E i \in Places(c) : k = KeyAt(c, i)
  BY <1>2 DEF Keys, KeysOf, Documents, KeyAt, Places
<1>3. QED
  BY <1>1, <1>2, SeedsAssumption DEF KeyAt, Places

LEMMA HomeOfKey ==
  \A c \in Collections : \A i \in Places(c) : Home[KeyAt(c, i)] = c
<1> SUFFICES ASSUME NEW c \in Collections, NEW i \in Places(c)
             PROVE  Home[KeyAt(c, i)] = c
  OBVIOUS
<1>1. KeyAt(c, i) \in Keys /\ KeyAt(c, i) \in KeysOf(c)
  BY KeysAndPlaces DEF KeysOf, Documents, KeyAt, Places
<1>2. ASSUME NEW e \in Collections, KeyAt(c, i) \in KeysOf(e)
      PROVE  e = c
  <2>1. PICK j \in Places(e) : KeyAt(c, i) = KeyAt(e, j)
    BY <1>2 DEF KeysOf, Documents, KeyAt, Places
  <2>2. QED
    BY <2>1, KeysAndPlaces
<1>3. QED
  BY <1>1, <1>2 DEF Home

LEMMA HeldAndEmpty ==
  \A c \in Collections :
    /\ Empty(c) <=> ~Held(c)
    /\ Complete(c) <=> \A i \in Places(c) : At(c, i)
BY DEF Empty, Held, Complete, At, Stored, KeysOf, Documents, KeyAt, Places

-----------------------------------------------------------------------------
(* What a step does to a run *)

\* The place of run q stays.
Same(q) == /\ run'[q].pc = run[q].pc /\ run'[q].coll = run[q].coll
           /\ run'[q].next = run[q].next /\ run'[q].blind = run[q].blind

Advanced(r) ==
  \/ /\ run[r].coll = Last
     /\ run'[r].pc = "done" /\ run'[r].coll = run[r].coll
     /\ run'[r].next = run[r].next
  \/ /\ run[r].coll < Last
     /\ run'[r].pc = "count" /\ run'[r].coll = run[r].coll + 1
     /\ run'[r].next = 1

\* The steps of run r, told by the places.
Entered(r) ==
  /\ run[r].pc = "new"
  /\ run'[r].pc = "count" /\ run'[r].coll = 1 /\ run'[r].next = 1
  /\ UNCHANGED <<copies, cut>>

Skipped(r) ==
  /\ run[r].pc = "count" /\ Held(run[r].coll) /\ Advanced(r)
  /\ UNCHANGED <<copies, cut>>

Opened(r) ==
  /\ run[r].pc = "count"
  /\ run'[r].pc = "insert" /\ run'[r].coll = run[r].coll
  /\ run'[r].next = run[r].next
  /\ run'[r].blind \/ ~Held(run[r].coll)
  /\ UNCHANGED <<copies, cut>>

Added(r) ==
  /\ Inserting(r)
  /\ run[r].coll \in Unique => ~At(run[r].coll, run[r].next)
  /\ copies' = [copies EXCEPT ![KeyAt(run[r].coll, run[r].next)] = @ + 1]
  /\ run'[r].pc = "insert" /\ run'[r].coll = run[r].coll
  /\ run'[r].next = run[r].next + 1
  /\ UNCHANGED cut

Refused(r) ==
  /\ Inserting(r)
  /\ run[r].coll \in Unique /\ At(run[r].coll, run[r].next)
  /\ run'[r].pc = "duplicate" /\ run'[r].coll = run[r].coll
  /\ run'[r].next = run[r].next
  /\ UNCHANGED <<copies, cut>>

Closed(r) ==
  /\ run[r].pc = "insert" /\ ~Inserting(r) /\ Advanced(r)
  /\ UNCHANGED <<copies, cut>>

Died(r) ==
  /\ run[r].pc \in Active
  /\ run'[r].pc = "dead" /\ run'[r].coll = run[r].coll
  /\ run'[r].next = run[r].next
  /\ cut' = IF Inserting(r) /\ run[r].next > 1 THEN cut \cup {run[r].coll}
                                               ELSE cut
  /\ UNCHANGED copies

Stepped(r) ==
  /\ \A q \in Runs \ {r} : Same(q)
  /\ \/ Entered(r) \/ Skipped(r) \/ Opened(r) \/ Added(r)
     \/ Refused(r) \/ Closed(r) \/ Died(r)

LEMMA AdvanceMoves ==
  ASSUME TypeOK, NEW r \in Runs, Advance(r)
  PROVE  /\ TypeOK' \/ copies' # copies \/ cut' # cut
         /\ \A q \in Runs \ {r} : Same(q)
         /\ \A q \in Runs : run'[q].alone = run[q].alone
                            /\ run'[q].blind = run[q].blind
         /\ Advanced(r)
<1> DEFINE Place(pc, c, i) == [pc |-> pc, coll |-> c, next |-> i,
                               alone |-> run[r].alone, blind |-> run[r].blind]
           done == Place("done", run[r].coll, run[r].next)
           next == Place("count", run[r].coll + 1, 1)
<1>1. /\ run[r] \in [pc : {"new", "done", "dead", "duplicate"} \cup Active,
                     coll : Collections, next : Nat \ {0},
                     alone : BOOLEAN, blind : BOOLEAN]
      /\ run[r].coll \in 1 .. Last /\ Last \in Nat
      /\ run[r].next <= Len(Seeds[run[r].coll]) + 1
  BY SeedShape DEF TypeOK
<1>2. run' = [run EXCEPT ![r] = IF run[r].coll = Last THEN done ELSE next]
  BY DEF Advance, Last
<1>3. \A q \in Runs \ {r} : run'[q] = run[q]
  BY <1>2 DEF TypeOK
<1>4. run'[r] = IF run[r].coll = Last THEN done ELSE next
  BY <1>2 DEF TypeOK
<1>5. CASE run[r].coll = Last
  <2>1. run'[r] = done
    BY <1>4, <1>5
  <2>2. /\ done.pc = "done" /\ done.coll = run[r].coll
        /\ done.next = run[r].next /\ done.alone = run[r].alone
        /\ done.blind = run[r].blind
        /\ done \in [pc : {"new", "done", "dead", "duplicate"} \cup Active,
                     coll : Collections, next : Nat \ {0},
                     alone : BOOLEAN, blind : BOOLEAN]
    BY <1>1
  <2>3. TypeOK' \/ copies' # copies \/ cut' # cut
    BY <1>1, <1>2, <1>3, <2>1, <2>2 DEF TypeOK
  <2>4. QED
    BY <1>3, <1>5, <2>1, <2>2, <2>3 DEF Same, Advanced
<1>6. CASE run[r].coll # Last
  <2>1. run'[r] = next
    BY <1>4, <1>6
  <2>2. run[r].coll + 1 \in Collections /\ run[r].coll < Last
    BY <1>1, <1>6, SeedShape
  <2>3. /\ next.pc = "count" /\ next.coll = run[r].coll + 1
        /\ next.next = 1 /\ next.alone = run[r].alone
        /\ next.blind = run[r].blind
        /\ next \in [pc : {"new", "done", "dead", "duplicate"} \cup Active,
                     coll : Collections, next : Nat \ {0},
                     alone : BOOLEAN, blind : BOOLEAN]
    BY <1>1, <2>2 DEF Active
  <2>4. 1 <= Len(Seeds[run[r].coll + 1]) + 1
    BY <2>2, SeedShape
  <2>5. TypeOK' \/ copies' # copies \/ cut' # cut
    BY <1>1, <1>2, <1>3, <2>1, <2>3, <2>4 DEF TypeOK
  <2>6. QED
    BY <1>3, <2>1, <2>2, <2>3, <2>5 DEF Same, Advanced
<1>7. QED
  BY <1>5, <1>6

\* Every step is that of one run, keeps the types, and forgets no disturbance.
LEMMA StepOfARun ==
  ASSUME TypeOK, NEW r \in Runs,
         Start(r) \/ Count(r) \/ InsertOne(r) \/ Inserted(r) \/ Die(r)
  PROVE  TypeOK' /\ Stepped(r)
<1> DEFINE PCs == {"new", "done", "dead", "duplicate"} \cup Active
           Rec == [pc : PCs, coll : Collections, next : Nat \ {0},
                   alone : BOOLEAN, blind : BOOLEAN]
<1>1. run[r] \in Rec /\ run[r].next <= Len(Seeds[run[r].coll]) + 1
  BY DEF TypeOK
<1>2. run[r].coll \in Collections
  BY <1>1
<1>3. CASE Start(r)
  <2>1. run'[r] = [pc |-> "count", coll |-> 1, next |-> 1,
                   alone |-> Running = {}, blind |-> FALSE]
    BY <1>3 DEF Start
  <2>2. /\ run'[r].pc = "count" /\ run'[r].coll = 1 /\ run'[r].next = 1
        /\ run'[r].blind = FALSE /\ run'[r].alone \in BOOLEAN
        /\ run'[r] \in Rec
    BY <2>1, SeedShape DEF Active
  <2>3. ASSUME NEW q \in Runs \ {r}
        PROVE  Same(q) /\ run'[q] \in Rec
    <3>1. run[q] \in Rec
      BY DEF TypeOK
    <3>2. run'[q] = IF q \in Running THEN [run[q] EXCEPT !.alone = FALSE]
                                     ELSE run[q]
      BY <1>3 DEF Start
    <3>3. QED
      BY <3>1, <3>2 DEF Same
  <2>4. run' \in [Runs -> Rec]
    <3>1. \A q \in Runs : run'[q] \in Rec
      BY <2>2, <2>3
    <3>2. run' = [q \in Runs |-> run'[q]]
      BY <1>3 DEF Start
    <3>3. QED
      BY <3>1, <3>2
  <2>5. \A q \in Runs : run'[q].next <= Len(Seeds[run'[q].coll]) + 1
    BY <2>2, <2>3, SeedShape DEF Same, TypeOK
  <2>6. TypeOK'
    BY <2>4, <2>5, <1>3 DEF TypeOK, Start
  <2>7. QED
    BY <2>2, <2>3, <2>6, <1>3 DEF Stepped, Entered, Start
<1>4. CASE Count(r)
  <2>1. run[r].pc = "count" /\ UNCHANGED <<copies, cut>>
    BY <1>4 DEF Count
  <2>2. CASE ~Empty(run[r].coll) /\ Advance(r)
    BY <2>1, <2>2, <1>2, AdvanceMoves, HeldAndEmpty DEF Stepped, Skipped
  <2>3. ASSUME \/ /\ Empty(run[r].coll)
                  /\ run' = [run EXCEPT ![r].pc = "insert"]
               \/ run' = [run EXCEPT ![r].pc = "insert", ![r].blind = TRUE]
        PROVE  TypeOK' /\ Stepped(r)
    <3>1. \A q \in Runs \ {r} : run'[q] = run[q]
      BY <2>3 DEF TypeOK
    <3>2. /\ run'[r].pc = "insert" /\ run'[r].coll = run[r].coll
          /\ run'[r].next = run[r].next
          /\ run'[r].blind \/ Empty(run[r].coll)
          /\ run'[r] \in Rec
      BY SMTT(20), <2>3, <1>1 DEF TypeOK, Active
    <3>3. run' \in [Runs -> Rec]
      BY <2>3, <3>1, <3>2 DEF TypeOK
    <3>4. TypeOK'
      BY <2>1, <3>1, <3>2, <3>3 DEF TypeOK
    <3>5. run'[r].blind \/ ~Held(run[r].coll)
      BY <3>2, <1>2, HeldAndEmpty
    <3>6. QED
      BY <2>1, <3>1, <3>2, <3>4, <3>5 DEF Stepped, Opened, Same
  <2>4. QED
    BY <1>4, <2>2, <2>3 DEF Count
<1>5. CASE InsertOne(r)
  <2>1. /\ Inserting(r) /\ UNCHANGED cut
        /\ Current(r) = KeyAt(run[r].coll, run[r].next)
        /\ Stored(Current(r)) <=> At(run[r].coll, run[r].next)
    BY <1>5 DEF InsertOne, Current, KeyAt, Stored, At
  <2>2. /\ run[r].pc = "insert" /\ run[r].next \in Places(run[r].coll)
        /\ run[r].next <= Len(Seeds[run[r].coll])
        /\ Current(r) \in Keys
    BY <2>1, <1>2, SeedShape, KeysAndPlaces DEF Inserting, Places
  <2>3. CASE /\ run[r].coll \in Unique => ~Stored(Current(r))
             /\ copies' = [copies EXCEPT ![Current(r)] = @ + 1]
             /\ run' = [run EXCEPT ![r].next = @ + 1]
    <3>1. \A q \in Runs \ {r} : run'[q] = run[q]
      BY <2>3 DEF TypeOK
    <3>2. /\ run'[r].pc = "insert" /\ run'[r].coll = run[r].coll
          /\ run'[r].next = run[r].next + 1
          /\ run'[r] \in Rec
      <4>1. run'[r] = [run[r] EXCEPT !.next = run[r].next + 1]
        BY <2>3 DEF TypeOK
      <4>2. run[r].next + 1 \in Nat \ {0}
        BY <1>1
      <4>3. QED
        BY <4>1, <4>2, <1>1, <2>2
    <3>3. run' \in [Runs -> Rec]
      BY <2>3, <3>1, <3>2 DEF TypeOK
    <3>4. run'[r].next <= Len(Seeds[run'[r].coll]) + 1
      BY <3>2, <2>2, <1>1, <1>2, SeedShape
    <3>5. copies' \in [Keys -> Nat]
      BY <2>2, <2>3 DEF TypeOK
    <3>6. TypeOK'
      BY <2>1, <3>1, <3>3, <3>4, <3>5 DEF TypeOK
    <3>7. QED
      BY <2>1, <2>3, <3>1, <3>2, <3>6 DEF Stepped, Added, Same
  <2>4. CASE /\ run[r].coll \in Unique /\ Stored(Current(r))
             /\ run' = [run EXCEPT ![r].pc = "duplicate"]
             /\ UNCHANGED copies
    <3>1. \A q \in Runs \ {r} : run'[q] = run[q]
      BY <2>4 DEF TypeOK
    <3>2. /\ run'[r].pc = "duplicate" /\ run'[r].coll = run[r].coll
          /\ run'[r].next = run[r].next
          /\ run'[r] \in Rec
      BY <2>4, <1>1 DEF TypeOK
    <3>3. run' \in [Runs -> Rec]
      BY <2>4, <3>1, <3>2 DEF TypeOK
    <3>4. TypeOK'
      BY <2>1, <2>4, <3>1, <3>2, <3>3 DEF TypeOK
    <3>5. QED
      BY <2>1, <2>4, <3>1, <3>2, <3>4 DEF Stepped, Refused, Same
  <2>5. QED
    BY <1>5, <2>3, <2>4 DEF InsertOne
<1>6. CASE Inserted(r)
  BY <1>6, AdvanceMoves DEF Inserted, Stepped, Closed
<1>7. CASE Die(r)
  <2>1. \A q \in Runs \ {r} : run'[q] = run[q]
    BY <1>7 DEF Die, TypeOK
  <2>2. /\ run'[r].pc = "dead" /\ run'[r].coll = run[r].coll
        /\ run'[r].next = run[r].next
        /\ run'[r] \in Rec
    BY <1>7, <1>1 DEF Die, TypeOK
  <2>3. run' \in [Runs -> Rec]
    BY <1>7, <2>1, <2>2 DEF Die, TypeOK
  <2>4. cut' \subseteq Collections
    BY <1>7, <1>2 DEF Die, TypeOK
  <2>5. TypeOK'
    BY <1>7, <2>1, <2>2, <2>3, <2>4 DEF Die, TypeOK
  <2>6. QED
    BY <1>7, <2>1, <2>2, <2>5 DEF Stepped, Died, Die, Same
<1>8. QED
  BY <1>3, <1>4, <1>5, <1>6, <1>7

LEMMA Stutters ==
  ASSUME UNCHANGED vars
  PROVE  copies' = copies /\ run' = run /\ cut' = cut
BY DEF vars

LEMMA InitTypes == Init => TypeOK
BY SeedShape DEF Init, TypeOK, NotStarted, Active

\* The types, for every set of runs and every seeds.
THEOREM TypeCorrect == Spec => []TypeOK
<1>1. TypeOK /\ [Next]_vars => TypeOK'
  <2> SUFFICES ASSUME TypeOK, [Next]_vars PROVE TypeOK'
    OBVIOUS
  <2>1. CASE \E r \in Runs : Start(r) \/ Count(r) \/ InsertOne(r)
                             \/ Inserted(r) \/ Die(r)
    BY <2>1, StepOfARun
  <2>2. CASE UNCHANGED vars
    BY <2>2, Stutters DEF TypeOK
  <2>3. QED
    BY <2>1, <2>2 DEF Next, Finished
<1>2. QED
  BY <1>1, InitTypes, PTL DEF Spec

-----------------------------------------------------------------------------
(* What a step does to the places *)

LEMMA AddedPlaces ==
  ASSUME TypeOK, NEW r \in Runs, Added(r)
  PROVE  /\ run[r].coll \in Collections
         /\ run[r].next \in Places(run[r].coll)
         /\ \A c \in Collections : \A i \in Places(c) :
              /\ (c = run[r].coll /\ i = run[r].next) =>
                   copies'[KeyAt(c, i)] = copies[KeyAt(c, i)] + 1
              /\ ~(c = run[r].coll /\ i = run[r].next) =>
                   copies'[KeyAt(c, i)] = copies[KeyAt(c, i)]
              /\ At(c, i)' <=> At(c, i) \/ (c = run[r].coll /\ i = run[r].next)
<1> DEFINE a == run[r].coll
           n == run[r].next
<1>1. a \in Collections /\ n \in Places(a)
  BY DEF TypeOK, Added, Inserting, Places
<1>2. KeyAt(a, n) \in Keys /\ copies' = [copies EXCEPT ![KeyAt(a, n)] = @ + 1]
  BY <1>1, KeysAndPlaces DEF Added
<1>3. ASSUME NEW c \in Collections, NEW i \in Places(c)
      PROVE  /\ (c = a /\ i = n) =>
                  copies'[KeyAt(c, i)] = copies[KeyAt(c, i)] + 1
             /\ ~(c = a /\ i = n) => copies'[KeyAt(c, i)] = copies[KeyAt(c, i)]
             /\ copies[KeyAt(c, i)] \in Nat
  <2>1. KeyAt(c, i) \in Keys /\ (KeyAt(c, i) = KeyAt(a, n) => c = a /\ i = n)
    BY <1>1, KeysAndPlaces
  <2>2. QED
    BY <1>2, <2>1 DEF TypeOK
<1>4. ASSUME NEW c \in Collections, NEW i \in Places(c)
      PROVE  At(c, i)' <=> At(c, i) \/ (c = a /\ i = n)
  BY <1>3 DEF At
<1>5. QED
  BY <1>1, <1>3, <1>4

\* Documents are only added.
LEMMA PlacesKept ==
  ASSUME TypeOK, NEW r \in Runs, Stepped(r)
  PROVE  /\ \A c \in Collections : \A i \in Places(c) : At(c, i) => At(c, i)'
         /\ ~Added(r) =>
              \A c \in Collections : \A i \in Places(c) : At(c, i)' <=> At(c, i)
<1>1. CASE Added(r)
  BY <1>1, AddedPlaces
<1>2. CASE ~Added(r)
  <2>1. copies' = copies
    BY <1>2 DEF Stepped, Entered, Skipped, Opened, Refused, Closed, Died
  <2>2. QED
    BY <1>2, <2>1 DEF At
<1>3. QED
  BY <1>1, <1>2

\* Where a run comes to by a step: to the first document, or one further.
LEMMA RunAfter ==
  ASSUME TypeOK, Behind, NEW r \in Runs, Stepped(r)
  PROVE  /\ run'[r].pc = "count" => run'[r].next = 1
         /\ run'[r].pc = "insert" => \/ Added(r)
                                     \/ Opened(r) /\ run'[r].next = 1
<1>1. run[r].pc = "count" => run[r].next = 1
  BY DEF Behind
<1>2. CASE Entered(r)
  BY <1>2 DEF Entered
<1>3. CASE Skipped(r) \/ Closed(r)
  BY <1>3 DEF Skipped, Closed, Advanced
<1>4. CASE Opened(r)
  BY <1>1, <1>4 DEF Opened
<1>5. CASE Added(r)
  BY <1>5 DEF Added
<1>6. CASE Refused(r) \/ Died(r)
  BY <1>6 DEF Refused, Died
<1>7. QED
  BY <1>2, <1>3, <1>4, <1>5, <1>6 DEF Stepped

LEMMA PrefixStays ==
  ASSUME TypeOK, PrefixClosed, Behind, NEW r \in Runs, Stepped(r)
  PROVE  PrefixClosed'
<1> SUFFICES ASSUME NEW c \in Collections, NEW i \in Places(c),
                    NEW j \in Places(c), j < i, At(c, i)'
             PROVE  At(c, j)'
  BY DEF PrefixClosed
<1>1. CASE At(c, i)
  BY <1>1, PlacesKept DEF PrefixClosed
<1>2. CASE ~At(c, i)
  <2>1. Added(r)
    BY <1>2, PlacesKept
  <2>2. c = run[r].coll /\ i = run[r].next
    BY <1>2, <2>1, AddedPlaces
  <2>3. At(c, j)
    BY <2>1, <2>2 DEF Behind, Added, Inserting
  <2>4. QED
    BY <2>3, PlacesKept
<1>3. QED
  BY <1>1, <1>2

LEMMA BehindStays ==
  ASSUME TypeOK, TypeOK', Behind, NEW r \in Runs, Stepped(r)
  PROVE  Behind'
<1> SUFFICES ASSUME NEW q \in Runs
             PROVE  /\ run'[q].pc = "count" => run'[q].next = 1
                    /\ \A c \in Collections :
                         run'[q].pc = "insert" /\ run'[q].coll = c =>
                           \A i \in Places(c) : i < run'[q].next => At(c, i)'
  BY DEF Behind
<1>1. CASE q # r
  <2>1. Same(q)
    BY <1>1 DEF Stepped
  <2>2. QED
    BY <2>1, PlacesKept DEF Same, Behind
<1>2. CASE q = r
  <2>1. run'[r].pc = "count" => run'[r].next = 1
    BY RunAfter
  <2>2. ASSUME NEW c \in Collections, run'[r].pc = "insert", run'[r].coll = c,
               NEW i \in Places(c), i < run'[r].next
        PROVE  At(c, i)'
    <3>1. i \in Nat \ {0}
      BY SeedShape
    <3>2. Added(r)
      BY <2>2, <3>1, RunAfter
    <3>3. /\ run[r].coll = c /\ run'[r].next = run[r].next + 1
          /\ run[r].pc = "insert" /\ run[r].next \in Nat
      BY <2>2, <3>2 DEF Added, Inserting, TypeOK
    <3>4. i < run[r].next \/ i = run[r].next
      BY <2>2, <3>1, <3>3
    <3>5. i < run[r].next => At(c, i)
      BY <3>3 DEF Behind
    <3>6. QED
      BY <3>2, <3>3, <3>4, <3>5, AddedPlaces
  <2>3. QED
    BY <1>2, <2>1, <2>2
<1>3. QED
  BY <1>1, <1>2

\* Only an insertion makes a run have begun a collection.
LEMMA BeganAfter ==
  ASSUME TypeOK, Behind, NEW r \in Runs, Stepped(r), NEW c, NEW q \in Runs,
         Began(q, c)'
  PROVE  \/ q # r /\ Began(q, c)
         \/ q = r /\ Added(r) /\ c = run[r].coll
<1>1. CASE q # r
  BY <1>1 DEF Stepped, Same, Began
<1>2. CASE q = r
  <2>1. Added(r)
    BY <1>2, RunAfter DEF Began
  <2>2. QED
    BY <1>2, <2>1 DEF Added, Began
<1>3. QED
  BY <1>1, <1>2

LEMMA SoleStays ==
  ASSUME TypeOK, TypeOK', PrefixClosed, Behind, Sole, NEW r \in Runs, Stepped(r)
  PROVE  Sole'
<1> SUFFICES ASSUME NEW c \in Unique, NEW q \in Runs, Began(q, c)'
             PROVE  /\ \A i \in Places(c) : i >= run'[q].next => ~At(c, i)'
                    /\ \A s \in Runs \ {q} : ~Began(s, c)'
  BY DEF Sole
<1>1. c \in Collections
  BY SeedsAssumption
<1>2. CASE Added(r) /\ c = run[r].coll
  <2> DEFINE n == run[r].next
  <2>1. /\ n \in Places(c) /\ ~At(c, n) /\ run[r].pc = "insert"
        /\ run'[r].next = n + 1
    BY <1>2 DEF Added, Inserting, Places
  <2>2. /\ Places(c) \subseteq Nat \ {0}
        /\ n > 1 => 1 \in Places(c)
    BY <1>1, <2>1, SeedShape
  <2>3. ASSUME NEW s \in Runs \ {r} PROVE ~Began(s, c)
    <3> SUFFICES ASSUME Began(s, c) PROVE FALSE
      OBVIOUS
    <3>1. CASE n > 1
      <4>1. Began(r, c)
        BY <1>2, <2>1, <3>1 DEF Began
      <4>2. QED
        BY <4>1 DEF Sole
    <3>2. CASE n = 1
      <4>1. At(c, 1)
        BY <1>1, <2>1, <3>2 DEF Began, Behind
      <4>2. QED
        BY <2>1, <3>2, <4>1
    <3>3. QED
      BY <2>1, <2>2, <3>1, <3>2
  <2>4. q = r /\ \A s \in Runs \ {q} : ~Began(s, c)'
    BY <2>3, BeganAfter
  <2>5. ASSUME NEW i \in Places(c), i >= n + 1 PROVE ~At(c, i)'
    <3>1. i \in Nat /\ n \in Nat /\ n < i
      BY <2>1, <2>2, <2>5
    <3>2. ~At(c, i)
      BY <1>1, <2>1, <3>1 DEF PrefixClosed
    <3>3. QED
      BY <1>1, <1>2, <3>1, <3>2, AddedPlaces
  <2>6. QED
    BY <2>1, <2>4, <2>5
<1>3. CASE ~(Added(r) /\ c = run[r].coll)
  <2>1. q # r /\ Began(q, c) /\ run'[q].next = run[q].next
    BY <1>3, BeganAfter DEF Stepped, Same
  <2>2. \A s \in Runs \ {q} : ~Began(s, c)'
    BY <1>3, <2>1, BeganAfter DEF Sole
  <2>3. \A i \in Places(c) : At(c, i)' <=> At(c, i)
    BY <1>1, <1>3, PlacesKept, AddedPlaces
  <2>4. QED
    BY <2>1, <2>2, <2>3 DEF Sole
<1>4. QED
  BY <1>2, <1>3

-----------------------------------------------------------------------------
(* What was dealt with stays so *)

LEMMA DealtStays ==
  ASSUME TypeOK, TypeOK', Behind, Sole, NEW r \in Runs, Stepped(r),
         NEW c \in Collections, Dealt(c)
  PROVE  Dealt(c)'
<1>1. CASE \A i \in Places(c) : At(c, i)
  BY <1>1, PlacesKept DEF Dealt
<1>2. CASE c \in cut
  <2>1. c \in cut'
    BY <1>2 DEF Stepped, Entered, Skipped, Opened, Added, Refused, Closed, Died
  <2>2. QED
    BY <2>1 DEF Dealt
<1>3. ASSUME NEW q \in Runs, Began(q, c), run[q].next \in Places(c)
      PROVE  Dealt(c)'
  <2>1. CASE q # r
    <3>1. Began(q, c)' /\ run'[q].next \in Places(c)
      BY <1>3, <2>1 DEF Stepped, Same, Began
    <3>2. QED
      BY <3>1 DEF Dealt
  <2>2. CASE q = r
    <3>1. Inserting(r) /\ run[r].coll = c /\ run[r].next > 1
      BY <1>3, <2>2 DEF Began, Inserting, Places
    <3>2. Added(r) \/ Refused(r) \/ Died(r)
      BY <3>1 DEF Stepped, Entered, Skipped, Opened, Closed, Inserting
    <3>3. CASE Added(r)
      <4>1. Began(r, c)' /\ run'[r].next = run[r].next + 1
        BY <3>1, <3>3 DEF Added, Began, TypeOK
      <4>2. CASE run'[r].next \in Places(c)
        BY <4>1, <4>2 DEF Dealt
      <4>3. CASE run'[r].next \notin Places(c)
        <5>1. /\ Places(c) = 1 .. Len(Seeds[c]) /\ Len(Seeds[c]) \in Nat
              /\ run[r].next \in Places(c)
          BY <1>3, <2>2, SeedShape
        <5>2. \A i \in Places(c) : i < run'[r].next
          BY <4>1, <4>3, <5>1
        <5>3. Behind'
          BY BehindStays
        <5>4. run'[r].pc = "insert" /\ run'[r].coll = c
          BY <4>1 DEF Began
        <5>5. \A i \in Places(c) : At(c, i)'
          BY <5>2, <5>3, <5>4 DEF Behind, At
        <5>6. QED
          BY <5>5 DEF Dealt
      <4>4. QED
        BY <4>2, <4>3
    <3>4. CASE Refused(r)
      <4>1. c \in Unique /\ At(c, run[r].next)
        BY <3>1, <3>4 DEF Refused
      <4>2. ~At(c, run[r].next)
        BY <1>3, <2>2, <4>1, SeedShape DEF Sole
      <4>3. QED
        BY <4>1, <4>2
    <3>5. CASE Died(r)
      BY <3>1, <3>5 DEF Died, Dealt
    <3>6. QED
      BY <3>2, <3>3, <3>4, <3>5
  <2>3. QED
    BY <2>1, <2>2
<1>4. QED
  BY <1>1, <1>2, <1>3 DEF Dealt

LEMMA HeldStays ==
  ASSUME Inv, TypeOK', NEW r \in Runs, Stepped(r)
  PROVE  HeldIsDealt'
<1> USE DEF Inv
<1> SUFFICES ASSUME NEW c \in Collections, Held(c)', NEW e \in Collections,
                    e <= c
             PROVE  Dealt(e)'
  BY DEF HeldIsDealt
<1>1. CASE Held(c)
  BY <1>1, DealtStays DEF HeldIsDealt
<1>2. CASE ~Held(c)
  <2>1. Added(r) /\ c = run[r].coll /\ run[r].pc = "insert"
    BY <1>2, PlacesKept, AddedPlaces DEF Held, Added, Inserting
  <2>2. CASE e < c
    <3>1. Dealt(e)
      BY <2>1, <2>2 DEF PassedIsDealt
    <3>2. QED
      BY <3>1, DealtStays
  <2>3. CASE e = c
    <3>1. /\ Places(c) = 1 .. Len(Seeds[c]) /\ Len(Seeds[c]) \in Nat \ {0}
          /\ run[r].next \in Places(c)
      BY <2>1, SeedShape, AddedPlaces
    <3>2. run[r].next = 1
      <4>1. 1 \in Places(c) /\ ~At(c, 1)
        BY <1>2, <3>1 DEF Held
      <4>2. ~(1 < run[r].next)
        BY <2>1, <4>1 DEF Behind
      <4>3. QED
        BY <3>1, <4>2
    <3>3. Began(r, c)' /\ run'[r].next = 2
      BY <2>1, <3>2 DEF Added, Began
    <3>4. ASSUME 2 \in Places(c) PROVE Dealt(c)'
      <4>1. \E q \in Runs : Began(q, c)' /\ run'[q].next \in Places(c)
        BY <3>3, <3>4
      <4>2. QED
        BY <4>1 DEF Dealt
    <3>5. ASSUME 2 \notin Places(c) PROVE Dealt(c)'
      <4>1. \A i \in Places(c) : i = 1
        BY <3>1, <3>5
      <4>2. \A i \in Places(c) : At(c, i)'
        BY <2>1, <3>2, <4>1, AddedPlaces
      <4>3. QED
        BY <4>2 DEF Dealt
    <3>6. QED
      BY <2>3, <3>4, <3>5
  <2>4. c \in Nat /\ e \in Nat
    BY SeedShape
  <2>5. QED
    BY <2>2, <2>3, <2>4
<1>3. QED
  BY <1>1, <1>2

LEMMA PassedStays ==
  ASSUME Inv, TypeOK', NEW r \in Runs, Stepped(r)
  PROVE  PassedIsDealt'
<1> USE DEF Inv
<1> SUFFICES ASSUME NEW q \in Runs, run'[q].pc # "new", NEW c \in Collections,
                    c < run'[q].coll \/ run'[q].pc = "done"
             PROVE  Dealt(c)
  BY DealtStays DEF PassedIsDealt
<1>1. CASE q # r
  BY <1>1 DEF Stepped, Same, PassedIsDealt
<1>2. CASE q = r
  <2>1. /\ run[r].coll \in Collections /\ Last \in Nat
        /\ Collections = 1 .. Last /\ c \in 1 .. Last
    BY SeedShape DEF TypeOK
  <2>2. CASE Entered(r)
    BY <1>2, <2>1, <2>2 DEF Entered
  <2>3. CASE Skipped(r)
    <3>1. Dealt(run[r].coll)
      BY <2>1, <2>3 DEF HeldIsDealt, Skipped
    <3>2. c < run[r].coll \/ c = run[r].coll
      BY <1>2, <2>1, <2>3 DEF Skipped, Advanced
    <3>3. QED
      BY <2>3, <3>1, <3>2 DEF PassedIsDealt, Skipped
  <2>4. CASE Closed(r)
    <3>1. /\ Places(run[r].coll) = 1 .. Len(Seeds[run[r].coll])
          /\ Len(Seeds[run[r].coll]) \in Nat
      BY <2>1, SeedShape
    <3>2. run[r].pc = "insert" /\ run[r].next \notin Places(run[r].coll)
      BY <2>4 DEF Closed, Inserting, Places
    <3>3. \A i \in Places(run[r].coll) : i < run[r].next
      BY <3>1, <3>2 DEF TypeOK
    <3>4. Dealt(run[r].coll)
      BY <2>1, <3>2, <3>3 DEF Behind, Dealt
    <3>5. c < run[r].coll \/ c = run[r].coll
      BY <1>2, <2>1, <2>4 DEF Closed, Advanced
    <3>6. QED
      BY <3>2, <3>4, <3>5 DEF PassedIsDealt
  <2>5. CASE Opened(r) \/ Added(r) \/ Refused(r) \/ Died(r)
    <3>1. /\ run[r].pc \in Active /\ run'[r].coll = run[r].coll
          /\ run'[r].pc # "done"
      BY <2>5 DEF Opened, Added, Refused, Died, Inserting, Active
    <3>2. QED
      BY <1>2, <3>1 DEF PassedIsDealt, Active
  <2>6. QED
    BY <2>2, <2>3, <2>4, <2>5 DEF Stepped
<1>3. QED
  BY <1>1, <1>2

LEMMA InitInv == Init => Inv
<1> SUFFICES ASSUME Init PROVE Inv
  OBVIOUS
<1>1. \A c \in Collections : \A i \in Places(c) : ~At(c, i)
  BY KeysAndPlaces DEF Init, At
<1>2. \A r \in Runs : run[r].pc = "new"
  BY DEF Init, NotStarted
<1>3. QED
  BY <1>1, <1>2, InitTypes DEF Inv, PrefixClosed, Behind, Sole, Began,
     HeldIsDealt, Held, PassedIsDealt

LEMMA InvSteps ==
  ASSUME Inv, [Next]_vars
  PROVE  Inv'
<1>1. CASE \E r \in Runs : Start(r) \/ Count(r) \/ InsertOne(r)
                           \/ Inserted(r) \/ Die(r)
  <2>1. PICK r \in Runs : Start(r) \/ Count(r) \/ InsertOne(r)
                          \/ Inserted(r) \/ Die(r)
    BY <1>1
  <2>2. TypeOK' /\ Stepped(r)
    BY <2>1, StepOfARun DEF Inv
  <2>3. PrefixClosed' /\ Behind' /\ Sole'
    BY <2>2, PrefixStays, BehindStays, SoleStays DEF Inv
  <2>4. HeldIsDealt' /\ PassedIsDealt'
    BY <2>2, HeldStays, PassedStays
  <2>5. QED
    BY <2>2, <2>3, <2>4 DEF Inv
<1>2. CASE UNCHANGED vars
  BY <1>2, Stutters DEF Inv, TypeOK, PrefixClosed, Behind, Sole, HeldIsDealt,
     PassedIsDealt, Held, Dealt, At, Began
<1>3. QED
  BY <1>1, <1>2 DEF Next, Finished

\* Each part of the invariant is kept by every step of every run.
THEOREM Invariance == Spec => []Inv
<1>1. Inv /\ [Next]_vars => Inv'
  BY InvSteps
<1>2. QED
  BY <1>1, InitInv, PTL DEF Spec

-----------------------------------------------------------------------------
(* The first three properties *)

LEMMA ElementIn ==
  ASSUME NEW S, NEW s \in Seq(S), NEW i \in 1 .. Len(s)
  PROVE  s[i] \in S
OBVIOUS

LEMMA DealtMeans ==
  ASSUME TypeOK, NEW c \in Collections, Dealt(c)
  PROVE  Complete(c) \/ c \in cut \/ Filling(c) # {}
BY HeldAndEmpty DEF Dealt, Filling, Began, Inserting, Places

\* A stored document misses what it names only where a run is still inserting
\* that, or died while it did.
THEOREM References == Spec => []DanglingExplained
<1>1. Inv => DanglingExplained
  <2> SUFFICES ASSUME Inv, NEW c \in Collections, NEW d \in Documents(c),
                      Stored(d.key), NEW k \in d.refs
               PROVE  Stored(k) \/ Home[k] \in cut \/ Filling(Home[k]) # {}
    BY DEF DanglingExplained
  <2>1. PICK i \in Places(c) : d = Seeds[c][i]
    BY DEF Documents, Places
  <2>2. At(c, i) /\ Held(c)
    BY <2>1 DEF At, Held, Stored, KeyAt
  <2>3. k \in Keys
    <3>1. /\ Seeds \in Seq(Seq([key : Keys, refs : SUBSET Keys]))
          /\ c \in 1 .. Len(Seeds) /\ i \in 1 .. Len(Seeds[c])
      BY <2>1, SeedsAssumption, SeedShape DEF Last
    <3>2. Seeds[c] \in Seq([key : Keys, refs : SUBSET Keys])
      BY <3>1
    <3>3. Seeds[c][i] \in [key : Keys, refs : SUBSET Keys]
      BY <3>1, <3>2, ElementIn
    <3>4. QED
      BY <2>1, <3>3
  <2>4. PICK e \in Collections : \E j \in Places(e) : k = KeyAt(e, j)
    BY <2>3, KeysAndPlaces
  <2>5. PICK j \in Places(e) : k = KeyAt(e, j)
    BY <2>4
  <2>6. Home[k] = e /\ (Stored(k) <=> At(e, j))
    BY <2>5, HomeOfKey DEF Stored, At
  <2>7. e < c \/ (e = c /\ j < i)
    BY <2>1, <2>5, SeedsAssumption DEF KeyAt, Places
  <2>8. CASE e < c
    <3>1. Dealt(e)
      BY <2>2, <2>8, SeedShape DEF Inv, HeldIsDealt
    <3>2. (\A l \in Places(e) : At(e, l)) \/ e \in cut \/ Filling(e) # {}
      BY <3>1, DealtMeans, HeldAndEmpty DEF Inv
    <3>3. QED
      BY <2>6, <3>2
  <2>9. CASE e = c /\ j < i
    BY <2>2, <2>6, <2>9 DEF Inv, PrefixClosed
  <2>10. QED
    BY <2>7, <2>8, <2>9
<1>2. QED
  BY <1>1, Invariance, PTL

\* A run that ended well left nothing undone that another one did not begin.
THEOREM Completion == Spec => []DoneMeansComplete
<1>1. Inv => DoneMeansComplete
  <2> SUFFICES ASSUME Inv, NEW r \in Runs, run[r].pc = "done",
                      NEW c \in Collections
               PROVE  Complete(c) \/ c \in cut \/ Filling(c) # {}
    BY DEF DoneMeansComplete
  <2>1. Dealt(c)
    BY DEF Inv, PassedIsDealt
  <2>2. QED
    BY <2>1, DealtMeans DEF Inv
<1>2. QED
  BY <1>1, Invariance, PTL

\* Whoever is refused a document that is there leaves somebody further on.
LEMMA FrontSteps ==
  ASSUME Inv, Front, RefusedByHeld, NEW r \in Runs, Stepped(r), TypeOK'
  PROVE  Front' /\ RefusedByHeld'
<1> USE DEF Inv
<1>1. \A c \in Collections : Held(c) => Held(c)'
  BY PlacesKept DEF Held
<1>2. RefusedByHeld'
  <2> SUFFICES ASSUME NEW q \in Runs, NEW c \in Collections,
                      run'[q].pc = "duplicate", run'[q].coll = c
               PROVE  Held(c)'
    BY DEF RefusedByHeld
  <2>1. CASE q # r
    <3>1. run'[q].coll = run[q].coll /\ run[q].pc = "duplicate"
      BY <2>1 DEF Stepped, Same
    <3>2. QED
      BY <1>1, <3>1 DEF RefusedByHeld
  <2>2. CASE q = r
    <3>1. Refused(r)
      BY <2>2 DEF Stepped, Entered, Skipped, Opened, Added, Closed, Died,
         Advanced
    <3>2. Held(c)
      BY <2>2, <3>1 DEF Refused, Held, Inserting, Places
    <3>3. QED
      BY <1>1, <3>2
  <2>3. QED
    BY <2>1, <2>2
<1>3. ASSUME \A q \in Runs : run'[q].pc # "dead", NEW c \in Collections,
             Held(c)'
      PROVE  \E s \in Runs : Beyond(s, c)'
  <2>1. ~Died(r) /\ \A q \in Runs : run[q].pc # "dead"
    <3>1. ~Died(r)
      BY <1>3 DEF Died
    <3>2. run[r].pc # "dead"
      BY <3>1 DEF Stepped, Entered, Skipped, Opened, Added, Refused, Closed,
         Inserting
    <3>3. \A q \in Runs \ {r} : run[q].pc # "dead"
      BY <1>3 DEF Stepped, Same
    <3>4. QED
      BY <3>1, <3>2, <3>3
  <2>2. \A s \in Runs \ {r} : Beyond(s, c) => Beyond(s, c)'
    BY DEF Stepped, Same, Beyond, Began
  <2>3. \A e \in Collections : Held(e) => \E s \in Runs : Beyond(s, e)
    BY <2>1 DEF Front
  <2>4. /\ run[r].coll \in Nat /\ run[r].next \in Nat \ {0} /\ c \in Nat
        /\ run[r].coll \in Collections
    BY SeedShape DEF TypeOK
  <2>5. CASE ~Held(c)
    <3>1. Added(r) /\ c = run[r].coll
      BY <1>3, <2>5, PlacesKept, AddedPlaces DEF Held
    <3>2. Began(r, c)'
      BY <2>4, <3>1 DEF Added, Began
    <3>3. QED
      BY <3>2 DEF Beyond
  <2>6. CASE Held(c) /\ Refused(r)
    <3> DEFINE e == run[r].coll
    <3>1. /\ e \in Unique /\ At(e, run[r].next) /\ Held(e)
          /\ run[r].next \in Places(e) /\ run[r].pc = "insert"
      BY <2>6 DEF Refused, Held, Inserting, Places
    <3>2. ~Began(r, e)
      BY <2>4, <3>1 DEF Sole
    <3>3. PICK s \in Runs : Beyond(s, e)
      BY <2>3, <2>4, <3>1
    <3>4. s # r
      BY <2>4, <3>1, <3>2, <3>3 DEF Beyond
    <3>5. CASE c <= e
      <4>1. Beyond(s, c)
        BY <2>4, <3>3, <3>5, SeedShape DEF Beyond, Began, Active, TypeOK
      <4>2. QED
        BY <2>2, <3>4, <4>1
    <3>6. CASE c > e
      <4>1. PICK t \in Runs : Beyond(t, c)
        BY <2>3, <2>6
      <4>2. t # r
        BY <2>4, <3>1, <3>6, <4>1 DEF Beyond, Began
      <4>3. QED
        BY <2>2, <4>1, <4>2
    <3>7. QED
      BY <2>4, <3>5, <3>6
  <2>7. CASE Held(c) /\ ~Refused(r)
    <3>1. PICK s \in Runs : Beyond(s, c)
      BY <2>3, <2>7
    <3>2. CASE s # r
      BY <2>2, <3>1, <3>2
    <3>3. CASE s = r
      <4>1. \/ run[r].pc \in Active /\ run[r].coll > c
            \/ Began(r, c)
        BY <2>1, <2>7, <3>1, <3>3 DEF Beyond, Stepped, Entered, Skipped,
           Opened, Added, Closed, Inserting
      <4>2. CASE Skipped(r) \/ Closed(r)
        <5>1. run[r].coll >= c
          BY <2>4, <4>1 DEF Began
        <5>2. \/ run'[r].pc = "done"
              \/ run'[r].pc = "count" /\ run'[r].coll > c
          BY <2>4, <4>2, <5>1 DEF Skipped, Closed, Advanced
        <5>3. QED
          BY <5>2 DEF Beyond, Active
      <4>3. CASE Opened(r)
        <5>1. /\ run'[r].pc = "insert" /\ run'[r].coll = run[r].coll
              /\ run[r].pc = "count"
          BY <4>3 DEF Opened
        <5>2. run[r].coll > c
          BY <4>1, <5>1 DEF Began
        <5>3. QED
          BY <5>1, <5>2 DEF Beyond, Active
      <4>4. CASE Added(r)
        <5>1. /\ run'[r].pc = "insert" /\ run'[r].coll = run[r].coll
              /\ run'[r].next = run[r].next + 1
          BY <4>4 DEF Added
        <5>2. Began(r, c) => Began(r, c)'
          BY <2>4, <5>1 DEF Began
        <5>3. QED
          BY <4>1, <5>1, <5>2 DEF Beyond, Active
      <4>5. ~Entered(r)
        BY <4>1 DEF Entered, Began, Active
      <4>6. QED
        BY <2>1, <2>7, <4>2, <4>3, <4>4, <4>5 DEF Stepped
    <3>4. QED
      BY <3>2, <3>3
  <2>8. QED
    BY <2>5, <2>6, <2>7
<1>4. QED
  BY <1>2, <1>3 DEF Front

\* Of runs that no fault ends, one completes.
THEOREM Survival == Spec => []SomebodySurvives
<1>1. Init => Front /\ RefusedByHeld
  <2> SUFFICES ASSUME Init PROVE Front /\ RefusedByHeld
    OBVIOUS
  <2>1. \A c \in Collections : ~Held(c)
    BY KeysAndPlaces DEF Init, At, Held
  <2>2. \A r \in Runs : run[r].pc = "new"
    BY DEF Init, NotStarted
  <2>3. QED
    BY <2>1, <2>2 DEF Front, RefusedByHeld
<1>2. Inv /\ Front /\ RefusedByHeld /\ [Next]_vars => (Front /\ RefusedByHeld)'
  <2> SUFFICES ASSUME Inv, Front, RefusedByHeld, [Next]_vars
               PROVE  (Front /\ RefusedByHeld)'
    OBVIOUS
  <2>1. ASSUME NEW r \in Runs, Start(r) \/ Count(r) \/ InsertOne(r)
                               \/ Inserted(r) \/ Die(r)
        PROVE  (Front /\ RefusedByHeld)'
    BY <2>1, StepOfARun, FrontSteps DEF Inv
  <2>2. CASE UNCHANGED vars
    BY <2>2, Stutters DEF Front, RefusedByHeld, Held, At, Beyond, Began
  <2>3. QED
    BY <2>1, <2>2 DEF Next, Finished
<1>3. Inv /\ Front /\ RefusedByHeld => SomebodySurvives
  <2> SUFFICES ASSUME Inv, Front, RefusedByHeld, Started # {}, Running = {},
                      \A r \in Runs : run[r].pc # "dead"
               PROVE  \E r \in Runs : run[r].pc = "done"
    BY DEF SomebodySurvives
  <2>1. PICK r \in Runs : run[r].pc # "new"
    BY DEF Started
  <2>2. run[r].pc \in {"done", "duplicate"}
    BY <2>1 DEF Inv, TypeOK, Running
  <2>3. CASE run[r].pc = "duplicate"
    <3>1. Held(run[r].coll) /\ run[r].coll \in Collections
      BY <2>3 DEF RefusedByHeld, Inv, TypeOK
    <3>2. PICK s \in Runs : Beyond(s, run[r].coll)
      BY <3>1 DEF Front
    <3>3. QED
      BY <3>2 DEF Beyond, Began, Running, Active
  <2>4. QED
    BY <2>2, <2>3
<1>4. QED
  BY <1>1, <1>2, <1>3, Invariance, PTL DEF Spec

-----------------------------------------------------------------------------
(* Doubles *)

\* What disturbs a run stays known, and who starts beside others disturbs them.
LEMMA Remembered ==
  ASSUME TypeOK, Fresh, NEW r \in Runs,
         Start(r) \/ Count(r) \/ InsertOne(r) \/ Inserted(r) \/ Die(r)
  PROVE  /\ Fresh'
         /\ Undisturbed' =>
              /\ Undisturbed
              /\ Start(r) => Running = {}
<1>1. CASE Start(r)
  <2>1. /\ run[r].pc = "new"
        /\ run'[r] = [pc |-> "count", coll |-> 1, next |-> 1,
                      alone |-> Running = {}, blind |-> FALSE]
        /\ \A q \in Runs \ {r} :
             run'[q] = IF q \in Running THEN [run[q] EXCEPT !.alone = FALSE]
                                        ELSE run[q]
    BY <1>1 DEF Start
  <2>2. run'[r].pc = "count" /\ (run'[r].alone <=> Running = {})
    <3>1. run'[r].pc = "count"
      BY <2>1
    <3>2. CASE Running = {}
      <4>1. run'[r] = [pc |-> "count", coll |-> 1, next |-> 1,
                       alone |-> TRUE, blind |-> FALSE]
        BY <2>1, <3>2
      <4>2. QED
        BY <3>1, <3>2, <4>1
    <3>3. CASE Running # {}
      <4>1. run'[r] = [pc |-> "count", coll |-> 1, next |-> 1,
                       alone |-> FALSE, blind |-> FALSE]
        BY <2>1, <3>3
      <4>2. QED
        BY <3>1, <3>3, <4>1
    <3>4. QED
      BY <3>2, <3>3
  <2>3. ASSUME NEW q \in Runs \ {r}
        PROVE  /\ run'[q].pc = run[q].pc /\ run'[q].blind = run[q].blind
               /\ q \notin Running => run'[q] = run[q]
               /\ run'[q].alone => run[q].alone
    <3>1. run[q] \in [pc : {"new", "done", "dead", "duplicate"} \cup Active,
                      coll : Collections, next : Nat \ {0},
                      alone : BOOLEAN, blind : BOOLEAN]
      BY DEF TypeOK
    <3>2. QED
      BY <2>1, <3>1
  <2>4. Fresh'
    BY <2>2, <2>3 DEF Fresh, Running, Active
  <2>5. QED
    BY <2>1, <2>2, <2>3, <2>4 DEF Fresh, Undisturbed
<1>2. CASE Count(r) \/ InsertOne(r) \/ Inserted(r) \/ Die(r)
  <2>1. run[r].pc \in Active
    BY <1>2 DEF Count, InsertOne, Inserted, Die, Inserting, Active
  <2>2. /\ \A q \in Runs \ {r} : run'[q] = run[q]
        /\ run'[r].alone = run[r].alone
        /\ run'[r].blind = run[r].blind \/ run'[r].blind = TRUE
        /\ run'[r].pc # "new"
    <3>1. CASE Advance(r)
      <4> DEFINE Place(pc, c, i) ==
                   [pc |-> pc, coll |-> c, next |-> i,
                    alone |-> run[r].alone, blind |-> run[r].blind]
      <4>1. run' = [run EXCEPT ![r] = IF run[r].coll = Len(Seeds)
                                      THEN Place("done", run[r].coll, run[r].next)
                                      ELSE Place("count", run[r].coll + 1, 1)]
        BY <3>1 DEF Advance
      <4>2. QED
        BY <4>1 DEF TypeOK
    <3>2. CASE \/ run' = [run EXCEPT ![r].pc = "insert"]
               \/ run' = [run EXCEPT ![r].pc = "insert", ![r].blind = TRUE]
      BY <3>2 DEF TypeOK
    <3>3. CASE \/ run' = [run EXCEPT ![r].pc = "duplicate"]
               \/ run' = [run EXCEPT ![r].pc = "dead"]
      BY <3>3 DEF TypeOK
    <3>4. CASE run[r].pc = "insert" /\ run' = [run EXCEPT ![r].next = @ + 1]
      BY <3>4 DEF TypeOK
    <3>5. QED
      BY <1>2, <3>1, <3>2, <3>3, <3>4
         DEF Count, InsertOne, Inserted, Die, Inserting
  <2>3. \A q \in Runs : /\ run'[q].alone => run[q].alone
                        /\ run[q].blind => run'[q].blind
    BY <2>2
  <2>4. QED
    BY <2>1, <2>2, <2>3 DEF Fresh, Undisturbed, Start, Active
<1>3. QED
  BY <1>1, <1>2

LEMMA SingleSteps ==
  ASSUME TypeOK, TypeOK', SingleWhereUnique, NEW r \in Runs, Stepped(r)
  PROVE  SingleWhereUnique'
<1>1. \A c \in Unique : c \in Collections
  BY SeedsAssumption
<1>2. \A c \in Collections : \A i \in Places(c) : copies[KeyAt(c, i)] \in Nat
  BY KeysAndPlaces DEF TypeOK
<1>3. CASE Added(r)
  <2>1. run[r].coll \in Unique => copies[KeyAt(run[r].coll, run[r].next)] = 0
    <3>1. copies[KeyAt(run[r].coll, run[r].next)] \in Nat
      BY <1>2, <1>3, AddedPlaces
    <3>2. QED
      BY <1>3, <3>1 DEF Added, At
  <2>2. QED
    BY <1>1, <1>2, <1>3, <2>1, AddedPlaces DEF SingleWhereUnique
<1>4. CASE ~Added(r)
  <2>1. copies' = copies
    BY <1>4 DEF Stepped, Entered, Skipped, Opened, Refused, Closed, Died
  <2>2. QED
    BY <2>1 DEF SingleWhereUnique
<1>5. QED
  BY <1>3, <1>4

LEMMA UndisturbedSteps ==
  ASSUME Inv, TypeOK', Fresh, SingleUnlessDisturbed, NEW r \in Runs,
         Start(r) \/ Count(r) \/ InsertOne(r) \/ Inserted(r) \/ Die(r)
  PROVE  SingleUnlessDisturbed'
<1> USE DEF Inv
<1> SUFFICES ASSUME Undisturbed'
             PROVE
    /\ \A c \in Collections : \A i \in Places(c) : copies'[KeyAt(c, i)] <= 1
    /\ \A q \in Running', c \in Collections :
         run'[q].pc = "insert" /\ run'[q].coll = c =>
           \A i \in Places(c) : i >= run'[q].next => ~At(c, i)'
    /\ \A s, q \in Running' : s = q
  BY DEF SingleUnlessDisturbed
<1>1. Stepped(r)
  BY StepOfARun
<1>2. Undisturbed /\ (Start(r) => Running = {})
  BY Remembered
<1>3. \A c \in Collections : \A i \in Places(c) : copies[KeyAt(c, i)] \in Nat
  BY KeysAndPlaces DEF TypeOK
<1>4. CASE Start(r)
  <2>1. copies' = copies /\ run'[r].pc = "count"
    BY <1>4 DEF Start
  <2>2. \A q \in Runs \ {r} : run'[q].pc = run[q].pc
    BY <1>1 DEF Stepped, Same
  <2>3. Running' \subseteq {r}
    BY <1>2, <1>4, <2>2 DEF Running
  <2>4. QED
    BY <1>2, <2>1, <2>3 DEF SingleUnlessDisturbed
<1>5. CASE ~Start(r)
  <2>1. run[r].pc \in Active /\ r \in Running
    BY <1>5 DEF Count, InsertOne, Inserted, Die, Inserting, Active, Running
  <2>2. Running' \subseteq {r}
    BY <1>1, <1>2, <2>1 DEF Stepped, Same, Running, SingleUnlessDisturbed
  <2>3. CASE Added(r)
    <3> DEFINE a == run[r].coll
               n == run[r].next
    <3>1. /\ a \in Collections /\ n \in Places(a) /\ n \in Nat
          /\ run[r].pc = "insert" /\ run'[r].coll = a /\ run'[r].next = n + 1
      BY <2>3, AddedPlaces DEF Added, Inserting, TypeOK
    <3>2. ~At(a, n)
      BY <1>2, <2>1, <3>1 DEF SingleUnlessDisturbed
    <3>3. copies[KeyAt(a, n)] = 0
      BY <1>3, <3>1, <3>2 DEF At
    <3>4. \A c \in Collections : \A i \in Places(c) : copies'[KeyAt(c, i)] <= 1
      BY <1>2, <1>3, <2>3, <3>3, AddedPlaces DEF SingleUnlessDisturbed
    <3>5. ASSUME NEW i \in Places(a), i >= n + 1 PROVE ~At(a, i)'
      <4>1. i \in Nat /\ i >= n /\ i # n
        BY <3>1, <3>5, SeedShape
      <4>2. ~At(a, i)
        BY <1>2, <2>1, <3>1, <4>1 DEF SingleUnlessDisturbed
      <4>3. QED
        BY <2>3, <3>1, <4>1, <4>2, AddedPlaces
    <3>6. QED
      BY <2>2, <3>1, <3>4, <3>5
  <2>4. CASE ~Added(r)
    <3>1. copies' = copies
      BY <1>1, <2>4 DEF Stepped, Entered, Skipped, Opened, Refused, Closed,
         Died
    <3>2. run'[r].pc = "insert" => Opened(r)
      BY <1>1, <2>4, RunAfter
    <3>3. Opened(r) => /\ ~Held(run[r].coll)
                       /\ run'[r].coll = run[r].coll
      BY DEF Opened, Undisturbed
    <3>4. Opened(r) => \A c \in Collections : run'[r].coll = c =>
                         \A i \in Places(c) : ~At(c, i)
      BY <3>3 DEF Held
    <3>5. \A c \in Collections : \A i \in Places(c) : At(c, i)' <=> At(c, i)
      BY <3>1 DEF At
    <3>6. QED
      BY <1>2, <2>2, <3>1, <3>2, <3>4, <3>5 DEF SingleUnlessDisturbed
  <2>5. QED
    BY <2>3, <2>4
<1>6. QED
  BY <1>4, <1>5

\* Only two runs at once, or an error of the count, double a document, and only
\* where no unique index refuses it.
THEOREM NoDoubles == Spec => []DoubledOnlyInARace
<1>1. Init => Orderly
  <2> SUFFICES ASSUME Init PROVE Orderly
    OBVIOUS
  <2>1. \A c \in Collections : \A i \in Places(c) : copies[KeyAt(c, i)] = 0
    BY KeysAndPlaces DEF Init
  <2>2. Running = {} /\ \A r \in Runs : run[r].alone /\ ~run[r].blind
    BY DEF Init, NotStarted, Running, Active
  <2>3. QED
    BY <2>1, <2>2, SeedsAssumption
       DEF Orderly, Fresh, SingleWhereUnique, SingleUnlessDisturbed
<1>2. Inv /\ Orderly /\ [Next]_vars => Orderly'
  <2> SUFFICES ASSUME Inv, Orderly, [Next]_vars PROVE Orderly'
    OBVIOUS
  <2>1. ASSUME NEW r \in Runs, Start(r) \/ Count(r) \/ InsertOne(r)
                               \/ Inserted(r) \/ Die(r)
        PROVE  Orderly'
    BY <2>1, StepOfARun, Remembered, SingleSteps, UndisturbedSteps
       DEF Inv, Orderly
  <2>2. CASE UNCHANGED vars
    BY <2>2, Stutters DEF Orderly, Fresh, SingleWhereUnique,
       SingleUnlessDisturbed, Undisturbed, Running, At
  <2>3. QED
    BY <2>1, <2>2 DEF Next, Finished
<1>3. Inv /\ Orderly => DoubledOnlyInARace
  <2> SUFFICES ASSUME Inv, Orderly, NEW k \in Keys, copies[k] > 1
               PROVE  /\ Home[k] \notin Unique
                      /\ \E r \in Runs : run[r].blind \/ ~run[r].alone
    BY DEF DoubledOnlyInARace
  <2>1. PICK c \in Collections : \E i \in Places(c) : k = KeyAt(c, i)
    BY KeysAndPlaces
  <2>2. PICK i \in Places(c) : k = KeyAt(c, i)
    BY <2>1
  <2>3. Home[k] = c /\ ~(copies[KeyAt(c, i)] <= 1)
    BY <2>2, HomeOfKey DEF Inv, TypeOK
  <2>4. QED
    BY <2>3 DEF Orderly, SingleWhereUnique, SingleUnlessDisturbed, Undisturbed
<1>4. QED
  BY <1>1, <1>2, <1>3, Invariance, PTL DEF Spec
=============================================================================
