------------------------------ MODULE Accounts ------------------------------
(***************************************************************************)
(* identity_users: accounts made by POST /api/register, which counts the   *)
(* accounts of a name and then inserts, and by the seeder, which upserts   *)
(* the default users one by one and gives those that exist their role      *)
(* back.  Both go on at the same time; the unique indexes on username and  *)
(* email have the last word.  A failing call may have been applied.        *)
(*                                                                         *)
(* Operators named after a fault stand beside the one they falsify; no     *)
(* action uses them.                                                       *)
(***************************************************************************)
EXTENDS Naturals, Sequences, FiniteSets

CONSTANTS
  Registrations,  \* requests to register, each served by a goroutine
  Runs,           \* runs of the seeder
  Names, Emails,  \* what a registration may ask for
  Defaults        \* defaultUsers of the seeder: name, email and role

Guest == "guest"   \* defaultRole of Register

ASSUME DefaultsAssumption ==
  /\ Defaults \in Seq([name : STRING, email : STRING, role : STRING])
  /\ \A i, j \in DOMAIN Defaults :
       Defaults[i].name = Defaults[j].name
         \/ Defaults[i].email = Defaults[j].email => i = j
  /\ \A i \in DOMAIN Defaults : Defaults[i].role # Guest
  /\ Registrations \cap Runs = {}

VARIABLES
  accounts,  \* identity_users; owner: the request or run whose password it has
  reg,       \* the state of each registration
  seed       \* the state of each run of SeedUsers

AccountsVars == <<accounts, reg, seed>>

-----------------------------------------------------------------------------
Named(name) == {a \in accounts : a.name = name}

\* The unique indexes: no other account has this name or this email.
OnlyCounted(name, email) == TRUE
IndexAllows(name, email) ==
  \A a \in accounts : a.name # name /\ a.email # email

Account(name, email, role, owner) ==
  [name |-> name, email |-> email, role |-> role, owner |-> owner]

NoRegistration == [pc |-> "new", name |-> "none", email |-> "none"]

Reply(x, what) == reg' = [reg EXCEPT ![x].pc = what]

InFlight == {"count", "insert"}

\* Where a run is, and whether it has missed a user.
Where(pc, next, missed) == [pc |-> pc, next |-> next, missed |-> missed]

-----------------------------------------------------------------------------
AccountsInit ==
  /\ accounts = {}
  /\ reg = [x \in Registrations |-> NoRegistration]
  /\ seed = [r \in Runs |-> Where("new", 1, FALSE)]

(* POST /api/register *)

\* The body decodes, no field is missing, and the password is hashed.
Register(x, name, email) ==
  /\ reg[x].pc = "new"
  /\ reg' = [reg EXCEPT ![x] = [pc |-> "count", name |-> name, email |-> email]]
  /\ UNCHANGED <<accounts, seed>>

\* Or not: 400, or 500 for the hash.
RefuseRequest(x) ==
  /\ reg[x].pc = "new"
  /\ Reply(x, "refused")
  /\ UNCHANGED <<accounts, seed>>

\* Create: CountDocuments, whose error is answered with 409 like a name in use.
CountName(x) ==
  /\ reg[x].pc = "count"
  /\ \/ Named(reg[x].name) = {} /\ Reply(x, "insert")
     \/ Reply(x, "conflict")
  /\ UNCHANGED <<accounts, seed>>

\* Create: InsertOne.
Insert(x) ==
  /\ reg[x].pc = "insert"
  /\ \/ /\ IndexAllows(reg[x].name, reg[x].email)
        /\ accounts' = accounts \cup
             {Account(reg[x].name, reg[x].email, Guest, x)}
        /\ Reply(x, "created") \/ Reply(x, "conflict")
     \/ Reply(x, "conflict") /\ UNCHANGED accounts
  /\ UNCHANGED seed

\* The identity service stops while requests are under way.
Crash ==
  /\ \E x \in Registrations : reg[x].pc \in InFlight
  /\ reg' = [x \in Registrations |->
       IF reg[x].pc \in InFlight THEN [reg[x] EXCEPT !.pc = "lost"] ELSE reg[x]]
  /\ UNCHANGED <<accounts, seed>>

-----------------------------------------------------------------------------
(* The seeder *)

\* The index exists already, and an error of its creation is only logged; the
\* run ends if the default password cannot be hashed.
StartSeeding(r) ==
  /\ seed[r].pc = "new"
  /\ \/ seed' = [seed EXCEPT ![r] = Where("upsert", @.next, @.missed)]
     \/ seed' = [seed EXCEPT ![r] = Where("ended", @.next, TRUE)]
  /\ UNCHANGED <<accounts, reg>>

\* What the upsert leaves: an account of that name gets the role and keeps the
\* rest ($setOnInsert); otherwise there is a new one, if the index on the email
\* allows it.
RoleOnInsert(d, r) ==
  IF Named(d.name) # {} THEN accounts
  ELSE IF IndexAllows(d.name, d.email)
       THEN accounts \cup {Account(d.name, d.email, d.role, r)}
       ELSE accounts

Replaced(d, r) ==
  IF IndexAllows(d.name, d.email) \/ Named(d.name) # {}
  THEN (accounts \ Named(d.name)) \cup {Account(d.name, d.email, d.role, r)}
  ELSE accounts

Upserted(d, r) ==
  IF Named(d.name) # {}
  THEN (accounts \ Named(d.name)) \cup
         {[a EXCEPT !.role = d.role] : a \in Named(d.name)}
  ELSE IF IndexAllows(d.name, d.email)
       THEN accounts \cup {Account(d.name, d.email, d.role, r)}
       ELSE accounts

\* UpdateOne with upsert; its error is logged and the loop continues.
SeedUser(r) ==
  /\ seed[r].pc = "upsert" /\ seed[r].next <= Len(Defaults)
  /\ \E failed \in BOOLEAN :
       /\ \/ accounts' = Upserted(Defaults[seed[r].next], r)
          \/ failed /\ UNCHANGED accounts
       /\ seed' = [seed EXCEPT ![r] = Where("upsert", @.next + 1, @.missed \/ failed)]
  /\ UNCHANGED reg

FinishSeeding(r) ==
  /\ seed[r].pc = "upsert" /\ seed[r].next > Len(Defaults)
  /\ seed' = [seed EXCEPT ![r] = Where("ended", @.next, @.missed)]
  /\ UNCHANGED <<accounts, reg>>

Killed(r) ==
  /\ seed[r].pc = "upsert"
  /\ seed' = [seed EXCEPT ![r] = Where("ended", @.next, TRUE)]
  /\ UNCHANGED <<accounts, reg>>

Finished ==
  /\ \A x \in Registrations : reg[x].pc \notin InFlight \cup {"new"}
  /\ \A r \in Runs : seed[r].pc = "ended"
  /\ UNCHANGED AccountsVars

Serve(x) == CountName(x) \/ Insert(x)
Seed(r) == SeedUser(r) \/ FinishSeeding(r)

AccountsNext ==
  \/ \E x \in Registrations, n \in Names, e \in Emails : Register(x, n, e)
  \/ \E x \in Registrations : RefuseRequest(x) \/ Serve(x)
  \/ \E r \in Runs : StartSeeding(r) \/ Seed(r) \/ Killed(r)
  \/ Crash \/ Finished

AccountsSpec == AccountsInit /\ [][AccountsNext]_AccountsVars

-----------------------------------------------------------------------------
(* Properties *)

\* Whoever was told "registered" has the one account of that name, with the
\* email and the password of the request, however registrations overlap and
\* whatever the seeder does in between.
CreatedIsKept ==
  \A x \in Registrations : reg[x].pc = "created" =>
    \E a \in accounts : /\ Named(reg[x].name) = {a}
                        /\ a.owner = x /\ a.email = reg[x].email

\* After a run without failures every default user exists with its role, made
\* by whomever; unless its email belongs to an account of another name, which
\* keeps the seeder from ever creating it.
SeededOrShadowed ==
  \A r \in Runs : seed[r].pc = "ended" /\ ~seed[r].missed =>
    \A i \in DOMAIN Defaults :
      \/ \E a \in accounts : /\ a.name = Defaults[i].name
                             /\ a.role = Defaults[i].role
      \/ \E a \in accounts : /\ a.email = Defaults[i].email
                             /\ a.name # Defaults[i].name
=============================================================================
