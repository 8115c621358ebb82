--------------------------- MODULE PolicyProofs ----------------------------
(***************************************************************************)
(* The two systems around the policy.  Of InfoFlow, for all users with     *)
(* whatever roles and all path parameters: the policy leaves no way for    *)
(* information to come to a role that does not dominate its origin, except *)
(* through the trusted guard.  Of Decisions, for all scores and path       *)
(* parameters: the mirrors of the matrix agree with it, and its thresholds *)
(* are ordered; a session can be in any state of its type, so these follow *)
(* from the type and from lemmas about the tables.                         *)
(*                                                                         *)
(* For InfoFlow the invariant strengthens what the users know by what the  *)
(* collections hold (HeldIsLow): every role that dominates a collection    *)
(* dominates the origin of all it contains, or that was released.  That a  *)
(* writer keeps to it is where the *-property is used (WritersDominated),  *)
(* that a reader does is the simple security property (ReadersDominate).   *)
(***************************************************************************)
EXTENDS InfoFlow, Decisions, TLAPS

HeldIsLow ==
  \A p \in Collections : \A o \in holds[p], r \in Roles :
    Dominates(r, p) => Dominates(r, o) \/ o \in released

IInv == TypeOK /\ LeaksOnlyThroughGuard /\ HeldIsLow

-----------------------------------------------------------------------------
(* The matrix *)

\* The routes of the matrix are different.
LEMMA RoutesDiffer ==
  /\ Personnel # Documents /\ Personnel # Nuclear /\ Personnel # Reactor
  /\ Documents # Nuclear /\ Documents # Reactor /\ Nuclear # Reactor
  /\ Personnel # Guard /\ Documents # Guard /\ Nuclear # Guard /\ Reactor # Guard
BY DEF Personnel, Documents, Nuclear, Reactor, Guard

\* The rows of the matrix.
LEMMA Matrix ==
  /\ matrice_sicurezza[Personnel] = Row("INTERNAL", {"hr"}, {"GET", "POST"}, 60, 30)
  /\ matrice_sicurezza[Documents] =
       Row("CONFIDENTIAL", {"finance"}, {"GET", "POST", "DELETE"}, 70, 50)
  /\ matrice_sicurezza[Nuclear] =
       Row("TOP_SECRET", {"nuclear"}, {"GET", "POST", "DELETE"}, 80, 60)
  /\ matrice_sicurezza[Reactor] =
       Row("TOP_SECRET", {"nuclear", "security"}, {"GET", "POST", "DELETE"}, 90, 80)
  /\ matrice_sicurezza[Guard] = Row("SECRET", {"security"}, {"POST"}, 90, 70)
<1>1. matrice_sicurezza[Personnel] = Row("INTERNAL", {"hr"}, {"GET", "POST"}, 60, 30)
  BY RoutesDiffer DEF matrice_sicurezza, Rotte, Collections
<1>2. matrice_sicurezza[Documents] =
        Row("CONFIDENTIAL", {"finance"}, {"GET", "POST", "DELETE"}, 70, 50)
  BY RoutesDiffer DEF matrice_sicurezza, Rotte, Collections
<1>3. matrice_sicurezza[Nuclear] =
        Row("TOP_SECRET", {"nuclear"}, {"GET", "POST", "DELETE"}, 80, 60)
  BY RoutesDiffer DEF matrice_sicurezza, Rotte, Collections
<1>4. matrice_sicurezza[Reactor] =
        Row("TOP_SECRET", {"nuclear", "security"}, {"GET", "POST", "DELETE"}, 90, 80)
  BY RoutesDiffer DEF matrice_sicurezza, Rotte, Collections
<1>5. matrice_sicurezza[Guard] = Row("SECRET", {"security"}, {"POST"}, 90, 70)
  BY RoutesDiffer DEF matrice_sicurezza, Rotte, Collections
<1>6. QED
  BY <1>1, <1>2, <1>3, <1>4, <1>5

\* The levels and the categories of the routes.
LEMMA Rows ==
  /\ Level(Personnel) = 1 /\ matrice_sicurezza[Personnel].categorie = {"hr"}
  /\ Level(Documents) = 2 /\ matrice_sicurezza[Documents].categorie = {"finance"}
  /\ Level(Nuclear) = 4 /\ matrice_sicurezza[Nuclear].categorie = {"nuclear"}
  /\ Level(Reactor) = 4
  /\ matrice_sicurezza[Reactor].categorie = {"nuclear", "security"}
  /\ Level(Guard) = 3 /\ matrice_sicurezza[Guard].categorie = {"security"}
BY Matrix DEF Level, Row, livelli

\* The methods of the routes.
LEMMA MethodsOfRows ==
  /\ matrice_sicurezza[Personnel].metodi = {"GET", "POST"}
  /\ \A p \in {Documents, Nuclear, Reactor} :
       matrice_sicurezza[p].metodi = {"GET", "POST", "DELETE"}
  /\ matrice_sicurezza[Guard].metodi = {"POST"}
BY Matrix DEF Row

\* The highest score at which each route is open.
LEMMA Thresholds ==
  ASSUME NEW s \in Int
  PROVE  /\ Rischiabile(Personnel, s) <=> s <= 30
         /\ Rischiabile(Documents, s) <=> s <= 20
         /\ Rischiabile(Nuclear, s) <=> s <= 20
         /\ Rischiabile(Reactor, s) <=> s <= 10
         /\ Rischiabile(Guard, s) <=> s <= 20
BY Matrix DEF Rischiabile, Row

\* The clearances and the categories of the roles.
LEMMA RoleRows ==
  /\ ruoli_to_blp["guest"].clearance = 0 /\ ruoli_to_blp["guest"].categorie = {}
  /\ ruoli_to_blp["operator"].clearance = 1
  /\ ruoli_to_blp["operator"].categorie = {"hr", "ops"}
  /\ ruoli_to_blp["manager"].clearance = 2
  /\ ruoli_to_blp["manager"].categorie = {"hr", "ops", "finance"}
  /\ ruoli_to_blp["admin"].clearance = 4
  /\ ruoli_to_blp["admin"].categorie = {"hr", "ops", "finance", "nuclear", "security"}
BY DEF ruoli_to_blp

\* What each role dominates.
LEMMA Dominance ==
  ASSUME NEW r \in Roles, NEW p \in Collections
  PROVE  Dominates(r, p) <=>
           \/ r = "operator" /\ p = Personnel
           \/ r = "manager" /\ p \in {Personnel, Documents}
           \/ r = "admin"
<1>1. CASE r = "guest"
  BY <1>1, Rows, RoleRows DEF Dominates, Collections
<1>2. CASE r = "operator"
  BY <1>2, Rows, RoleRows, RoutesDiffer DEF Dominates, Collections
<1>3. CASE r = "manager"
  BY <1>3, Rows, RoleRows, RoutesDiffer DEF Dominates, Collections
<1>4. CASE r = "admin"
  BY <1>4, Rows, RoleRows DEF Dominates, Collections
<1>5. QED
  BY <1>1, <1>2, <1>3, <1>4 DEF Roles

\* The route of the matrix that a path belongs to is unique.
LEMMA OneRoute ==
  ASSUME NEW path, NEW p \in rotta_base(path), NEW q \in rotta_base(path)
  PROVE  p = q
<1>1. /\ q = SubSeq(path, 1, Len(q)) /\ p = SubSeq(path, 1, Len(p))
      /\ Len(q) <= Len(p) /\ Len(p) <= Len(q)
  BY DEF rotta_base, Under
<1>2. Len(q) \in Nat /\ Len(p) \in Nat
  BY DEF rotta_base, Rotte, Collections, Personnel, Documents, Nuclear, Reactor,
         Guard
<1>3. QED
  BY <1>1, <1>2

\* An allowed request is cleared for the route it concerns.
LEMMA AllowedIsCleared ==
  ASSUME NEW w \in Allowed
  PROVE  /\ w \in Ways /\ Role[w.u] \in Roles
         /\ Cleared(Role[w.u], w.method, w.p)
<1>1. w \in Ways /\ w.p \in rotta_base(w.path)
  BY DEF Allowed
<1>2. PICK q \in rotta_base(w.path) : Cleared(Role[w.u], w.method, q)
  BY DEF Allowed, AllowMatrix
<1>3. q = w.p
  BY <1>1, <1>2, OneRoute
<1>4. Role[w.u] \in Roles
  BY <1>1, FlowAssumption DEF Ways
<1>5. QED
  BY <1>1, <1>2, <1>3, <1>4

\* Simple security: who may read a collection dominates it.
LEMMA ReadersDominate ==
  ASSUME NEW r \in Roles, NEW p \in Collections, Cleared(r, "GET", p)
  PROVE  Dominates(r, p)
BY DEF Cleared, HasCategories, blp_elabora_regola, metodi_scrittura, Dominates

\* The *-property: who may write a collection dominates it, and is dominated,
\* as far as the collections go, by everybody who dominates it.
LEMMA WritersDominated ==
  ASSUME NEW r \in Roles, NEW p \in Collections, NEW method \in metodi_scrittura,
         Cleared(r, method, p)
  PROVE  /\ Dominates(r, p)
         /\ \A s \in Roles, o \in Collections :
              Dominates(s, p) /\ Dominates(r, o) => Dominates(s, o)
<1>1. /\ matrice_sicurezza[p].categorie \subseteq ruoli_to_blp[r].categorie
      /\ ruoli_to_blp[r].clearance <= Level(p)
  BY RoutesDiffer DEF Cleared, HasCategories, blp_elabora_regola,
                      metodi_scrittura, Collections
<1>2. \/ r = "operator" /\ p = Personnel
      \/ r = "manager" /\ p = Documents
      \/ r = "admin" /\ p \in {Nuclear, Reactor}
  <2>1. CASE r = "guest"
    BY <1>1, <2>1, Rows, RoleRows DEF Collections
  <2>2. CASE r = "operator"
    BY <1>1, <2>2, Rows, RoleRows DEF Collections
  <2>3. CASE r = "manager"
    BY <1>1, <2>3, Rows, RoleRows DEF Collections
  <2>4. CASE r = "admin"
    BY <1>1, <2>4, Rows, RoleRows DEF Collections
  <2>5. QED
    BY <2>1, <2>2, <2>3, <2>4 DEF Roles
<1>3. QED
  BY <1>2, Dominance, RoutesDiffer

-----------------------------------------------------------------------------
LEMMA InitIInv == Init => IInv
BY DEF Init, IInv, TypeOK, LeaksOnlyThroughGuard, HeldIsLow

LEMMA ReadIInv == ASSUME IInv, NEW w \in Allowed, Read(w) PROVE IInv'
<1>1. w.u \in Subjects /\ Role[w.u] \in Roles /\ w.p \in Collections
  BY AllowedIsCleared DEF Ways, Read
<1>2. Dominates(Role[w.u], w.p)
  BY <1>1, AllowedIsCleared, ReadersDominate DEF Read
<1>3. TypeOK'
  BY <1>1 DEF IInv, TypeOK, Read
<1>4. LeaksOnlyThroughGuard'
  BY <1>1, <1>2 DEF IInv, TypeOK, LeaksOnlyThroughGuard, HeldIsLow, Read
<1>5. HeldIsLow'
  BY DEF IInv, HeldIsLow, Read
<1>6. QED
  BY <1>3, <1>4, <1>5 DEF IInv

LEMMA WriteIInv == ASSUME IInv, NEW w \in Allowed, Write(w) PROVE IInv'
<1>1. w.u \in Subjects /\ Role[w.u] \in Roles /\ w.p \in Collections
  BY AllowedIsCleared DEF Ways, Write
<1>2. /\ Dominates(Role[w.u], w.p)
      /\ \A s \in Roles, o \in Collections :
           Dominates(s, w.p) /\ Dominates(Role[w.u], o) => Dominates(s, o)
  BY <1>1, AllowedIsCleared, WritersDominated DEF Write
<1>3. TypeOK'
  BY <1>1 DEF IInv, TypeOK, Write
<1>4. LeaksOnlyThroughGuard'
  BY <1>1, <1>2 DEF IInv, TypeOK, LeaksOnlyThroughGuard, HeldIsLow, Write
<1>5. HeldIsLow'
  BY <1>1, <1>2 DEF IInv, TypeOK, LeaksOnlyThroughGuard, HeldIsLow, Write
<1>6. QED
  BY <1>3, <1>4, <1>5 DEF IInv

LEMMA GuardRequestIInv ==
  ASSUME IInv, NEW w \in Allowed, GuardRequest(w) PROVE IInv'
<1>1. w.u \in Subjects
  BY AllowedIsCleared DEF Ways
<1>2. QED
  BY <1>1 DEF IInv, TypeOK, LeaksOnlyThroughGuard, HeldIsLow, GuardRequest

LEMMA GuardDeleteIInv ==
  ASSUME IInv, NEW m \in pending, GuardDelete(m) PROVE IInv'
<1>1. TypeOK'
  BY DEF IInv, TypeOK, GuardDelete
<1>2. LeaksOnlyThroughGuard'
  BY DEF IInv, LeaksOnlyThroughGuard, GuardDelete
<1>3. HeldIsLow'
  BY DEF IInv, TypeOK, HeldIsLow, GuardDelete
<1>4. QED
  BY <1>1, <1>2, <1>3 DEF IInv

LEMMA NextIInv == IInv /\ [Next]_vars => IInv'
<1> SUFFICES ASSUME IInv, [Next]_vars PROVE IInv'
  OBVIOUS
<1>1. ASSUME NEW w \in Allowed, Read(w) PROVE IInv'
  BY <1>1, ReadIInv
<1>2. ASSUME NEW w \in Allowed, Write(w) PROVE IInv'
  BY <1>2, WriteIInv
<1>3. ASSUME NEW w \in Allowed, GuardRequest(w) PROVE IInv'
  BY <1>3, GuardRequestIInv
<1>4. ASSUME NEW m \in pending, GuardDelete(m) PROVE IInv'
  BY <1>4, GuardDeleteIInv
<1>5. CASE Forget
  BY <1>5 DEF IInv, TypeOK, LeaksOnlyThroughGuard, HeldIsLow, Forget
<1>6. CASE UNCHANGED vars
  BY <1>6 DEF IInv, TypeOK, LeaksOnlyThroughGuard, HeldIsLow, vars
<1>7. QED
  BY <1>1, <1>2, <1>3, <1>4, <1>5, <1>6 DEF Next

LEMMA Invariance == Spec => []IInv
BY InitIInv, NextIInv, PTL DEF Spec

-----------------------------------------------------------------------------
\* The sets of origins stay sets of collections.
THEOREM TypeCorrect == Spec => []TypeOK
<1>1. IInv => TypeOK
  BY DEF IInv
<1>2. QED
  BY <1>1, Invariance, PTL

\* Whatever sequence of requests the policy allows, what a user has been told
\* comes from collections its role dominates or through the trusted guard.
THEOREM NoOtherLeak == Spec => []LeaksOnlyThroughGuard
<1>1. IInv => LeaksOnlyThroughGuard
  BY DEF IInv
<1>2. QED
  BY <1>1, Invariance, PTL

-----------------------------------------------------------------------------
(* Decisions: one session *)

SessionTypeOK ==
  /\ session \in [role : Roles \cup {"none"}, ou : Roles \cup {"absent", "blank"}]
  /\ score \in Scores \cup {Fallback}
  /\ asked \in [method : Methods, path : SitePaths]

\* What the matrix amounts to: who may do what to which route.
LEMMA AccessTable ==
  ASSUME NEW r \in Roles, NEW p \in Rotte, NEW m \in Methods, Cleared(r, m, p)
  PROVE  \/ p = Personnel /\ m = "GET" /\ r \in {"operator", "manager", "admin"}
         \/ p = Personnel /\ m = "POST" /\ r = "operator"
         \/ p = Documents /\ m = "GET" /\ r \in {"manager", "admin"}
         \/ p = Documents /\ m \in {"POST", "DELETE"} /\ r = "manager"
         \/ p \in {Nuclear, Reactor} /\ m \in {"GET", "POST", "DELETE"} /\ r = "admin"
         \/ p = Guard /\ m = "POST" /\ r = "admin"
<1>1. /\ m \in matrice_sicurezza[p].metodi
      /\ matrice_sicurezza[p].categorie \subseteq ruoli_to_blp[r].categorie
      /\ m = "GET" => ruoli_to_blp[r].clearance >= Level(p)
      /\ m \in metodi_scrittura /\ p # Guard => ruoli_to_blp[r].clearance <= Level(p)
  BY DEF Cleared, HasCategories, blp_elabora_regola, metodi_scrittura
<1>2. CASE p = Personnel
  BY <1>1, <1>2, Rows, MethodsOfRows, RoleRows, RoutesDiffer DEF Roles, metodi_scrittura
<1>3. CASE p = Documents
  BY <1>1, <1>3, Rows, MethodsOfRows, RoleRows, RoutesDiffer DEF Roles, metodi_scrittura
<1>4. CASE p \in {Nuclear, Reactor}
  BY <1>1, <1>4, Rows, MethodsOfRows, RoleRows DEF Roles
<1>5. CASE p = Guard
  BY <1>1, <1>5, Rows, MethodsOfRows, RoleRows DEF Roles
<1>6. QED
  BY <1>2, <1>3, <1>4, <1>5 DEF Rotte, Collections

\* ROUTE_RULES, route by route.
LEMMA RouteRules ==
  ASSUME NEW m \in {"GET", "POST", "DELETE"}
  PROVE  /\ m # "DELETE" => ROUTE_RULES(Personnel, m) = {"operator", "manager", "admin"}
         /\ ROUTE_RULES(Documents, m) = {"manager", "admin"}
         /\ ROUTE_RULES(Nuclear, m) = {"manager", "admin"}
         /\ ROUTE_RULES(Reactor, m) = {"admin"}
         /\ m = "POST" => ROUTE_RULES(Guard, m) = {"admin"}
<1>1. m # "DELETE" => ROUTE_RULES(Personnel, m) = {"operator", "manager", "admin"}
  BY RoutesDiffer DEF ROUTE_RULES
<1>2. ROUTE_RULES(Documents, m) = {"manager", "admin"}
  BY RoutesDiffer DEF ROUTE_RULES
<1>3. ROUTE_RULES(Nuclear, m) = {"manager", "admin"}
  BY RoutesDiffer DEF ROUTE_RULES
<1>4. ROUTE_RULES(Reactor, m) = {"admin"}
  BY RoutesDiffer DEF ROUTE_RULES
<1>5. m = "POST" => ROUTE_RULES(Guard, m) = {"admin"}
  BY RoutesDiffer DEF ROUTE_RULES
<1>6. QED
  BY <1>1, <1>2, <1>3, <1>4, <1>5

\* What an allowed protected request fulfils.
LEMMA AllowedRequest ==
  ASSUME SessionTypeOK, AllowMatrix(Request)
  PROVE  /\ session.role \in Roles /\ asked.method \in Methods /\ score \in Int
         /\ \E p \in rotta_base(asked.path) :
              /\ p \in Rotte /\ Under(asked.path, p)
              /\ Cleared(session.role, asked.method, p) /\ Rischiabile(p, score)
<1>1. score \in Int
  BY ScoresAssumption DEF SessionTypeOK, Fallback
<1>2. session.role \in Roles /\ asked.method \in Methods
  BY DEF SessionTypeOK, AllowMatrix, Request
<1>3. \E p \in rotta_base(asked.path) :
        Cleared(session.role, asked.method, p) /\ Rischiabile(p, score)
  BY DEF AllowMatrix, Request
<1>4. \A p \in rotta_base(asked.path) : p \in Rotte /\ Under(asked.path, p)
  BY DEF rotta_base
<1>5. QED
  BY <1>1, <1>2, <1>3, <1>4

\* No protected request is allowed above the score of 30.
LEMMA AllowedBelow30 ==
  ASSUME SessionTypeOK, AllowMatrix(Request)
  PROVE  score \in Int /\ score <= 30
<1>1. PICK p \in Rotte : Rischiabile(p, score) /\ score \in Int
  BY AllowedRequest
<1>2. QED
  BY <1>1, Thresholds DEF Rotte, Collections

LEMMA ShownHolds == SessionTypeOK => ShownIfAllowed
<1> SUFFICES ASSUME SessionTypeOK, AllowMatrix(Request)
             PROVE  \E p \in Rotte : /\ Under(asked.path, p)
                                     /\ roleCan(session.role, p, asked.method)
  BY DEF ShownIfAllowed
<1>1. PICK p \in Rotte : /\ Under(asked.path, p)
                         /\ Cleared(session.role, asked.method, p)
                         /\ session.role \in Roles /\ asked.method \in Methods
  BY AllowedRequest
<1>2. session.role \in ROUTE_RULES(p, asked.method)
  <2>1. asked.method \in {"GET", "POST", "DELETE"}
    BY <1>1, AccessTable
  <2>2. QED
    BY <1>1, <2>1, AccessTable, RouteRules, RoutesDiffer
<1>3. QED
  BY <1>1, <1>2 DEF roleCan

LEMMA TopHolds == SessionTypeOK => LostFromTheTop
<1> SUFFICES ASSUME SessionTypeOK, asked.method = "GET", AllowMatrix(Request),
                    NEW p \in rotta_base(asked.path), NEW q \in Collections,
                    Level(q) < Level(p), Cleared(session.role, "GET", q)
             PROVE  Rischiabile(q, score)
  BY DEF LostFromTheTop
<1>1. /\ Rischiabile(p, score) /\ p \in Rotte /\ score \in Int
      /\ Cleared(session.role, "GET", p) /\ session.role \in Roles
  <2>1. PICK o \in rotta_base(asked.path) :
          /\ o \in Rotte /\ Rischiabile(o, score)
          /\ Cleared(session.role, "GET", o) /\ session.role \in Roles
          /\ score \in Int
    BY AllowedRequest
  <2>2. o = p
    BY OneRoute
  <2>3. QED
    BY <2>1, <2>2
<1>2. p # Guard
  BY <1>1, MethodsOfRows DEF Cleared
<1>3. QED
  BY <1>1, <1>2, Rows, Thresholds DEF Rotte, Collections

LEMMA StartHolds == SessionTypeOK => CouldStart
<1> SUFFICES ASSUME SessionTypeOK, AllowMatrix(Request)
             PROVE  allow([Request EXCEPT !.method = "POST",
                                          !.path = <<"auth", "login">>])
  BY DEF CouldStart
<1>1. 80 - score >= 40
  BY AllowedBelow30
<1>2. AllowPublic([Request EXCEPT !.method = "POST", !.path = <<"auth", "login">>])
  BY <1>1 DEF AllowPublic, Request, beneficio, public_paths
<1>3. QED
  BY <1>2 DEF allow

LEMMA OutageHolds == SessionTypeOK => OutageClosesAll
<1> SUFFICES ASSUME SessionTypeOK, score = Fallback, allow(Request)
             PROVE  AllowInfra(Request)
  BY DEF OutageClosesAll
<1>1. ~AllowPublic(Request)
  BY DEF AllowPublic, Request, beneficio, Fallback
<1>2. ~AllowMatrix(Request)
  BY AllowedBelow30 DEF Fallback
<1>3. QED
  BY <1>1, <1>2 DEF allow

\* A path under a base begins like the base.
LEMMA SameHead ==
  ASSUME NEW path, NEW base, Len(base) \in Nat \ {0}, Under(path, base)
  PROVE  path[1] = base[1]
<1>1. base = [i \in 1 .. Len(base) |-> path[i]]
  BY DEF Under
<1>2. 1 \in 1 .. Len(base)
  OBVIOUS
<1>3. QED
  BY <1>1, <1>2

\* The bases that the orchestrator compares a path with begin differently from
\* each other as far as they are routes of the matrix.
LEMMA Bases ==
  /\ DOMAIN aiResourceBases = 1 .. 12
  /\ \A k \in 1 .. 12 : Len(aiResourceBases[k]) \in Nat \ {0}
  /\ \A p \in Rotte : \E k \in 1 .. 12 : aiResourceBases[k] = p
  /\ \A p \in Rotte, k \in 1 .. 12 :
       aiResourceBases[k][1] = p[1] => aiResourceBases[k] = p
<1> USE DEF aiResourceBases, Guard, Personnel, Documents, Nuclear, Reactor
<1>1. DOMAIN aiResourceBases = 1 .. 12
  OBVIOUS
<1>2. \A k \in 1 .. 12 : Len(aiResourceBases[k]) \in Nat \ {0}
  OBVIOUS
<1>3. \A p \in Rotte : \E k \in 1 .. 12 : aiResourceBases[k] = p
  BY DEF Rotte, Collections
<1>4. \A p \in Rotte, k \in 1 .. 12 :
        aiResourceBases[k][1] = p[1] => aiResourceBases[k] = p
  BY DEF Rotte, Collections
<1>5. QED
  BY <1>1, <1>2, <1>3, <1>4

LEMMA LearntHolds == LearntWhereDecided
<1> SUFFICES ASSUME NEW p \in rotta_base(asked.path)
             PROVE  normalizeAIPath(asked.path) = p
  BY DEF LearntWhereDecided
<1>1. p \in Rotte /\ Under(asked.path, p)
  BY DEF rotta_base
<1>2. PICK k \in 1 .. 12 : aiResourceBases[k] = p
  BY <1>1, Bases
<1>3. k \in Matches(asked.path)
  BY <1>1, <1>2, Bases DEF Matches
<1>4. ASSUME NEW j \in Matches(asked.path)
      PROVE  aiResourceBases[j] = p
  <2>1. j \in 1 .. 12 /\ Under(asked.path, aiResourceBases[j])
    BY <1>4, Bases DEF Matches
  <2>2. aiResourceBases[j][1] = asked.path[1] /\ p[1] = asked.path[1]
    BY <1>1, <1>2, <2>1, SameHead, Bases
  <2>3. aiResourceBases[j][1] = p[1]
    BY <2>2
  <2>4. \A b \in Rotte, i \in 1 .. 12 :
          aiResourceBases[i][1] = b[1] => aiResourceBases[i] = b
    BY Bases
  <2>5. QED
    BY <1>1, <2>1, <2>3, <2>4
<1>5. \E first \in Matches(asked.path) : \A j \in Matches(asked.path) : first <= j
  <2>1. Matches(asked.path) \subseteq 1 .. 12
    BY Bases DEF Matches
  <2>2. QED
    BY <1>3, <2>1
<1>6. QED
  BY <1>3, <1>4, <1>5 DEF normalizeAIPath

-----------------------------------------------------------------------------
LEMMA InitSession == SessionInit => SessionTypeOK
BY DEF SessionInit, SessionTypeOK, Methods, SitePaths, public_paths

LEMMA NextSession == SessionTypeOK /\ [SessionNext]_SessionVars => SessionTypeOK'
<1> SUFFICES ASSUME SessionTypeOK, [SessionNext]_SessionVars PROVE SessionTypeOK'
  OBVIOUS
<1> USE DEF SessionTypeOK
<1>1. ASSUME NEW role \in Roles, Login(role) PROVE SessionTypeOK'
  BY <1>1 DEF Login
<1>2. ASSUME NEW ou \in Roles \cup {"absent", "blank"}, Present(ou)
      PROVE  SessionTypeOK'
  BY <1>2 DEF Present
<1>3. ASSUME NEW method \in Methods, NEW path \in SitePaths, Ask(method, path)
      PROVE  SessionTypeOK'
  BY <1>3 DEF Ask
<1>4. CASE Logout
  BY <1>4 DEF Logout
<1>5. CASE Infer
  BY <1>5 DEF Infer
<1>6. CASE UNCHANGED SessionVars
  BY <1>6 DEF SessionVars
<1>7. QED
  BY <1>1, <1>2, <1>3, <1>4, <1>5, <1>6 DEF SessionNext

\* The role, the OU, the score and the request of a session are what the
\* policy expects.
THEOREM SessionTypeCorrect == SessionSpec => []SessionTypeOK
BY InitSession, NextSession, PTL DEF SessionSpec

\* Whatever the path parameters and the scores, the pages show to a role every
\* protected request that the policy would allow it.
THEOREM PagesHideNothing == SessionSpec => []ShownIfAllowed
BY SessionTypeCorrect, ShownHolds, PTL

\* A rising score closes the collections from the highest level down.
THEOREM ClosesFromTheTop == SessionSpec => []LostFromTheTop
BY SessionTypeCorrect, TopHolds, PTL

\* A score that leaves a protected request open leaves the login open.
THEOREM NeverLockedIn == SessionSpec => []CouldStart
BY SessionTypeCorrect, StartHolds, PTL

\* The score that stands for an unreachable model closes all but the
\* infrastructure.
THEOREM OutageIsSafe == SessionSpec => []OutageClosesAll
BY SessionTypeCorrect, OutageHolds, PTL

\* The route whose row decides a request is the name under which the model
\* learns about it.
THEOREM LearntUnderItsRoute == SessionSpec => []LearntWhereDecided
BY LearntHolds, PTL
=============================================================================
