------------------------------ MODULE Decisions ------------------------------
(***************************************************************************)
(* What one browser session is offered and what it gets.  Three tables are *)
(* kept by hand in three languages: the matrix of the policy, the mirror   *)
(* of it that decides which buttons the pages show (app.js), and the list  *)
(* by which the orchestrator names the resource of a request to the        *)
(* anomaly model (normalizeAIPath).  The session logs in and out, presents *)
(* certificates, is scored, and asks; every combination is reached.        *)
(*                                                                         *)
(* Definitions named after a fault (ForgetsDelete, ...) stand beside the one *)
(* they falsify; no action uses them.                                      *)
(***************************************************************************)
EXTENDS Policy

CONSTANT Segments  \* what may follow a route: path parameters and names of files

VARIABLES
  session,  \* role of the token and OU of the certificate
  score,    \* the last answer of the model, or the fallback
  asked     \* method and path of the request being decided

SessionVars == <<session, score, asked>>

-----------------------------------------------------------------------------
\* The score when the model cannot be reached.
Fallback == 99

SitePaths ==
  infra_paths \cup public_paths \cup Rotte
    \cup {Append(p, s) : p \in Rotte \cup {<<"static">>}, s \in Segments}

Request ==
  [method |-> asked.method, path |-> asked.path,
   role |-> session.role, ou |-> session.ou, score |-> score]

\* ROUTE_RULES of app.js: the roles that are shown a method of a route.
ROUTE_RULES(p, method) ==
  CASE p = Personnel /\ method \in {"GET", "POST"} ->
         {"operator", "manager", "admin"}
    [] p \in {Documents, Nuclear} /\ method \in {"GET", "POST", "DELETE"} ->
         {"manager", "admin"}
    [] p = Reactor /\ method \in {"GET", "POST", "DELETE"} -> {"admin"}
    [] p = Guard /\ method = "POST" -> {"admin"}
    [] OTHER -> {}

ForgetsDelete(role, p, method) ==
  role \in ROUTE_RULES(p, method) /\ method # "DELETE"
roleCan(role, p, method) == role \in ROUTE_RULES(p, method)

\* aiResourceBases, in its order.
aiResourceBases ==
  <<Guard, Personnel, Documents, Nuclear, Reactor,
    <<"auth", "register">>, <<"auth", "login">>, <<"auth", "verify-otp">>,
    <<"auth", "register", "begin">>, <<"auth", "register", "finish">>,
    <<"auth", "login", "begin">>, <<"auth", "login", "finish">> >>

Matches(path) == {k \in DOMAIN aiResourceBases : Under(path, aiResourceBases[k])}

\* The first base of the list that fits; static files are one resource.
ExactOnly(path) == path
normalizeAIPath(path) ==
  IF Matches(path) # {}
  THEN aiResourceBases[CHOOSE k \in Matches(path) : \A j \in Matches(path) : k <= j]
  ELSE IF Len(path) > 1 /\ Under(path, <<"static">>) THEN <<"static">> ELSE path

-----------------------------------------------------------------------------
SessionInit ==
  /\ session = [role |-> "none", ou |-> "absent"]
  /\ score = Fallback
  /\ asked = [method |-> "GET", path |-> <<>>]

\* A login gives a token with the role of the account.
Login(role) ==
  /\ session.role = "none"
  /\ session' = [session EXCEPT !.role = role]
  /\ UNCHANGED <<score, asked>>

Logout ==
  /\ session.role # "none"
  /\ session' = [session EXCEPT !.role = "none"]
  /\ UNCHANGED <<score, asked>>

Present(ou) ==
  /\ session' = [session EXCEPT !.ou = ou]
  /\ UNCHANGED <<score, asked>>

\* Infer: the model answers, or the fallback stands for it.
Infer ==
  /\ score' \in Scores \cup {Fallback}
  /\ UNCHANGED <<session, asked>>

Ask(method, path) ==
  /\ asked' = [method |-> method, path |-> path]
  /\ UNCHANGED <<session, score>>

SessionNext ==
  \/ \E role \in Roles : Login(role)
  \/ \E ou \in Roles \cup {"absent", "blank"} : Present(ou)
  \/ \E method \in Methods, path \in SitePaths : Ask(method, path)
  \/ Logout \/ Infer

SessionSpec == SessionInit /\ [][SessionNext]_SessionVars

-----------------------------------------------------------------------------
(* Properties *)

\* The pages never hide what the policy would let the session do: a request
\* allowed by the matrix is for a route and method that app.js shows to that
\* role, the same for a record as for its collection.
ShownIfAllowed ==
  AllowMatrix(Request) =>
    \E p \in Rotte : /\ Under(asked.path, p)
                     /\ roleCan(session.role, p, asked.method)

\* While the anomaly score of a session rises it loses what it may read from
\* the top down: what it may read at this score includes everything of a
\* lower level that its role may read at all, although each row of the matrix
\* has two numbers of its own.
LostFromTheTop ==
  asked.method = "GET" /\ AllowMatrix(Request) =>
    \A p \in rotta_base(asked.path), q \in Collections :
      Level(q) < Level(p) /\ Cleared(session.role, "GET", q) =>
        Rischiabile(q, score)

\* Whoever is scored low enough to read or write a collection could log in
\* again with that score: an anomaly never leaves a session working which it
\* would not let start.
CouldStart ==
  AllowMatrix(Request) =>
    allow([Request EXCEPT !.method = "POST", !.path = <<"auth", "login">>])

\* With the model unreachable nothing but the infrastructure paths and the
\* static files is allowed, whatever the token and the certificate.
OutageClosesAll == score = Fallback /\ allow(Request) => AllowInfra(Request)

\* The model learns about a protected request under the very route whose row
\* decided it, whatever path parameters it has.
LearntWhereDecided ==
  \A p \in rotta_base(asked.path) : normalizeAIPath(asked.path) = p
=============================================================================
