------------------------------- MODULE Policy -------------------------------
(***************************************************************************)
(* The policy envoy.authz that Open Policy Agent evaluates for every       *)
(* request: public routes, the Bell-LaPadula matrix of the protected ones, *)
(* the agreement of token and client certificate, and the risk threshold.  *)
(*                                                                         *)
(* A path is the sequence of its segments, without the "api", "v1" that    *)
(* begin most of them; "startswith(path, p + '/')" is then "p is a proper  *)
(* prefix".  Scores and benefits are hundredths.  A certificate subject    *)
(* carries at most one OU.                                                 *)
(*                                                                         *)
(* Definitions named after a fault (WritesDown, Swapped, ...) stand    *)
(* beside the one they falsify; nothing uses them.                         *)
(***************************************************************************)
EXTENDS Integers, Sequences

CONSTANT Scores  \* anomaly scores that the model gives, in hundredths

ASSUME ScoresAssumption == Scores \subseteq 0 .. 100

livelli == [PUBLIC |-> 0, INTERNAL |-> 1, CONFIDENTIAL |-> 2, SECRET |-> 3,
            TOP_SECRET |-> 4]

ruoli_to_blp ==
  [guest    |-> [clearance |-> 0, categorie |-> {}],
   operator |-> [clearance |-> 1, categorie |-> {"hr", "ops"}],
   manager  |-> [clearance |-> 2, categorie |-> {"hr", "ops", "finance"}],
   admin    |-> [clearance |-> 4,
                 categorie |-> {"hr", "ops", "finance", "nuclear", "security"}]]

Roles == {"guest", "operator", "manager", "admin"}

Methods == {"GET", "POST", "PUT", "DELETE", "PATCH"}

metodi_scrittura == {"POST", "PUT", "DELETE", "PATCH"}

-----------------------------------------------------------------------------
(* The security matrix *)

Personnel == <<"personnel">>
Documents == <<"documents">>
Nuclear   == <<"nuclear-materials">>
Reactor   == <<"reactor-parameters">>
Guard     == <<"trusted-guard", "sanitized-delete-personnel">>

Collections == {Personnel, Documents, Nuclear, Reactor}
Rotte == Collections \cup {Guard}

Row(classificazione, categorie, metodi, benefici, minimo) ==
  [classificazione |-> classificazione, categorie |-> categorie,
   metodi |-> metodi, benefici |-> benefici, minimo |-> minimo]

matrice_sicurezza == [p \in Rotte |->
  CASE p = Personnel -> Row("INTERNAL", {"hr"}, {"GET", "POST"}, 60, 30)
    [] p = Documents -> Row("CONFIDENTIAL", {"finance"},
                            {"GET", "POST", "DELETE"}, 70, 50)
    [] p = Nuclear   -> Row("TOP_SECRET", {"nuclear"},
                            {"GET", "POST", "DELETE"}, 80, 60)
    [] p = Reactor   -> Row("TOP_SECRET", {"nuclear", "security"},
                            {"GET", "POST", "DELETE"}, 90, 80)
    [] p = Guard     -> Row("SECRET", {"security"}, {"POST"}, 90, 70)]

Level(p) == livelli[matrice_sicurezza[p].classificazione]

\* The path is p or lies below it.
Under(path, p) == Len(p) <= Len(path) /\ SubSeq(path, 1, Len(p)) = p

\* rotte_compatibili and rotta_base: at most one, the longest.
rotta_base(path) ==
  {p \in Rotte : /\ Under(path, p)
                 /\ \A q \in Rotte : Under(path, q) => Len(q) <= Len(p)}

-----------------------------------------------------------------------------
(* The rules *)

\* blp_elabora_regola: no read up, no write down, the trusted guard.
WritesDown(method, clearance, classification, p, ruolo) ==
  \/ method = "GET" /\ clearance >= classification
  \/ method \in metodi_scrittura /\ clearance >= classification
blp_elabora_regola(method, clearance, classification, p, ruolo) ==
  \/ method = "GET" /\ clearance >= classification
  \/ method \in metodi_scrittura /\ p # Guard /\ clearance <= classification
  \/ /\ method = "POST" /\ p = Guard /\ ruolo = "admin"
     /\ clearance = 4 /\ classification = 3

\* categorie_mancanti is empty.
HasCategories(ruolo, p) ==
  matrice_sicurezza[p].categorie \subseteq ruoli_to_blp[ruolo].categorie

\* What the role may do to the route, whatever the certificate and the score.
Cleared(ruolo, method, p) ==
  /\ method \in matrice_sicurezza[p].metodi
  /\ HasCategories(ruolo, p)
  /\ blp_elabora_regola(method, ruoli_to_blp[ruolo].clearance, Level(p), p, ruolo)

\* A request: method, path, role of the token ("none" without a token), OU of
\* the certificate ("absent" without one, "blank" for a subject without an OU)
\* and anomaly score.
CertMismatch(i) == i.role # "none" /\ i.ou \notin {"absent", "blank", i.role}

CertRequiredMissing(i) == i.role \in {"admin", "manager"} /\ i.ou = "absent"

\* The net benefit that remains at this risk is enough.
Swapped(p, score) == score <= matrice_sicurezza[p].minimo
Rischiabile(p, score) ==
  matrice_sicurezza[p].benefici - score >= matrice_sicurezza[p].minimo

infra_paths ==
  {<<"health">>, <<".well-known", "jwks.json">>, <<"favicon.ico">>,
   <<"evaluate", "favicon.ico">>}

public_paths ==
  {<<>>, <<"login">>, <<"register">>, <<"materials">>, <<"reserved">>,
   <<"auth", "login">>, <<"auth", "register">>, <<"auth", "verify-otp">>,
   <<"auth", "login", "begin">>, <<"auth", "login", "finish">>,
   <<"auth", "register", "begin">>, <<"auth", "register", "finish">>}

beneficio == 80

AllowInfra(i) ==
  \/ i.path \in infra_paths
  \/ Len(i.path) > 1 /\ Under(i.path, <<"static">>)

AnyScore(i) == i.path \in public_paths
Stricter(i) == i.path \in public_paths /\ beneficio - i.score > 60
AllowPublic(i) == i.path \in public_paths /\ beneficio - i.score >= 40

AllowMatrix(i) ==
  /\ ~CertMismatch(i) /\ ~CertRequiredMissing(i)
  /\ i.role \in Roles
  /\ \E p \in rotta_base(i.path) :
       Cleared(i.role, i.method, p) /\ Rischiabile(p, i.score)

allow(i) == AllowInfra(i) \/ AllowPublic(i) \/ AllowMatrix(i)
=============================================================================
