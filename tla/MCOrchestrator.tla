--------------------------- MODULE MCOrchestrator ---------------------------
\* Requests that the policy permits, permits only at a low score, or never
\* permits; without a token, with a forged one, with another's certificate; and
\* requests with headers that describe what they are, another path, another
\* method, or two paths.
EXTENDS Orchestrator

MCRole == [clerk |-> "operator", root |-> "admin"]

Try(user, forged, ou, method, path) ==
  [user |-> user, forged |-> forged, ou |-> ou, method |-> method, path |-> path,
   uri |-> NoPath, authzPath |-> NoPath, authzMethod |-> NoMethod]

Plain == {Try("clerk", FALSE, "absent", "GET", Personnel),
          Try("clerk", TRUE, "absent", "GET", Personnel),
          Try("root", FALSE, "admin", "DELETE", Append(Nuclear, "id")),
          Try("root", FALSE, "operator", "GET", Personnel),
          Try("root", TRUE, "absent", "GET", <<"health">>),
          Try("nobody", FALSE, "admin", "POST", <<"auth", "login">>),
          Try("nobody", FALSE, "absent", "GET", Documents)}

Described ==
  {[Try("root", FALSE, "admin", "GET", Nuclear) EXCEPT !.uri = Nuclear],
   [Try("clerk", FALSE, "absent", "GET", Personnel) EXCEPT
      !.authzPath = Documents, !.authzMethod = "POST"],
   [Try("nobody", FALSE, "absent", "GET", Documents) EXCEPT
      !.uri = <<"health">>, !.authzPath = Personnel]}

MCAsks == Plain \cup Described

MCScores == {0, 25}
=============================================================================
