----------------------------- MODULE MCInfoFlow -----------------------------
\* A user of each role.
EXTENDS InfoFlow

MCRole == [visitor |-> "guest", clerk |-> "operator", boss |-> "manager",
           root |-> "admin"]

MCSubjects == DOMAIN MCRole

MCScores == {0, 25}
=============================================================================
