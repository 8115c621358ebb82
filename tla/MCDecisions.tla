---------------------------- MODULE MCDecisions ----------------------------
\* Scores on both sides of every threshold: 10 (reactor), 20 (documents,
\* nuclear materials, guard), 30 (personnel) and 40 (public pages).
EXTENDS Decisions

MCScores == {0, 10, 11, 20, 21, 30, 31, 40, 41}
=============================================================================
