---------------------------- MODULE MCJwksTrust ----------------------------
EXTENDS JwksTrust, TLC

\* Verifications are told apart by their state only.
CallSymmetry == Permutations(Calls)
=============================================================================
