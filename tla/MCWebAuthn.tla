----------------------------- MODULE MCWebAuthn -----------------------------
(* Instance of WebAuthn for TLC: two users and one authenticator. *)
EXTENDS WebAuthn, TLC

CONSTANTS u1, u2, s1, s2, c1, q1, q2

RequestSymmetry ==
  Permutations(Users) \cup Permutations(Sessions) \cup Permutations(Requests)
=============================================================================
