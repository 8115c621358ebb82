-------------------------- MODULE MCLoginRateLimit --------------------------
(* Instances of LoginRateLimit for TLC. *)
EXTENDS LoginRateLimit

CONSTANTS i1, i2, w1, w2

AllKinds == {"login", "begin", "finish"}
OnlyLogin == {"login"}
=============================================================================
