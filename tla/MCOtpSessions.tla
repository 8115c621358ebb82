--------------------------- MODULE MCOtpSessions ---------------------------
(* Instances of OtpSessions for TLC: one user, one session. *)
EXTENDS OtpSessions

CONSTANTS s1, r1, r2, r3, u1

MCOwner == [s \in Sessions |-> u1]

MCNone == {}
=============================================================================
