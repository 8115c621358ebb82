----------------------------- MODULE MCAccounts -----------------------------
(* Instance of Accounts for TLC: two of the default users.  Registrations ask
   for the name of one of them or for another one, with the email of either
   or with their own. *)
EXTENDS Accounts, TLC

CONSTANTS x1, x2, x3, s1, s2

MCDefaults == << [name |-> "admin", email |-> "admin@", role |-> "admin"],
                 [name |-> "operator1", email |-> "operator1@",
                  role |-> "operator"] >>

WriterSymmetry == Permutations(Registrations) \cup Permutations(Runs)
=============================================================================
