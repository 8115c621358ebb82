------------------------------ MODULE MCSeeder ------------------------------
(* Instance of Seeder for TLC: two runs on the seven collections as they are. *)
EXTENDS SeedData, Seeder, TLC

CONSTANTS r1, r2

RunSymmetry == Permutations(Runs)
=============================================================================
