-------------------------- MODULE MCBusinessStore --------------------------
(* Instance of BusinessStore for TLC: an employee, and two readings of one
   reactor, are there before. *)
EXTENDS BusinessStore

CONSTANTS q1, q2, q3, employee, reading1, reading2, n1, a1, a2

MCSeeded == [d \in {employee, reading1, reading2} |->
               [coll |-> IF d = employee THEN "personnel" ELSE "reactor_parameters",
                name |-> n1, second |-> IF d = employee THEN a1 ELSE None]]
=============================================================================
