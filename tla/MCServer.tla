------------------------------ MODULE MCServer ------------------------------
(* Model checking of the server's threads. *)
EXTENDS Server, TLC

\* Task objects are interchangeable (safety runs only).
TaskSymmetry == Permutations(Task)
=============================================================================
