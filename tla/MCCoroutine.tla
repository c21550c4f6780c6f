---------------------------- MODULE MCCoroutine ----------------------------
(* Model checking of the coroutine switch. *)
EXTENDS Coroutine, TLC

\* Error codes are zero or negative (include/lawd/error.h).
Codes == {0, -1}

\* Task objects, and contents of registers, are interchangeable.
Symmetry == Permutations(Task) \cup Permutations(Content)
=============================================================================
