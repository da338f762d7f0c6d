---------------------------- MODULE MCThreadSched ----------------------------
(***************************************************************************)
(* Model values and symmetry for the runs of ThreadSched.                  *)
(***************************************************************************)
EXTENDS ThreadSched

Symmetry == Permutations(Worker) \cup Permutations(Sema)

=============================================================================
