------------------------------- MODULE MCHeap -------------------------------
(* Threads are alike.                                                       *)
EXTENDS Heap

Alike == Permutations(Caller)
=============================================================================
