------------------------------ MODULE MCFileSys ------------------------------
(* Two processes that run two executables; the second name is only a file   *)
(* of data in the instances with one executable.                            *)
EXTENDS FileSys, TLC

CONSTANTS p1, p2, n1, n2

OneProgram  == <<n1>>
MCImage     == (p1 :> n1) @@ (p2 :> n1)

\* Processes with the same executable, and memory, are alike.
Alike == Permutations(Proc) \cup Permutations(Inode) \cup Permutations(File)
=============================================================================
