------------------------------ MODULE MCMlfqs ------------------------------
(* Three threads, and the nice values they start with.                       *)
EXTENDS Mlfqs, TLC

CONSTANTS a, b, c

Three    == <<a, b, c>>
Graded   == (a :> 0) @@ (b :> 5) @@ (c :> 10)
CallNice == {-20, 20}
=============================================================================
