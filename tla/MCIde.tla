-------------------------------- MODULE MCIde --------------------------------
(* Two partitions side by side on one disk and a disk of one partition.      *)
EXTENDS Ide, TLC

CONSTANTS hda1, hda2, hdb1

MCPlace == (hda1 :> [disk |-> 0, start |-> 0, size |-> 1])
        @@ (hda2 :> [disk |-> 0, start |-> 1, size |-> 1])
        @@ (hdb1 :> [disk |-> 1, start |-> 0, size |-> 1])
=============================================================================
