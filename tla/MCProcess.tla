----------------------------- MODULE MCProcess -----------------------------
(***************************************************************************)
(* Values for model checking Process: what programs do.                     *)
(***************************************************************************)
EXTENDS Process

MCCodes == {1}

AllCalls  == {"exec", "badexec", "wait", "file", "exit", "fault", "kill"}
WaitCalls == {"exec", "wait", "exit"}
=============================================================================
