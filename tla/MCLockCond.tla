----------------------------- MODULE MCLockCond -----------------------------
(* Four threads of three priorities.                                        *)
EXTENDS LockCond, TLC

CONSTANTS low1, low2, mid, high

MCPri == (low1 :> 1) @@ (low2 :> 1) @@ (mid :> 2) @@ (high :> 3)
=============================================================================
