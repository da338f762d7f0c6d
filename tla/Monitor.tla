------------------------------- MODULE Monitor -------------------------------
(***************************************************************************)
(* What locks and condition variables promise (the comments above          *)
(* lock_init(), cond_wait(), cond_signal() and cond_broadcast() in         *)
(* threads/synch.c): a "Mesa" monitor.  One thread owns the lock; waiting  *)
(* releases it in the same instant; a signal lets one of the waiters go,   *)
(* any of them, which owns the lock again when it returns; nobody returns  *)
(* unsignalled.                                                            *)
(***************************************************************************)
CONSTANTS Thread, NoThread, Cond

VARIABLES
  owner,
  waiting,   \* who waits for each condition
  returning  \* who was signalled and is not back yet

vars == <<owner, waiting, returning>>

Init ==
  /\ owner = NoThread
  /\ waiting = [c \in Cond |-> {}]
  /\ returning = {}

Outside(t) == t \notin returning /\ \A c \in Cond : t \notin waiting[c]

Enter(t) ==
  /\ owner = NoThread /\ Outside(t)
  /\ owner' = t /\ UNCHANGED <<waiting, returning>>

Leave(t) ==
  /\ owner = t
  /\ owner' = NoThread /\ UNCHANGED <<waiting, returning>>

Wait(t, c) ==
  /\ owner = t
  /\ owner' = NoThread
  /\ waiting' = [waiting EXCEPT ![c] = @ \cup {t}]
  /\ UNCHANGED returning

Signal(t, c) ==
  /\ owner = t
  /\ \E w \in waiting[c] :
       /\ waiting' = [waiting EXCEPT ![c] = @ \ {w}]
       /\ returning' = returning \cup {w}
  /\ UNCHANGED owner

Return(t) ==
  /\ owner = NoThread /\ t \in returning
  /\ owner' = t /\ returning' = returning \ {t}
  /\ UNCHANGED waiting

Next ==
  \E t \in Thread :
    \/ Enter(t) \/ Leave(t) \/ Return(t)
    \/ \E c \in Cond : Wait(t, c) \/ Signal(t, c)

Spec == Init /\ [][Next]_vars
=============================================================================
