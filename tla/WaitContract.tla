----------------------------- MODULE WaitContract -----------------------------
(***************************************************************************)
(* What wait promises, without saying how: the comment above               *)
(* process_wait() in userprog/process.c, as a state machine.  A process    *)
(* ends with a status; its parent, and only its parent, is told that       *)
(* status, once, and not before the end; every other wait gets -1 at once. *)
(***************************************************************************)
EXTENDS Integers

CONSTANTS
  Task,    \* the processes there may be
  First,   \* the one that exists at the start
  NoTask,  \* an identifier of no process
  Status   \* exit statuses

VARIABLES
  life,    \* of each process: unborn, running, exited, then collected
  parent,
  code,    \* the status it ended with
  answer   \* what its last wait returned

contractVars == <<life, parent, code, answer>>

Init ==
  /\ life = [t \in Task |-> IF t = First THEN "running" ELSE "unborn"]
  /\ parent = [t \in Task |-> First]
  /\ code = [t \in Task |-> 0]
  /\ answer = [t \in Task |-> 0]

Uncollected(t, c) ==
  c \in Task /\ parent[c] = t /\ life[c] \in {"running", "exited"}

Spawn(t, c) ==
  /\ life[t] = "running" /\ life[c] = "unborn"
  /\ life' = [life EXCEPT ![c] = "running"]
  /\ parent' = [parent EXCEPT ![c] = t]
  /\ UNCHANGED <<code, answer>>

Exit(t, s) ==
  /\ life[t] = "running"
  /\ life' = [life EXCEPT ![t] = "exited"]
  /\ code' = [code EXCEPT ![t] = s]
  /\ UNCHANGED <<parent, answer>>

\* A wait that returns the status of child c.
Collect(t, c) ==
  /\ life[t] = "running" /\ Uncollected(t, c) /\ life[c] = "exited"
  /\ life' = [life EXCEPT ![c] = "collected"]
  /\ answer' = [answer EXCEPT ![t] = code[c]]
  /\ UNCHANGED <<parent, code>>

\* A wait for anything else.
Refuse(t, c) ==
  /\ life[t] = "running" /\ ~Uncollected(t, c)
  /\ answer' = [answer EXCEPT ![t] = -1]
  /\ UNCHANGED <<life, parent, code>>

Next ==
  \E t \in Task :
    \/ \E c \in Task : Spawn(t, c) \/ Collect(t, c)
    \/ \E c \in Task \cup {NoTask} : Refuse(t, c)
    \/ \E s \in Status : Exit(t, s)

Spec == Init /\ [][Next]_contractVars
=============================================================================
