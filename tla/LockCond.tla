------------------------------ MODULE LockCond ------------------------------
(***************************************************************************)
(* A lock and its condition variables (threads/synch.c of project 3), over *)
(* semaphores: the one in the lock, and one on the stack of each thread    *)
(* that is in cond_wait().                                                 *)
(*                                                                         *)
(* A semaphore function runs with interrupts off and is a step (of         *)
(* sema_down(), a turn of its loop); between two of them, and between one  *)
(* and an assignment to `holder', any other thread may run.                *)
(***************************************************************************)
EXTENDS KernelList, FiniteSets

CONSTANTS
  Thread, NoThread,
  Cond, NoCond,
  Pri           \* priority of each thread

ASSUME LockCondAssumption ==
  /\ NoThread \notin Thread /\ NoCond \notin Cond
  /\ IsFiniteSet(Thread) /\ Pri \in [Thread -> Nat]

VARIABLES
  holder,       \* struct lock: its holder, and its semaphore
  value, waiters,
  cond_waiters, \* struct condition: the threads of its semaphore_elems
  sem,          \* value of each thread's own semaphore_elem
  blocked,      \* the threads that are blocked
  pc,           \* where each thread stands
  on,           \* the condition of the cond_wait() a thread is in
  target,       \* the thread cond_signal() has taken from the list
  all           \* the condition of the cond_broadcast() a thread is in

lockVars == <<holder, value, waiters>>
condVars == <<cond_waiters, sem>>
vars == <<lockVars, condVars, blocked, pc, on, target, all>>

Location ==
  {"out",       \* without the lock
   "down",      \* lock_acquire(): in the loop of sema_down()
   "own",       \* after it, before holder = thread_current ()
   "in",        \* with the lock
   "drop",      \* lock_release(): after holder = NULL, before sema_up()
   "sleep",     \* cond_wait(): in sema_down (&waiter.semaphore)
   "signal",    \* cond_signal(): after list_pop_front(), before sema_up()
   "broadcast"} \* cond_broadcast(): in its loop

TypeOK ==
  /\ holder \in Thread \cup {NoThread} /\ value \in {0, 1}
  /\ waiters \in Seq(Thread) /\ blocked \subseteq Thread
  /\ cond_waiters \in [Cond -> Seq(Thread)] /\ sem \in [Thread -> {0, 1}]
  /\ pc \in [Thread -> Location]
  /\ on \in [Thread -> Cond \cup {NoCond}] /\ all \in [Thread -> Cond \cup {NoCond}]
  /\ target \in [Thread -> Thread \cup {NoThread}]

\* lock_init(), cond_init()
Init ==
  /\ holder = NoThread /\ value = 1 /\ waiters = <<>>
  /\ cond_waiters = [c \in Cond |-> <<>>] /\ sem = [t \in Thread |-> 0]
  /\ blocked = {} /\ pc = [t \in Thread |-> "out"]
  /\ on = [t \in Thread |-> NoCond] /\ all = [t \in Thread |-> NoCond]
  /\ target = [t \in Thread |-> NoThread]

Goto(t, l) == pc' = [pc EXCEPT ![t] = l]

-----------------------------------------------------------------------------
(* Locks *)

\* priority_comp: high priorities first.
Key == [t \in Thread |-> -Pri[t]]

\* lock_acquire(), or its last call in cond_wait(), reaches sema_down().
LockAcquire(t) ==
  /\ pc[t] = "out" /\ Goto(t, "down")
  /\ UNCHANGED <<lockVars, condVars, blocked, on, target, all>>

\* lock_try_acquire() of a free lock.
LockTryAcquire(t) ==
  /\ pc[t] = "out" /\ value > 0
  /\ value' = value - 1 /\ Goto(t, "own")
  /\ UNCHANGED <<holder, waiters, condVars, blocked, on, target, all>>

\* sema_down (&lock->semaphore), from its test to the next.
SemaDown(t) ==
  /\ pc[t] = "down" /\ t \notin blocked
  /\ \/ /\ value = 0
        /\ waiters' = ListInsertOrdered(waiters, t, Key) /\ blocked' = blocked \cup {t}
        /\ UNCHANGED <<value, pc>>
     \/ /\ value > 0
        /\ value' = value - 1 /\ Goto(t, "own") /\ UNCHANGED <<waiters, blocked>>
  /\ UNCHANGED <<holder, condVars, on, target, all>>

\* lock_acquire() or cond_wait() returns.
SetHolder(t) ==
  /\ pc[t] = "own"
  /\ holder' = t /\ on' = [on EXCEPT ![t] = NoCond] /\ Goto(t, "in")
  /\ UNCHANGED <<value, waiters, condVars, blocked, target, all>>

\* lock_release()
LockRelease(t) ==
  /\ pc[t] = "in"
  /\ holder' = NoThread /\ Goto(t, "drop")
  /\ UNCHANGED <<value, waiters, condVars, blocked, on, target, all>>

\* Mutant: the waiter is given nothing to take.
SemaUpQuiet(t) ==
  /\ pc[t] = "drop"
  /\ value' = 1 /\ UNCHANGED <<waiters, blocked>>
  /\ Goto(t, IF on[t] = NoCond THEN "out" ELSE "sleep")
  /\ UNCHANGED <<holder, condVars, on, target, all>>

\* sema_up (&lock->semaphore)
SemaUp(t) ==
  /\ pc[t] = "drop"
  /\ value' = value + 1
  /\ IF waiters = <<>> THEN UNCHANGED <<waiters, blocked>>
     ELSE waiters' = Tail(waiters) /\ blocked' = blocked \ {Head(waiters)}
  /\ Goto(t, IF on[t] = NoCond THEN "out" ELSE "sleep")
  /\ UNCHANGED <<holder, condVars, on, target, all>>

-----------------------------------------------------------------------------
(* Condition variables *)

\* Mutant: the lock is released and the thread not yet on the list.
CondWaitLate(t, c) ==
  /\ pc[t] = "in"
  /\ sem' = [sem EXCEPT ![t] = 0] /\ on' = [on EXCEPT ![t] = c]
  /\ holder' = NoThread /\ Goto(t, "drop")
  /\ UNCHANGED <<value, waiters, cond_waiters, blocked, target, all>>

\* cond_wait(), up to the assignment in lock_release().
CondWait(t, c) ==
  /\ pc[t] = "in"
  /\ sem' = [sem EXCEPT ![t] = 0]
  /\ cond_waiters' = [cond_waiters EXCEPT ![c] = Append(@, t)]
  /\ on' = [on EXCEPT ![t] = c]
  /\ holder' = NoThread /\ Goto(t, "drop")
  /\ UNCHANGED <<value, waiters, blocked, target, all>>

\* sema_down (&waiter.semaphore)
SleepDown(t) ==
  /\ pc[t] = "sleep" /\ t \notin blocked
  /\ \/ sem[t] = 0 /\ blocked' = blocked \cup {t} /\ UNCHANGED <<sem, pc>>
     \/ sem[t] > 0 /\ sem' = [sem EXCEPT ![t] = @ - 1] /\ Goto(t, "down") /\ UNCHANGED blocked
  /\ UNCHANGED <<lockVars, cond_waiters, on, target, all>>

\* cond_signal() takes the first waiter from the list.
PopWaiter(t, c) ==
  /\ cond_waiters[c] # <<>>
  /\ cond_waiters' = [cond_waiters EXCEPT ![c] = Tail(@)]
  /\ target' = [target EXCEPT ![t] = Head(cond_waiters[c])]
  /\ Goto(t, "signal")
  /\ UNCHANGED <<lockVars, sem, blocked, on>>

CondSignal(t, c) == pc[t] = "in" /\ PopWaiter(t, c) /\ UNCHANGED all

CondBroadcast(t, c) ==
  /\ pc[t] = "in" /\ PopWaiter(t, c)
  /\ all' = [all EXCEPT ![t] = c]

BroadcastNext(t) == pc[t] = "broadcast" /\ PopWaiter(t, all[t]) /\ UNCHANGED all

BroadcastEnd(t) ==
  /\ pc[t] = "broadcast" /\ cond_waiters[all[t]] = <<>>
  /\ all' = [all EXCEPT ![t] = NoCond] /\ Goto(t, "in")
  /\ UNCHANGED <<lockVars, condVars, blocked, on, target>>

\* Mutant: a thread that is not asleep yet misses the signal.
SignalAsleep(t) ==
  /\ pc[t] = "signal"
  /\ sem' = IF target[t] \in blocked THEN [sem EXCEPT ![target[t]] = @ + 1] ELSE sem
  /\ blocked' = blocked \ {target[t]}
  /\ target' = [target EXCEPT ![t] = NoThread]
  /\ Goto(t, IF all[t] = NoCond THEN "in" ELSE "broadcast")
  /\ UNCHANGED <<lockVars, cond_waiters, on, all>>

\* sema_up() of that waiter's semaphore.
SignalUp(t) ==
  /\ pc[t] = "signal"
  /\ sem' = [sem EXCEPT ![target[t]] = @ + 1]
  /\ blocked' = blocked \ {target[t]}
  /\ target' = [target EXCEPT ![t] = NoThread]
  /\ Goto(t, IF all[t] = NoCond THEN "in" ELSE "broadcast")
  /\ UNCHANGED <<lockVars, cond_waiters, on, all>>

\* What a thread in one of the functions does next.
Continue(t) ==
  \/ SemaDown(t) \/ SetHolder(t) \/ SemaUp(t) \/ SleepDown(t)
  \/ BroadcastNext(t) \/ BroadcastEnd(t) \/ SignalUp(t)

Next ==
  \E t \in Thread :
    \/ LockAcquire(t) \/ LockTryAcquire(t) \/ LockRelease(t)
    \/ \E c \in Cond : CondWait(t, c) \/ CondSignal(t, c) \/ CondBroadcast(t, c)
    \/ Continue(t)

Spec == Init /\ [][Next]_vars

\* A thread that can go on does (round robin, or aging of ready threads).  Who
\* has the lock need not release it.
FairSpec == Spec /\ \A t \in Thread : WF_vars(Continue(t))

-----------------------------------------------------------------------------
(* Properties *)

Waiting   == [c \in Cond |-> ToSet(cond_waiters[c])]
Waits(t)  == \E c \in Cond : t \in ToSet(cond_waiters[c])
Signalled == {t \in Thread : on[t] # NoCond /\ ~Waits(t)}

\* The lock and its conditions are a monitor: cond_wait() releases and waits at
\* once though it is many steps, a signal lets one of the waiting threads go
\* (cond_signal() promises no more; which one is not said here), and it returns
\* with the lock.
MonitorRefined ==
  INSTANCE Monitor WITH owner <- holder, waiting <- Waiting, returning <- Signalled
MesaMonitor == MonitorRefined!Spec

\* The lock's semaphore is in one place: free, or with one thread between
\* sema_down() and sema_up(), which `holder' names while it is safe to read it.
\* While it is free and threads wait, one of them has been woken to take it.
InLock == {"own", "in", "drop", "signal", "broadcast"}
LockAccounted ==
  /\ TypeOK
  /\ value + Cardinality({t \in Thread : pc[t] \in InLock}) = 1
  /\ \A t \in Thread : holder = t <=> pc[t] \in {"in", "signal", "broadcast"}
  /\ value = 1 /\ waiters # <<>> => \E t \in Thread : pc[t] = "down" /\ t \notin blocked
  /\ Ordered(waiters, Key)

\* A signal is not lost, also when it comes before its thread has gone to sleep
\* in cond_wait(): who is taken from the list goes for the lock again.
SignalReaches ==
  \A t \in Thread : t \in Signalled ~> pc[t] \in {"down", "own", "in"}

-----------------------------------------------------------------------------
(* The inductive invariant of the proofs *)

\* The semaphore's unit is free, or with the one thread that is in the lock.
OneInside ==
  /\ \A t, u \in Thread : pc[t] \in InLock /\ pc[u] \in InLock => t = u
  /\ value = 1 <=> \A t \in Thread : pc[t] \notin InLock

HolderInside == \A t \in Thread : holder = t <=> pc[t] \in {"in", "signal", "broadcast"}

LockQueue ==
  /\ IsInjective(waiters) /\ Ordered(waiters, Key)
  /\ \A t \in ToSet(waiters) : pc[t] = "down" /\ t \in blocked
  /\ value = 1 /\ waiters # <<>> => \E t \in Thread : pc[t] = "down" /\ t \notin blocked

CondQueues ==
  \A c \in Cond :
    /\ IsInjective(cond_waiters[c])
    /\ \A t \in ToSet(cond_waiters[c]) : on[t] = c /\ pc[t] \in {"drop", "sleep"} /\ sem[t] = 0

\* Where a thread may stand with what it has set.
Calls ==
  \A t \in Thread :
    /\ on[t] # NoCond => pc[t] \in {"drop", "sleep", "down", "own"}
    /\ pc[t] = "sleep" => on[t] # NoCond
    /\ pc[t] = "drop" /\ on[t] # NoCond => t \in ToSet(cond_waiters[on[t]])
    /\ pc[t] = "broadcast" => all[t] # NoCond
    /\ sem[t] = 1 => pc[t] = "sleep" /\ t \notin blocked

\* Who sleeps in cond_wait() is on a list, or was taken off by a thread that will
\* up its semaphore, or that semaphore is up and the thread awake.
SleeperKept ==
  /\ \A u \in Thread : pc[u] = "signal" =>
       /\ target[u] \in Thread /\ pc[target[u]] = "sleep"
       /\ ~Waits(target[u]) /\ sem[target[u]] = 0
  /\ \A t \in Thread : pc[t] = "sleep" =>
       Waits(t) \/ sem[t] = 1 \/ \E u \in Thread : pc[u] = "signal" /\ target[u] = t

LockCondInv ==
  TypeOK /\ OneInside /\ HolderInside /\ LockQueue /\ CondQueues /\ Calls /\ SleeperKept
=============================================================================
