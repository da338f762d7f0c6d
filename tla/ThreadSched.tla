----------------------------- MODULE ThreadSched -----------------------------
(***************************************************************************)
(* The kernel scheduler of project 3 with the two things that block a      *)
(* thread, semaphores and the alarm clock: threads/thread.c, the semaphore *)
(* half of threads/synch.c, devices/timer.c and the end of intr_handler()  *)
(* in threads/interrupt.c.                                                 *)
(*                                                                         *)
(* One CPU.  Code that runs with interrupts off is one step; code that     *)
(* runs with them on is cut where a timer interrupt can fall between two   *)
(* accesses to shared state, and pc says where each thread stands.  The    *)
(* timer interrupt handler is a chain of steps (`handler') during which    *)
(* no thread moves, because interrupts stay off until it returns.          *)
(***************************************************************************)
EXTENDS KernelList, FiniteSets

CONSTANTS
  Worker,         \* pages thread_create() may get for new threads
  Main, Idle,     \* initial_thread and idle_thread
  NoThread,
  Sema,           \* the semaphores threads share
  TidLock,        \* the semaphore inside tid_lock
  NoSema,
  InitValue,      \* value the semaphores of Sema start with
  MaxValue,       \* bound: largest value of a semaphore of Sema
  PriMin, PriMax, PriDefault,
  NewPriority,    \* priorities passed to thread_create, thread_set_priority
  SleepTicks,     \* durations passed to timer_sleep()
  MaxTicks,       \* bound: the tick count stops there
  TimeSlice,      \* TIME_SLICE
  PriorityPeriod, \* ticks between two calls of update_priority()
  IntMax,         \* largest value of an int
  Aging,          \* thread_prior_aging
  Mlfqs           \* thread_mlfqs

Thread    == Worker \cup {Main, Idle}
Semaphore == Sema \cup {TidLock}
Pri       == PriMin .. PriMax
NoPri     == PriMin - 1

ASSUME ThreadAssumption ==
  /\ Main \notin Worker /\ Idle \notin Worker /\ Main # Idle
  /\ NoThread \notin Thread
  /\ IsFiniteSet(Worker)

ASSUME SemaAssumption ==
  /\ TidLock \notin Sema /\ NoSema \notin Semaphore
  /\ InitValue \in Nat /\ MaxValue \in Nat /\ InitValue <= MaxValue

ASSUME PriorityAssumption ==
  /\ PriMin \in Nat /\ PriMax \in Nat /\ PriDefault \in Pri
  /\ NewPriority \subseteq Pri
  /\ Aging \in BOOLEAN /\ Mlfqs \in BOOLEAN

ASSUME TimeAssumption ==
  /\ SleepTicks \subseteq Int
  /\ MaxTicks \in Nat /\ IntMax \in Nat
  /\ TimeSlice \in Nat \ {0} /\ PriorityPeriod \in Nat \ {0}

VARIABLES
  status,          \* struct thread.status; "free": the page is not a thread
  priority,        \* struct thread.priority
  ready_list,
  current,         \* running_thread()
  sleep_list,
  alarm_ticks,     \* struct thread.alarm_ticks, an int
  sema_value,      \* struct semaphore.value
  sema_waiters,    \* struct semaphore.waiters
  ticks,           \* timer.c: ticks, an int64_t
  thread_ticks,
  yield_on_return,
  handler,         \* where the timer interrupt handler stands, "none": nowhere
  pc,              \* where each thread stands in the kernel code
  waiting_for,     \* sema_down(): its argument
  child,           \* thread_create(): the thread it is creating
  new_pri,         \* thread_set_priority(): its argument
  wake_at          \* timer_sleep(): start + ticks

schedVars == <<status, ready_list, current, thread_ticks>>
semaVars  == <<sema_value, sema_waiters>>
timeVars  == <<ticks, yield_on_return, handler>>
sleepVars == <<sleep_list, alarm_ticks, wake_at>>
localVars == <<pc, waiting_for, child, new_pri>>
vars      == <<schedVars, priority, semaVars, timeVars, sleepVars, localVars>>

Status  == {"free", "running", "ready", "blocked", "dying"}
Handler == {"none", "alarm", "update", "return"}
Location ==
  {"run",                              \* in the thread's own function
   "down",                             \* sema_down(): in its while loop
   "create", "tid", "unblock",         \* thread_create(): before, inside and
                                       \* after allocate_tid()
   "yield",                            \* about to call thread_yield()
   "test", "max",                      \* thread_set_priority(), _set_nice()
   "sleep",                            \* timer_sleep(): has read the clock
   "loop", "hlt"}                      \* idle(): before intr_disable(), in hlt

TypeOK ==
  /\ status \in [Thread -> Status]
  /\ priority \in [Thread -> Pri]
  /\ ready_list \in Seq(Thread)
  /\ current \in Thread
  /\ sleep_list \in Seq(Thread)
  /\ alarm_ticks \in [Thread -> Int]
  /\ sema_value \in [Semaphore -> Nat]
  /\ sema_waiters \in [Semaphore -> Seq(Thread)]
  /\ ticks \in 0 .. MaxTicks
  /\ thread_ticks \in Nat
  /\ yield_on_return \in BOOLEAN
  /\ handler \in Handler
  /\ pc \in [Thread -> Location]
  /\ waiting_for \in [Thread -> Semaphore \cup {NoSema}]
  /\ child \in [Thread -> Thread \cup {NoThread}]
  /\ new_pri \in [Thread -> Pri \cup {NoPri}]
  /\ wake_at \in [Thread -> Int]

(***************************************************************************)
(* The system as thread_start() leaves it: idle() has run up to its loop,  *)
(* main runs, no other thread exists.                                      *)
(***************************************************************************)
Init ==
  /\ status = [t \in Thread |-> IF t = Main THEN "running"
                                ELSE IF t = Idle THEN "ready" ELSE "free"]
  /\ priority = [t \in Thread |-> IF t = Main THEN PriDefault ELSE PriMin]
  /\ ready_list = <<>>
  /\ current = Main
  /\ sleep_list = <<>>
  /\ alarm_ticks = [t \in Thread |-> 0]
  /\ sema_value = [s \in Semaphore |-> IF s = TidLock THEN 1 ELSE InitValue]
  /\ sema_waiters = [s \in Semaphore |-> <<>>]
  /\ ticks = 0
  /\ thread_ticks = 0
  /\ yield_on_return = FALSE
  /\ handler = "none"
  /\ pc = [t \in Thread |-> IF t = Idle THEN "loop" ELSE "run"]
  /\ waiting_for = [t \in Thread |-> NoSema]
  /\ child = [t \in Thread |-> NoThread]
  /\ new_pri = [t \in Thread |-> NoPri]
  /\ wake_at = [t \in Thread |-> 0]

-----------------------------------------------------------------------------
(***************************************************************************)
(* Scheduling                                                              *)
(***************************************************************************)
\* priority_comp() as a key: high priorities first.
Rank(pri) == [t \in Thread |-> -pri[t]]

EnterReady(l, t) == ListInsertOrdered(l, t, Rank(priority))

(***************************************************************************)
(* schedule() and thread_schedule_tail(), entered with ready list l and    *)
(* statuses st, in which the caller is no longer running: the head of the  *)
(* ready list runs, or idle_thread; a thread that was dying is destroyed.  *)
(***************************************************************************)
Schedule(l, st) ==
  LET next  == IF l = <<>> THEN Idle ELSE Head(l)
      freed == st[current] = "dying" /\ current # Main
      st2   == IF freed THEN [st EXCEPT ![current] = "free"] ELSE st
  IN  /\ current' = next
      /\ ready_list' = IF l = <<>> THEN <<>> ELSE Tail(l)
      /\ status' = [st2 EXCEPT ![next] = "running"]
      /\ thread_ticks' = 0

\* thread_block()
ThreadBlock == Schedule(ready_list, [status EXCEPT ![current] = "blocked"])

\* thread_yield(), entered with ready list l and statuses st.
ThreadYield(l, st) ==
  Schedule(IF current = Idle THEN l ELSE EnterReady(l, current),
           [st EXCEPT ![current] = "ready"])

\* Thread t runs, outside the interrupt handler, and stands at loc.
At(t, loc) == handler = "none" /\ current = t /\ pc[t] = loc

Goto(t, loc) == pc' = [pc EXCEPT ![t] = loc]

\* A voluntary thread_yield(), or the one that ends thread_create() and
\* thread_set_priority().
Yield(t) ==
  /\ At(t, "run") \/ At(t, "yield")
  /\ Goto(t, "run")
  /\ ThreadYield(ready_list, status)
  /\ UNCHANGED <<priority, semaVars, timeVars, sleepVars, waiting_for, child,
                 new_pri>>

(***************************************************************************)
(* thread_exit(): the page goes back to the allocator (its content is dead *)
(* and is normalised), except initial_thread's.                            *)
(***************************************************************************)
ThreadExit(t) ==
  /\ At(t, "run")
  /\ Schedule(ready_list, [status EXCEPT ![t] = "dying"])
  /\ priority' = [priority EXCEPT ![t] = PriMin]
  /\ UNCHANGED <<semaVars, timeVars, sleepVars, localVars>>

-----------------------------------------------------------------------------
(***************************************************************************)
(* Semaphores                                                              *)
(***************************************************************************)
\* What sema_down(s) returns to: allocate_tid() for tid_lock.
AfterDown(s) == IF s = TidLock THEN "tid" ELSE "run"

\* Mutant: first come, first served.
EnterWaitersFifo(l, t) == Append(l, t)

EnterWaiters(l, t) == ListInsertOrdered(l, t, Rank(priority))

\* One turn of the while loop of sema_down(s), interrupts off.
DownTurn(t, s) ==
  \/ /\ sema_value[s] = 0
     /\ sema_waiters' = [sema_waiters EXCEPT ![s] = EnterWaiters(@, t)]
     /\ waiting_for' = [waiting_for EXCEPT ![t] = s]
     /\ Goto(t, "down")
     /\ ThreadBlock
     /\ UNCHANGED <<priority, sema_value, timeVars, sleepVars, child, new_pri>>
  \/ /\ sema_value[s] > 0
     /\ sema_value' = [sema_value EXCEPT ![s] = @ - 1]
     /\ waiting_for' = [waiting_for EXCEPT ![t] = NoSema]
     /\ Goto(t, AfterDown(s))
     /\ UNCHANGED <<schedVars, priority, sema_waiters, timeVars, sleepVars,
                    child, new_pri>>

SemaDown(t, s) == At(t, "run") /\ DownTurn(t, s)

\* Mutant: sema_down() with `if' in place of `while'.
SemaDownOnce(t) ==
  LET s == waiting_for[t]
  IN  /\ At(t, "down")
      /\ sema_value' = [sema_value EXCEPT ![s] = @ - 1]
      /\ waiting_for' = [waiting_for EXCEPT ![t] = NoSema]
      /\ Goto(t, AfterDown(s))
      /\ UNCHANGED <<schedVars, priority, sema_waiters, timeVars, sleepVars,
                     child, new_pri>>

\* A woken thread tests the value again: another one may have taken it.
SemaDownAgain(t) == At(t, "down") /\ DownTurn(t, waiting_for[t])

\* sema_try_down(), when it succeeds; when it fails it changes nothing.
SemaTryDown(t, s) ==
  /\ At(t, "run")
  /\ sema_value[s] > 0
  /\ sema_value' = [sema_value EXCEPT ![s] = @ - 1]
  /\ UNCHANGED <<schedVars, priority, sema_waiters, timeVars, sleepVars,
                 localVars>>

\* Mutant: sema_up() that wakes only when the value was zero.
UpFromZero(t, s, loc) ==
  /\ sema_value' = [sema_value EXCEPT ![s] = @ + 1]
  /\ Goto(t, loc)
  /\ \/ /\ sema_waiters[s] = <<>> \/ sema_value[s] > 0
        /\ ThreadYield(ready_list, status)
        /\ UNCHANGED sema_waiters
     \/ /\ sema_waiters[s] # <<>> /\ sema_value[s] = 0
        /\ sema_waiters' = [sema_waiters EXCEPT ![s] = Tail(@)]
        /\ LET first == Head(sema_waiters[s])
           IN  ThreadYield(EnterReady(ready_list, first),
                           [status EXCEPT ![first] = "ready"])
  /\ UNCHANGED <<priority, timeVars, sleepVars, waiting_for, child, new_pri>>

\* Mutant: sema_up() with list_front() in place of list_pop_front().
UpKeepsWaiter(t, s, loc) ==
  /\ sema_value' = [sema_value EXCEPT ![s] = @ + 1]
  /\ Goto(t, loc)
  /\ LET first == Head(sema_waiters[s])
     IN  IF sema_waiters[s] = <<>>
         THEN ThreadYield(ready_list, status)
         ELSE ThreadYield(EnterReady(ready_list, first),
                          [status EXCEPT ![first] = "ready"])
  /\ UNCHANGED <<priority, sema_waiters, timeVars, sleepVars, waiting_for,
                 child, new_pri>>

\* sema_up(s): wakes the first waiter and always yields; t goes on at loc.
Up(t, s, loc) ==
  /\ sema_value' = [sema_value EXCEPT ![s] = @ + 1]
  /\ Goto(t, loc)
  /\ \/ /\ sema_waiters[s] = <<>>
        /\ ThreadYield(ready_list, status)
        /\ UNCHANGED sema_waiters
     \/ /\ sema_waiters[s] # <<>>
        /\ sema_waiters' = [sema_waiters EXCEPT ![s] = Tail(@)]
        /\ LET first == Head(sema_waiters[s])
           IN  ThreadYield(EnterReady(ready_list, first),
                           [status EXCEPT ![first] = "ready"])
  /\ UNCHANGED <<priority, timeVars, sleepVars, waiting_for, child, new_pri>>

SemaUp(t, s) ==
  /\ At(t, "run")
  /\ sema_value[s] < MaxValue
  /\ Up(t, s, "run")

-----------------------------------------------------------------------------
(***************************************************************************)
(* thread_create(): init_thread(), then allocate_tid() under tid_lock,     *)
(* then thread_unblock(), then thread_yield().                             *)
(***************************************************************************)
ThreadCreate(t, w, p) ==
  /\ At(t, "run")
  /\ status[w] = "free"
  /\ status' = [status EXCEPT ![w] = "blocked"]
  /\ priority' = [priority EXCEPT ![w] = p]
  /\ child' = [child EXCEPT ![t] = w]
  /\ Goto(t, "create")
  /\ UNCHANGED <<ready_list, current, thread_ticks, semaVars, timeVars,
                 sleepVars, waiting_for, new_pri>>

\* Mutant: lock_try_acquire() in place of lock_acquire(), its result ignored.
AllocateTidTry(t) ==
  /\ At(t, "create")
  /\ sema_value' = [sema_value EXCEPT ![TidLock] = IF @ > 0 THEN @ - 1 ELSE @]
  /\ Goto(t, "tid")
  /\ UNCHANGED <<schedVars, priority, sema_waiters, timeVars, sleepVars,
                 waiting_for, child, new_pri>>

AllocateTid(t) == At(t, "create") /\ DownTurn(t, TidLock)

AllocateTidDone(t) == At(t, "tid") /\ Up(t, TidLock, "unblock")

\* Mutant: thread_create() without its thread_yield().
UnblockChildOnly(t) ==
  /\ At(t, "unblock")
  /\ ready_list' = EnterReady(ready_list, child[t])
  /\ status' = [status EXCEPT ![child[t]] = "ready"]
  /\ child' = [child EXCEPT ![t] = NoThread]
  /\ Goto(t, "run")
  /\ UNCHANGED <<current, thread_ticks, priority, semaVars, timeVars,
                 sleepVars, waiting_for, new_pri>>

UnblockChild(t) ==
  /\ At(t, "unblock")
  /\ ready_list' = EnterReady(ready_list, child[t])
  /\ status' = [status EXCEPT ![child[t]] = "ready"]
  /\ child' = [child EXCEPT ![t] = NoThread]
  /\ Goto(t, "yield")
  /\ UNCHANGED <<current, thread_ticks, priority, semaVars, timeVars,
                 sleepVars, waiting_for, new_pri>>

-----------------------------------------------------------------------------
(***************************************************************************)
(* thread_set_priority() and thread_set_nice(): the assignment, then       *)
(* list_empty(), then max_priority_in_ready(), with interrupts on: a timer *)
(* interrupt may fall between any two of them.  What new_priority() makes  *)
(* of a nice value is left open here.                                      *)
(***************************************************************************)
ThreadSetPriority(t, p) ==
  /\ At(t, "run")
  /\ priority' = [priority EXCEPT ![t] = p]
  /\ new_pri' = [new_pri EXCEPT ![t] = p]
  /\ Goto(t, "test")
  /\ UNCHANGED <<schedVars, semaVars, timeVars, sleepVars, waiting_for, child>>

ThreadSetNice(t, p) ==
  /\ Mlfqs
  /\ At(t, "run")
  /\ priority' = [priority EXCEPT ![t] = p]
  /\ Goto(t, "test")
  /\ UNCHANGED <<schedVars, semaVars, timeVars, sleepVars, waiting_for, child,
                 new_pri>>

TestEmpty(t) ==
  /\ At(t, "test")
  /\ IF ready_list = <<>>
     THEN Goto(t, "run") /\ new_pri' = [new_pri EXCEPT ![t] = NoPri]
     ELSE Goto(t, "max") /\ UNCHANGED new_pri
  /\ UNCHANGED <<schedVars, priority, semaVars, timeVars, sleepVars,
                 waiting_for, child>>

(***************************************************************************)
(* thread_set_priority() compares its argument, thread_set_nice() the      *)
(* priority it reads again.  If the list was emptied since TestEmpty, the  *)
(* element read is the list's tail and its priority is garbage.            *)
(***************************************************************************)
TestMax(t) ==
  LET mine == IF new_pri[t] = NoPri THEN priority[t] ELSE new_pri[t]
  IN  /\ At(t, "max")
      /\ \E loc \in {"run", "yield"} :
           /\ ready_list # <<>> =>
                (loc = "yield" <=> mine < priority[Head(ready_list)])
           /\ Goto(t, loc)
      /\ new_pri' = [new_pri EXCEPT ![t] = NoPri]
      /\ UNCHANGED <<schedVars, priority, semaVars, timeVars, sleepVars,
                     waiting_for, child>>

-----------------------------------------------------------------------------
(***************************************************************************)
(* The alarm clock.  timer_sleep() reads the clock before it disables      *)
(* interrupts, and stores an int64_t deadline in an int.                   *)
(***************************************************************************)
\* Conversion of an int64_t to an int of IntMax + 1 non-negative values.
ToInt(x) == ((x + IntMax + 1) % (2 * (IntMax + 1))) - (IntMax + 1)

TimerSleep(t, n) ==
  /\ At(t, "run")
  /\ ticks + n <= MaxTicks
  /\ wake_at' = [wake_at EXCEPT ![t] = ticks + n]
  /\ Goto(t, "sleep")
  /\ UNCHANGED <<schedVars, priority, semaVars, timeVars, sleep_list,
                 alarm_ticks, waiting_for, child, new_pri>>

ThreadSleep(t) ==
  /\ At(t, "sleep")
  /\ alarm_ticks' = [alarm_ticks EXCEPT ![t] = ToInt(wake_at[t])]
  /\ sleep_list' = ListInsertOrdered(sleep_list, t, alarm_ticks')
  /\ Goto(t, "run")
  /\ ThreadBlock
  /\ UNCHANGED <<priority, semaVars, timeVars, wake_at, waiting_for, child,
                 new_pri>>

-----------------------------------------------------------------------------
(***************************************************************************)
(* idle(): intr_disable() and thread_block(); it runs again when the ready *)
(* list is empty, and `sti; hlt' lets nothing in but an interrupt.         *)
(***************************************************************************)
IdleBlock ==
  /\ At(Idle, "loop")
  /\ Goto(Idle, "hlt")
  /\ ThreadBlock
  /\ UNCHANGED <<priority, semaVars, timeVars, sleepVars, waiting_for, child,
                 new_pri>>

-----------------------------------------------------------------------------
(***************************************************************************)
(* The timer interrupt.                                                    *)
(***************************************************************************)
\* A thread that is in the loop of sema_down() has interrupts off.
IntrOn == handler = "none" /\ pc[current] # "down"

\* intr_handler() up to timer_interrupt(): ticks++ and thread_tick().
TimerInterrupt ==
  /\ IntrOn
  /\ handler' = "alarm"
  /\ ticks' = IF ticks < MaxTicks THEN ticks + 1 ELSE ticks
  /\ thread_ticks' = thread_ticks + 1
  /\ yield_on_return' = (thread_ticks + 1 >= TimeSlice)
  /\ pc' = IF pc[current] = "hlt" THEN [pc EXCEPT ![current] = "loop"] ELSE pc
  /\ UNCHANGED <<status, ready_list, current, priority, semaVars, sleepVars,
                 waiting_for, child, new_pri>>

(***************************************************************************)
(* thread_alarm(): one turn of its loop.  The deadline is dead once the    *)
(* thread is awake, and is normalised.                                     *)
(***************************************************************************)
\* Mutants: one tick too early, one tick too late, on the very tick only.
AlarmSoon  == sleep_list # <<>> /\ alarm_ticks[Head(sleep_list)] <= ticks + 1
AlarmPast  == sleep_list # <<>> /\ alarm_ticks[Head(sleep_list)] < ticks
AlarmExact == sleep_list # <<>> /\ alarm_ticks[Head(sleep_list)] = ticks

AlarmDue == sleep_list # <<>> /\ alarm_ticks[Head(sleep_list)] <= ticks

ThreadAlarmWake ==
  LET t == Head(sleep_list)
  IN  /\ handler = "alarm"
      /\ AlarmDue
      /\ sleep_list' = Tail(sleep_list)
      /\ ready_list' = EnterReady(ready_list, t)
      /\ status' = [status EXCEPT ![t] = "ready"]
      /\ alarm_ticks' = [alarm_ticks EXCEPT ![t] = 0]
      /\ wake_at' = [wake_at EXCEPT ![t] = 0]
      /\ UNCHANGED <<current, thread_ticks, priority, semaVars, timeVars,
                     localVars>>

\* thread_alarm(): its end, which asks for a yield whoever was woken.
ThreadAlarmDone ==
  /\ handler = "alarm"
  /\ ~AlarmDue
  /\ yield_on_return' = TRUE
  /\ handler' = "update"
  /\ UNCHANGED <<ticks, schedVars, priority, semaVars, sleepVars, localVars>>

\* Mutant: no aging.
NotAged == priority

\* thread_priority_aging(): its effect on the priorities.
Aged ==
  [t \in Thread |->
     IF Aging /\ t \in ToSet(ready_list) /\ priority[t] < PriMax
     THEN priority[t] + 1 ELSE priority[t]]

(***************************************************************************)
(* The end of timer_interrupt(): thread_priority_aging(), and every        *)
(* PriorityPeriod ticks update_priority(), which gives every thread of     *)
(* all_list a new priority, whatever it is doing, and sorts the ready list *)
(* only.  Both ask for a yield when the running thread is outranked.       *)
(***************************************************************************)
Outranked(l, pri) == l # <<>> /\ pri[current] < pri[Head(l)]

UpdateDue == Mlfqs /\ ticks % PriorityPeriod = 0

PriorityUpdate ==
  /\ handler = "update"
  /\ \/ /\ ~UpdateDue
        /\ priority' = Aged
        /\ UNCHANGED ready_list
     \/ /\ UpdateDue
        /\ \E p \in [Thread -> Pri] :
             priority' = [t \in Thread |-> IF status[t] \in {"free", "dying"}
                                           THEN priority[t] ELSE p[t]]
        /\ ready_list' \in ListSortResults(ready_list, Rank(priority'))
  /\ yield_on_return' =
       \/ yield_on_return
       \/ Aging /\ Outranked(ready_list, Aged)
       \/ UpdateDue /\ Outranked(ready_list', priority')
  /\ handler' = "return"
  /\ UNCHANGED <<ticks, status, current, thread_ticks, semaVars, sleepVars,
                 localVars>>

\* intr_handler(): its end.
IntrReturn ==
  /\ handler = "return"
  /\ handler' = "none"
  /\ IF yield_on_return THEN ThreadYield(ready_list, status)
                        ELSE UNCHANGED schedVars
  /\ UNCHANGED <<ticks, yield_on_return, priority, semaVars, sleepVars,
                 localVars>>

HandlerStep ==
  ThreadAlarmWake \/ ThreadAlarmDone \/ PriorityUpdate \/ IntrReturn

ThreadStep(t) ==
  \/ Yield(t) \/ ThreadExit(t)
  \/ \E s \in Sema : SemaDown(t, s) \/ SemaTryDown(t, s) \/ SemaUp(t, s)
  \/ SemaDownAgain(t)
  \/ \E w \in Worker, p \in NewPriority : ThreadCreate(t, w, p)
  \/ AllocateTid(t) \/ AllocateTidDone(t) \/ UnblockChild(t)
  \/ \E p \in NewPriority : ThreadSetPriority(t, p)
  \/ \E p \in Pri : ThreadSetNice(t, p)
  \/ TestEmpty(t) \/ TestMax(t)
  \/ \E n \in SleepTicks : TimerSleep(t, n)
  \/ ThreadSleep(t)

Next ==
  \/ \E t \in Thread : ThreadStep(t)
  \/ IdleBlock
  \/ TimerInterrupt
  \/ HandlerStep

Spec == Init /\ [][Next]_vars

(***************************************************************************)
(* The interrupt controller keeps a tick pending while interrupts are off, *)
(* so a tick that can be taken again and again is taken.  The handler and  *)
(* the loop of sema_down() run with interrupts off: nothing can stop them. *)
(* Threads themselves need not do anything.                                *)
(***************************************************************************)
FairSpec ==
  /\ Spec
  /\ SF_vars(TimerInterrupt)
  /\ WF_vars(HandlerStep)
  /\ WF_vars(\E t \in Thread : SemaDownAgain(t))

-----------------------------------------------------------------------------
(***************************************************************************)
(* Properties                                                              *)
(***************************************************************************)
\* All lists that link threads through their elem member.
Newborn == {child[t] : t \in Thread} \ {NoThread}

(***************************************************************************)
(* struct thread.elem serves the ready list, the sleep list and every      *)
(* waiters list (thread.h says the uses are mutually exclusive).  Every    *)
(* ready thread is once in ready_list; every blocked one is once in        *)
(* exactly one other list, so that someone can wake it, unless it is being *)
(* created or is the idle thread; no other thread is in a list.            *)
(***************************************************************************)
ElemExclusive ==
  /\ IsInjective(ready_list)
  /\ IsInjective(sleep_list)
  /\ \A s \in Semaphore : IsInjective(sema_waiters[s])
  /\ ToSet(ready_list) = {t \in Thread \ {Idle} : status[t] = "ready"}
  /\ \A s \in Semaphore :
       ToSet(sema_waiters[s]) =
         {t \in Thread : status[t] = "blocked" /\ waiting_for[t] = s}
  /\ ToSet(sleep_list) =
       {t \in Thread : /\ status[t] = "blocked"
                       /\ t \notin Newborn \cup {Idle}
                       /\ waiting_for[t] = NoSema}

(***************************************************************************)
(* list_insert_ordered() needs a sorted list.  The ready list is sorted by *)
(* priority at all times, through aging and through update_priority().     *)
(***************************************************************************)
ReadySorted == Ordered(ready_list, Rank(priority))

\* The same for the sleep list and the wake-up ticks.
SleepSorted == Ordered(sleep_list, alarm_ticks)

(***************************************************************************)
(* The same for the waiters of a semaphore: sema_up() wakes the one with   *)
(* the highest priority.                                                   *)
(***************************************************************************)
WaitersSorted ==
  \A s \in Semaphore : Ordered(sema_waiters[s], Rank(priority))

(***************************************************************************)
(* Preemption: outside the handler, the running thread has the highest     *)
(* priority of all runnable threads and idle runs only when there is none, *)
(* except in the windows before the yield that restores it.                *)
(***************************************************************************)
Preemptive ==
  ( /\ handler = "none"
    /\ pc[current] \notin {"yield", "test", "max"}
    /\ ready_list # <<>> ) =>
       current # Idle /\ priority[current] >= priority[Head(ready_list)]

\* tid_lock: allocate_tid() runs in at most one thread at a time.
InAllocateTid == {t \in Thread : pc[t] = "tid"}
TidExclusive  == Cardinality(InAllocateTid) + sema_value[TidLock] = 1

(***************************************************************************)
(* No lost wake-up: while threads wait for a semaphore, every unit of its  *)
(* value has a woken thread that is on its way to take it; and the unit of *)
(* a lock (that of allocate_tid()) is free or with one thread.             *)
(***************************************************************************)
Woken(s) ==
  {t \in Thread : waiting_for[t] = s /\ status[t] \in {"ready", "running"}}

NoLostWakeup ==
  /\ TidExclusive
  /\ \A s \in Semaphore :
       sema_waiters[s] # <<>> => sema_value[s] <= Cardinality(Woken(s))

(***************************************************************************)
(* timer_sleep() never returns early: a thread leaves the sleep list at    *)
(* the tick it asked for or later.                                         *)
(***************************************************************************)
NeverEarly ==
  [][\A t \in Thread :
       t \in ToSet(sleep_list) \ ToSet(sleep_list') => ticks >= wake_at[t]]_vars

(***************************************************************************)
(* ... nor does it oversleep: when thread_alarm() ends, nobody whose tick  *)
(* has come is still in the sleep list.                                    *)
(***************************************************************************)
NoOversleep ==
  handler \in {"update", "return"} =>
    \A t \in ToSet(sleep_list) : alarm_ticks[t] > ticks

(***************************************************************************)
(* Priority aging keeps every ready thread from starving.                  *)
(***************************************************************************)
NoStarvation ==
  \A t \in Thread \ {Idle} : status[t] = "ready" ~> status[t] = "running"

\* Every sleeper is woken.
SleepersWake ==
  \A t \in Thread : t \in ToSet(sleep_list) ~> t \notin ToSet(sleep_list)

-----------------------------------------------------------------------------
(***************************************************************************)
(* The strengthening of the invariants above that every step preserves.    *)
(***************************************************************************)
\* Exactly one thread runs.
OneRunning ==
  /\ status[current] = "running"
  /\ \A t \in Thread : status[t] = "running" => t = current

\* Where a thread may stand in the code, given its state and its locals.
Locations ==
  /\ pc[Idle] \in {"loop", "hlt"}
  /\ status[Idle] \in {"running", "ready", "blocked"}
  /\ \A t \in Thread :
       /\ t # Idle => pc[t] \notin {"loop", "hlt"}
       /\ pc[t] = "down" <=> waiting_for[t] # NoSema
       /\ status[t] = "free" => t \in Worker /\ pc[t] = "run"
       /\ status[t] = "dying" => t = Main /\ pc[t] = "run"
       /\ new_pri[t] # NoPri => pc[t] \in {"test", "max"}

\* thread_create(): a thread under construction is blocked and has a creator.
Creating(t) ==
  \/ pc[t] \in {"create", "tid", "unblock"}
  \/ pc[t] = "down" /\ waiting_for[t] = TidLock

Construction ==
  /\ \A t \in Thread :
       /\ child[t] # NoThread <=> Creating(t)
       /\ child[t] # NoThread => /\ child[t] \in Worker
                                 /\ status[child[t]] = "blocked"
                                 /\ pc[child[t]] = "run"
  /\ \A t, u \in Thread : child[t] = child[u] /\ child[t] # NoThread => t = u

(***************************************************************************)
(* Once thread_alarm() is over the interrupt ends in a yield.  And a       *)
(* thread inside thread_set_priority() either has not been preempted since *)
(* its assignment, and then what it compares is its priority, or was given *)
(* the CPU again as a thread of the highest priority.                      *)
(***************************************************************************)
YieldFlag == handler \in {"update", "return"} => yield_on_return

TestIsFresh ==
  ( /\ handler = "none"
    /\ pc[current] \in {"test", "max"}
    /\ ready_list # <<>> ) =>
       \/ new_pri[current] \in {NoPri, priority[current]}
       \/ priority[current] >= priority[Head(ready_list)]

SchedInv ==
  /\ TypeOK /\ OneRunning /\ Locations /\ Construction
  /\ ElemExclusive /\ ReadySorted
  /\ YieldFlag /\ TestIsFresh /\ Preemptive
  /\ SleepSorted /\ NoOversleep

=============================================================================
