------------------------- MODULE ThreadSched_proofs --------------------------
(***************************************************************************)
(* Proofs about ThreadSched, for every number of threads and semaphores,   *)
(* every range of priorities and every bound.                              *)
(***************************************************************************)
EXTENDS ThreadSched, KernelList_proofs

LEMMA RankType ==
  ASSUME NEW p \in [Thread -> Pri]
  PROVE  /\ Rank(p) \in [Thread -> Int]
         /\ \A t \in Thread : Rank(p)[t] = -p[t] /\ p[t] \in Int
BY PriorityAssumption DEF Rank, Pri

\* What thread_unblock() and thread_yield() do to the ready list.
LEMMA EnterReadyFacts ==
  ASSUME priority \in [Thread -> Pri],
         NEW l \in Seq(Thread), NEW t \in Thread,
         IsInjective(l), t \notin ToSet(l), Ordered(l, Rank(priority))
  PROVE  LET r == EnterReady(l, t)
         IN  /\ r \in Seq(Thread) /\ r # <<>>
             /\ ToSet(r) = ToSet(l) \cup {t}
             /\ IsInjective(r)
             /\ Ordered(r, Rank(priority))
<1>1. Rank(priority) \in [Thread -> Int]
  BY RankType
<1> QED
  BY <1>1, InsertOrdered DEF EnterReady

(***************************************************************************)
(* schedule(), entered with a ready list that agrees with the statuses:    *)
(* afterwards it agrees again, one thread runs, and no ready thread has a  *)
(* higher priority.                                                        *)
(***************************************************************************)
Agree(l, st) ==
  /\ l \in Seq(Thread) /\ st \in [Thread -> Status]
  /\ IsInjective(l)
  /\ ToSet(l) = {t \in Thread \ {Idle} : st[t] = "ready"}
  /\ Ordered(l, Rank(priority))

LEMMA ScheduleFacts ==
  ASSUME current \in Thread, priority \in [Thread -> Pri],
         NEW l, NEW st, Agree(l, st),
         \A t \in Thread : st[t] # "running",
         st[Idle] \in {"ready", "blocked"},
         Schedule(l, st)
  PROVE  /\ current' \in Thread
         /\ ready_list' \in Seq(Thread)
         /\ status' \in [Thread -> Status]
         /\ thread_ticks' \in Nat
         /\ OneRunning'
         /\ st[current'] = "ready" \/ current' = Idle
         /\ \A t \in Thread : t # current' =>
              status'[t] = IF t = current /\ st[t] = "dying" /\ t # Main
                           THEN "free" ELSE st[t]
         /\ IsInjective(ready_list')
         /\ ToSet(ready_list') = {t \in Thread \ {Idle} : status'[t] = "ready"}
         /\ Ordered(ready_list', Rank(priority))
         /\ ready_list' # <<>> => /\ current' # Idle
                                  /\ priority[current'] >= priority[Head(ready_list')]
<1> DEFINE next == IF l = <<>> THEN Idle ELSE Head(l)
           freed == st[current] = "dying" /\ current # Main
           st2 == IF freed THEN [st EXCEPT ![current] = "free"] ELSE st
<1>1. /\ current' = next
      /\ ready_list' = IF l = <<>> THEN <<>> ELSE Tail(l)
      /\ status' = [st2 EXCEPT ![next] = "running"]
      /\ thread_ticks' = 0
  BY DEF Schedule
<1>2. /\ l \in Seq(Thread) /\ st \in [Thread -> Status] /\ IsInjective(l)
      /\ ToSet(l) = {t \in Thread \ {Idle} : st[t] = "ready"}
      /\ Ordered(l, Rank(priority))
  BY DEF Agree
<1>3. Rank(priority) \in [Thread -> Int]
  BY RankType
<1>4. l # <<>> =>
        /\ Head(l) \in Thread
        /\ Head(l) \in ToSet(l)
        /\ Tail(l) \in Seq(Thread)
        /\ ToSet(l) = ToSet(Tail(l)) \cup {Head(l)}
        /\ IsInjective(Tail(l)) /\ Head(l) \notin ToSet(Tail(l))
        /\ Ordered(Tail(l), Rank(priority))
        /\ \A x \in ToSet(l) : Rank(priority)[Head(l)] <= Rank(priority)[x]
  BY <1>2, <1>3, PopFront
<1>5. Idle \in Thread /\ {"running", "free"} \subseteq Status
  BY DEF Thread, Status
<1>6. next \in Thread /\ (st[next] = "ready" \/ next = Idle)
  BY <1>2, <1>4, <1>5
<1>7. /\ st2 \in [Thread -> Status]
      /\ st2[next] = st[next]
      /\ \A t \in Thread : st2[t] # "running"
      /\ \A t \in Thread : st2[t] = IF t = current /\ st[t] = "dying" /\ t # Main
                                    THEN "free" ELSE st[t]
      /\ \A t \in Thread : st2[t] = "ready" <=> st[t] = "ready"
  <2>1. CASE freed
    <3>1. st2 = [st EXCEPT ![current] = "free"]
      BY <2>1
    <3>2. next # current
      BY <2>1, <1>2, <1>6
    <3> QED
      BY <2>1, <3>1, <3>2, <1>2, <1>5, <1>6
  <2>2. CASE ~freed
    <3>1. st2 = st
      BY <2>2
    <3> QED
      BY <2>2, <3>1, <1>2
  <2> QED
    BY <2>1, <2>2
<1> HIDE DEF st2, next
<1>8. /\ status' \in [Thread -> Status] /\ status'[next] = "running"
      /\ \A t \in Thread : t # next => status'[t] = st2[t]
  BY <1>1, <1>5, <1>6, <1>7
<1>9. /\ ready_list' \in Seq(Thread) /\ IsInjective(ready_list')
      /\ ToSet(ready_list') = ToSet(l) \ {next}
      /\ Ordered(ready_list', Rank(priority))
  <2>1. CASE l = <<>>
    <3>1. ready_list' = <<>> /\ ToSet(<<>>) = {} /\ IsInjective(<<>>)
          /\ Ordered(<<>>, Rank(priority))
      BY <2>1, <1>1 DEF ToSet, IsInjective, Ordered
    <3> QED
      BY <2>1, <3>1
  <2>2. CASE l # <<>>
    BY <2>2, <1>1, <1>4 DEF next
  <2> QED
    BY <2>1, <2>2
<1>10. ToSet(ready_list') = {t \in Thread \ {Idle} : status'[t] = "ready"}
  <2>1. ASSUME NEW t \in Thread \ {Idle}
        PROVE  t \in ToSet(l) \ {next} <=> status'[t] = "ready"
    BY <1>2, <1>7, <1>8
  <2>2. ToSet(l) \ {next} \subseteq Thread \ {Idle}
    BY <1>2
  <2> QED
    BY <2>1, <2>2, <1>9
<1>11. OneRunning'
  BY <1>1, <1>6, <1>7, <1>8 DEF OneRunning
<1>12. ASSUME ready_list' # <<>>
       PROVE  next # Idle /\ priority[next] >= priority[Head(ready_list')]
  <2>1. l # <<>> /\ next = Head(l)
    BY <1>1, <1>12 DEF next
  <2>2. Head(ready_list') \in ToSet(ready_list')
    BY <1>3, <1>9, <1>12, PopFront
  <2>3. Head(ready_list') \in ToSet(l) /\ Head(ready_list') \in Thread
    BY <2>2, <1>9, <1>10
  <2>4. Rank(priority)[next] <= Rank(priority)[Head(ready_list')]
    BY <2>1, <2>3, <1>4
  <2>5. priority[next] >= priority[Head(ready_list')]
    BY <2>3, <2>4, <1>6, RankType
  <2> QED
    BY <2>1, <2>5, <1>2, <1>4
<1> QED
  BY <1>1, <1>6, <1>7, <1>8, <1>9, <1>10, <1>11, <1>12

-----------------------------------------------------------------------------
(***************************************************************************)
(* What is left of schedule() once its caller only cares which threads are *)
(* where: `st' are the statuses it was entered with.                       *)
(***************************************************************************)
HighestRuns ==
  ready_list # <<>> =>
    current # Idle /\ priority[current] >= priority[Head(ready_list)]

ReadyElems ==
  /\ IsInjective(ready_list)
  /\ ToSet(ready_list) = {t \in Thread \ {Idle} : status[t] = "ready"}

WaiterElems ==
  \A s \in Semaphore :
    /\ IsInjective(sema_waiters[s])
    /\ ToSet(sema_waiters[s]) =
         {t \in Thread : status[t] = "blocked" /\ waiting_for[t] = s}

SleepElems ==
  /\ IsInjective(sleep_list)
  /\ ToSet(sleep_list) = {t \in Thread : /\ status[t] = "blocked"
                                         /\ t \notin Newborn \cup {Idle}
                                         /\ waiting_for[t] = NoSema}

Dispatched(st) ==
  /\ current' \in Thread
  /\ ready_list' \in Seq(Thread)
  /\ status' \in [Thread -> Status]
  /\ thread_ticks' \in Nat
  /\ OneRunning'
  /\ ReadyElems'
  /\ Ordered(ready_list', Rank(priority))
  /\ ready_list' # <<>> => /\ current' # Idle
                           /\ priority[current'] >= priority[Head(ready_list')]
  /\ \A t \in Thread \ {Idle} : status'[t] = "blocked" <=> st[t] = "blocked"
  /\ \A t \in Thread : status'[t] = "free" =>
       st[t] = "free" \/ (st[t] = "dying" /\ t = current /\ t # Main)
  /\ \A t \in Thread : status'[t] = "dying" =>
       st[t] = "dying" /\ ~(t = current /\ t # Main)
  /\ status'[Idle] \in {"running", "ready", "blocked"}
  /\ current' = current => st[current] = "ready" \/ current = Idle

LEMMA ScheduleDispatches ==
  ASSUME current \in Thread, priority \in [Thread -> Pri],
         NEW l, NEW st, Agree(l, st),
         \A t \in Thread : st[t] # "running",
         st[Idle] \in {"ready", "blocked"},
         Schedule(l, st)
  PROVE  Dispatched(st)
<1>1. /\ current' \in Thread
      /\ ready_list' \in Seq(Thread)
      /\ status' \in [Thread -> Status]
      /\ thread_ticks' \in Nat
      /\ OneRunning'
      /\ ReadyElems'
      /\ Ordered(ready_list', Rank(priority))
      /\ ready_list' # <<>> => /\ current' # Idle
                               /\ priority[current'] >= priority[Head(ready_list')]
  BY ScheduleFacts DEF ReadyElems
<1>2. \A t \in Thread : t # current' =>
        status'[t] = IF t = current /\ st[t] = "dying" /\ t # Main
                     THEN "free" ELSE st[t]
  BY ScheduleFacts
<1>3. status'[current'] = "running" /\ (st[current'] = "ready" \/ current' = Idle)
  BY ScheduleFacts DEF OneRunning
<1>4. Idle \in Thread /\ Idle # Main
  BY ThreadAssumption DEF Thread
<1> QED
  BY <1>1, <1>2, <1>3, <1>4 DEF Dispatched

LEMMA Agreement ==
  ASSUME SchedInv
  PROVE  Agree(ready_list, status)
BY DEF SchedInv, TypeOK, ElemExclusive, ReadySorted, Agree

\* thread_block()
LEMMA BlockDispatches ==
  ASSUME SchedInv, ThreadBlock
  PROVE  Dispatched([status EXCEPT ![current] = "blocked"])
<1> DEFINE st == [status EXCEPT ![current] = "blocked"]
<1>1. /\ current \in Thread /\ priority \in [Thread -> Pri]
      /\ status \in [Thread -> Status] /\ status[current] = "running"
      /\ \A t \in Thread : status[t] = "running" => t = current
      /\ status[Idle] \in {"running", "ready", "blocked"}
  BY DEF SchedInv, TypeOK, OneRunning, Locations
<1>2. /\ st \in [Thread -> Status]
      /\ \A t \in Thread : st[t] # "running"
      /\ \A t \in Thread : st[t] = "ready" <=> status[t] = "ready"
      /\ st[Idle] \in {"ready", "blocked"}
  BY <1>1, ThreadAssumption DEF Status, Thread
<1>3. Agree(ready_list, st)
  BY <1>2, Agreement DEF Agree
<1>4. Schedule(ready_list, st)
  BY DEF ThreadBlock
<1> QED
  BY <1>1, <1>2, <1>3, <1>4, ScheduleDispatches

\* thread_yield()
LEMMA YieldDispatches ==
  ASSUME current \in Thread, priority \in [Thread -> Pri],
         NEW l, NEW st, Agree(l, st), st[current] = "running",
         \A t \in Thread : st[t] = "running" => t = current,
         st[Idle] \in {"running", "ready", "blocked"},
         ThreadYield(l, st)
  PROVE  Dispatched([st EXCEPT ![current] = "ready"])
<1> DEFINE st2 == [st EXCEPT ![current] = "ready"]
           l2  == IF current = Idle THEN l ELSE EnterReady(l, current)
<1>1. /\ st2 \in [Thread -> Status]
      /\ \A t \in Thread : st2[t] # "running"
      /\ \A t \in Thread : st2[t] = "ready" <=> st[t] = "ready" \/ t = current
      /\ st2[Idle] \in {"ready", "blocked"}
  BY ThreadAssumption DEF Agree, Status, Thread
<1>2. Agree(l2, st2)
  <2>1. CASE current = Idle
    <3>1. {t \in Thread \ {Idle} : st2[t] = "ready"} =
            {t \in Thread \ {Idle} : st[t] = "ready"}
      BY <2>1, <1>1
    <3> QED
      BY <2>1, <3>1, <1>1 DEF Agree
  <2>2. CASE current # Idle
    <3>1. /\ l \in Seq(Thread) /\ IsInjective(l) /\ current \notin ToSet(l)
          /\ Ordered(l, Rank(priority))
      BY DEF Agree
    <3>2. LET r == EnterReady(l, current)
          IN  /\ r \in Seq(Thread) /\ r # <<>>
              /\ ToSet(r) = ToSet(l) \cup {current}
              /\ IsInjective(r)
              /\ Ordered(r, Rank(priority))
      BY <3>1, EnterReadyFacts
    <3>3. {t \in Thread \ {Idle} : st2[t] = "ready"} =
            {t \in Thread \ {Idle} : st[t] = "ready"} \cup {current}
      BY <2>2, <1>1
    <3> HIDE DEF st2
    <3>4. l2 = EnterReady(l, current)
      BY <2>2
    <3> QED
      BY <3>2, <3>3, <3>4, <1>1 DEF Agree
  <2> QED
    BY <2>1, <2>2
<1>3. Schedule(l2, st2)
  BY DEF ThreadYield
<1> QED
  BY <1>1, <1>2, <1>3, ScheduleDispatches

\* thread_unblock()
LEMMA WakeAgrees ==
  ASSUME priority \in [Thread -> Pri], NEW l, NEW st, Agree(l, st),
         NEW w \in Thread \ {Idle}, st[w] = "blocked"
  PROVE  Agree(EnterReady(l, w), [st EXCEPT ![w] = "ready"])
<1>1. /\ l \in Seq(Thread) /\ IsInjective(l) /\ w \notin ToSet(l)
      /\ Ordered(l, Rank(priority)) /\ w \in Thread
  BY DEF Agree
<1>2. LET r == EnterReady(l, w)
      IN  /\ r \in Seq(Thread) /\ r # <<>>
          /\ ToSet(r) = ToSet(l) \cup {w}
          /\ IsInjective(r)
          /\ Ordered(r, Rank(priority))
  BY <1>1, EnterReadyFacts
<1> DEFINE st2 == [st EXCEPT ![w] = "ready"]
<1>3. /\ st2 \in [Thread -> Status]
      /\ {t \in Thread \ {Idle} : st2[t] = "ready"} =
           {t \in Thread \ {Idle} : st[t] = "ready"} \cup {w}
  BY DEF Agree, Status
<1> HIDE DEF st2
<1>4. Agree(EnterReady(l, w), st2)
  BY <1>2, <1>3 DEF Agree
<1> QED
  BY <1>4 DEF st2

-----------------------------------------------------------------------------
(***************************************************************************)
(* Steps that leave blocked threads alone keep the lists of blocked        *)
(* threads in agreement with their state.                                  *)
(***************************************************************************)
SameBlocked ==
  \A t \in Thread \ {Idle} : status'[t] = "blocked" <=> status[t] = "blocked"

LEMMA WaitersFrame ==
  ASSUME SchedInv, SameBlocked, UNCHANGED sema_waiters,
         \A t \in Thread : t = Idle \/ status[t] = "blocked" =>
            waiting_for'[t] = waiting_for[t]
  PROVE  WaiterElems'
<1>1. waiting_for[Idle] = NoSema /\ Idle \in Thread
  BY DEF SchedInv, Locations, Thread
<1>2. NoSema \notin Semaphore
  BY SemaAssumption
<1>3. WaiterElems
  BY DEF SchedInv, ElemExclusive, WaiterElems
<1> QED
  BY <1>1, <1>2, <1>3 DEF WaiterElems, SameBlocked

LEMMA SleepFrame ==
  ASSUME SchedInv, SameBlocked, UNCHANGED <<sleep_list, child>>,
         \A t \in Thread : status[t] = "blocked" => waiting_for'[t] = waiting_for[t]
  PROVE  SleepElems'
<1>1. SleepElems
  BY DEF SchedInv, ElemExclusive, SleepElems
<1>2. Newborn' = Newborn
  BY DEF Newborn
<1> QED
  BY <1>1, <1>2 DEF SleepElems, SameBlocked

-----------------------------------------------------------------------------
(***************************************************************************)
(* One lemma for each action: it preserves SchedInv.                       *)
(***************************************************************************)
LEMMA ElemParts ==
  ASSUME ReadyElems', WaiterElems', SleepElems'
  PROVE  ElemExclusive'
BY DEF ReadyElems, WaiterElems, SleepElems, ElemExclusive

\* A dispatch restores preemption, whatever was going on before it.
LEMMA DispatchOrders ==
  ASSUME NEW st, Dispatched(st), UNCHANGED priority
  PROVE  OneRunning' /\ ReadySorted' /\ Preemptive' /\ TestIsFresh'
<1>1. Rank(priority') = Rank(priority)
  OBVIOUS
<1> QED
  BY <1>1 DEF Dispatched, ReadySorted, Preemptive, TestIsFresh

\* The running thread, outside the interrupt handler.
LEMMA RunningThread ==
  ASSUME SchedInv, NEW t \in Thread, t = current
  PROVE  /\ status[t] = "running"
         /\ t \notin ToSet(ready_list)
         /\ t \notin ToSet(sleep_list)
         /\ \A s \in Semaphore : t \notin ToSet(sema_waiters[s])
         /\ t \notin Newborn
         /\ \A u \in Thread : status[u] = "running" => u = t
<1>1. status[t] = "running" /\ \A u \in Thread : status[u] = "running" => u = t
  BY DEF SchedInv, OneRunning
<1>2. t \notin Newborn
  BY <1>1 DEF SchedInv, Construction, Newborn
<1> QED
  BY <1>1, <1>2 DEF SchedInv, ElemExclusive

LEMMA YieldInv ==
  ASSUME SchedInv, NEW t \in Thread, Yield(t)
  PROVE  SchedInv'
<1>1. /\ handler = "none" /\ current = t /\ pc[t] \in {"run", "yield"}
      /\ pc' = [pc EXCEPT ![t] = "run"]
      /\ ThreadYield(ready_list, status)
      /\ UNCHANGED <<priority, sema_value, sema_waiters, ticks,
                     yield_on_return, handler, sleep_list, alarm_ticks,
                     wake_at, waiting_for, child, new_pri>>
  BY DEF Yield, At, Goto, semaVars, timeVars, sleepVars
<1> DEFINE st == [status EXCEPT ![current] = "ready"]
<1>2. /\ status[t] = "running"
      /\ \A u \in Thread : status[u] = "running" => u = t
      /\ current \in Thread /\ priority \in [Thread -> Pri]
      /\ status \in [Thread -> Status]
      /\ status[Idle] \in {"running", "ready", "blocked"}
  BY <1>1, RunningThread DEF SchedInv, TypeOK, Locations
<1>3. Dispatched(st)
  BY <1>1, <1>2, Agreement, YieldDispatches
<1>4. SameBlocked
  BY <1>1, <1>2, <1>3 DEF Dispatched, SameBlocked
<1>5. OneRunning' /\ ReadySorted' /\ Preemptive' /\ TestIsFresh'
  BY <1>1, <1>3, DispatchOrders
<1>6. ElemExclusive'
  <2>1. ReadyElems'
    BY <1>3 DEF Dispatched
  <2>2. WaiterElems'
    BY <1>1, <1>4, WaitersFrame
  <2>3. SleepElems'
    BY <1>1, <1>4, SleepFrame
  <2> QED
    BY <2>1, <2>2, <2>3, ElemParts
<1>7. TypeOK'
  BY <1>1, <1>3 DEF SchedInv, TypeOK, Dispatched, Location
<1>8. Locations'
  <2>1. \A u \in Thread : status'[u] = "free" => status[u] = "free"
    BY <1>1, <1>2, <1>3 DEF Dispatched
  <2>2. \A u \in Thread : status'[u] = "dying" => status[u] = "dying"
    BY <1>1, <1>2, <1>3 DEF Dispatched
  <2>3. status'[Idle] \in {"running", "ready", "blocked"}
    BY <1>3 DEF Dispatched
  <2> QED
    BY <1>1, <1>2, <2>1, <2>2, <2>3 DEF SchedInv, Locations, TypeOK
<1>9. Construction'
  BY <1>1, <1>2, <1>4, ThreadAssumption
     DEF SchedInv, Construction, Creating, SameBlocked, TypeOK, Thread
<1>10. YieldFlag' /\ SleepSorted' /\ NoOversleep'
  BY <1>1 DEF SchedInv, YieldFlag, SleepSorted, NoOversleep
<1> QED
  BY <1>5, <1>6, <1>7, <1>8, <1>9, <1>10 DEF SchedInv
LEMMA ThreadExitInv ==
  ASSUME SchedInv, NEW t \in Thread, ThreadExit(t)
  PROVE  SchedInv'
<1> DEFINE st == [status EXCEPT ![t] = "dying"]
<1>1. /\ handler = "none" /\ current = t /\ pc[t] = "run"
      /\ Schedule(ready_list, st)
      /\ priority' = [priority EXCEPT ![t] = PriMin]
      /\ UNCHANGED <<sema_value, sema_waiters, ticks, yield_on_return, handler,
                     sleep_list, alarm_ticks, wake_at, pc, waiting_for, child,
                     new_pri>>
  BY DEF ThreadExit, At, semaVars, timeVars, sleepVars, localVars
<1>2. /\ status[t] = "running"
      /\ \A u \in Thread : status[u] = "running" => u = t
      /\ current \in Thread /\ priority \in [Thread -> Pri]
      /\ status \in [Thread -> Status]
      /\ status[Idle] \in {"running", "ready", "blocked"}
      /\ t # Idle
  BY <1>1, RunningThread DEF SchedInv, TypeOK, Locations
<1>3. Dispatched(st)
  <2>1. /\ st \in [Thread -> Status]
        /\ \A u \in Thread : st[u] # "running"
        /\ \A u \in Thread : st[u] = "ready" <=> status[u] = "ready"
        /\ st[Idle] \in {"ready", "blocked"}
    BY <1>2, ThreadAssumption DEF Status, Thread
  <2>2. Agree(ready_list, st)
    BY <2>1, Agreement DEF Agree
  <2> QED
    BY <1>1, <1>2, <2>1, <2>2, ScheduleDispatches
<1>4. SameBlocked
  BY <1>1, <1>2, <1>3 DEF Dispatched, SameBlocked
<1>5. current' # t /\ t \notin ToSet(ready_list')
  <2>1. current' # t
    BY <1>1, <1>2, <1>3 DEF Dispatched
  <2>2. st[t] = "dying" /\ status'[t] # "ready"
    BY <1>1, <1>2, <1>3, ScheduleFacts, <2>1 DEF Schedule, Status
  <2> QED
    BY <2>1, <2>2, <1>3 DEF Dispatched, ReadyElems
<1>6. ReadySorted'
  <2>1. Ordered(ready_list', Rank(priority))
    BY <1>3 DEF Dispatched
  <2>2. ToSet(ready_list') \subseteq Thread
    BY <1>3 DEF Dispatched, ReadyElems
  <2>3. \A u \in ToSet(ready_list') : Rank(priority')[u] = Rank(priority)[u]
    BY <1>1, <1>2, <1>5, <2>2 DEF Rank
  <2> QED
    BY <2>1, <2>3, OrderedMonotone DEF ReadySorted
<1>7. HighestRuns'
  <2>1. ASSUME ready_list' # <<>>
        PROVE  Head(ready_list') \in ToSet(ready_list')
               /\ Head(ready_list') \in Thread
    BY <2>1, <1>3, RankType, <1>2, PopFront DEF Dispatched
  <2> QED
    BY <2>1, <1>1, <1>2, <1>3, <1>5 DEF Dispatched, HighestRuns
<1>8. OneRunning' /\ Preemptive' /\ TestIsFresh'
  BY <1>3, <1>7 DEF Dispatched, HighestRuns, Preemptive, TestIsFresh
<1>9. ElemExclusive'
  <2>1. ReadyElems'
    BY <1>3 DEF Dispatched
  <2>2. WaiterElems'
    BY <1>1, <1>4, WaitersFrame
  <2>3. SleepElems'
    BY <1>1, <1>4, SleepFrame
  <2> QED
    BY <2>1, <2>2, <2>3, ElemParts
<1>10. TypeOK'
  <2>1. PriMin \in Pri
    BY PriorityAssumption DEF Pri
  <2>2. priority' \in [Thread -> Pri]
    BY <1>1, <1>2, <2>1
  <2> QED
    BY <1>1, <1>3, <2>2 DEF SchedInv, TypeOK, Dispatched
<1>11. Locations'
  <2>1. \A u \in Thread : status'[u] = "free" => status[u] = "free" \/ (u = t /\ t # Main)
    BY <1>1, <1>2, <1>3 DEF Dispatched
  <2>2. \A u \in Thread : status'[u] = "dying" =>
          (u = Main /\ pc[u] = "run") \/ status[u] = "dying"
    BY <1>1, <1>2, <1>3 DEF Dispatched
  <2>3. status'[Idle] \in {"running", "ready", "blocked"}
    BY <1>3 DEF Dispatched
  <2> QED
    BY <1>1, <1>2, <2>1, <2>2, <2>3 DEF SchedInv, Locations, TypeOK, Thread
<1>12. Construction'
  BY <1>1, <1>2, <1>4, ThreadAssumption
     DEF SchedInv, Construction, Creating, SameBlocked, TypeOK, Thread
<1>13. YieldFlag' /\ SleepSorted' /\ NoOversleep'
  BY <1>1 DEF SchedInv, YieldFlag, SleepSorted, NoOversleep
<1> QED
  BY <1>6, <1>8, <1>9, <1>10, <1>11, <1>12, <1>13 DEF SchedInv

\* The second half of a turn of sema_down(): it takes a unit.
LEMMA DownTakesInv ==
  ASSUME SchedInv, NEW t \in Thread, NEW s \in Semaphore,
         handler = "none", current = t, pc[t] \in {"run", "down", "create"},
         s = TidLock <=> Creating(t),
         sema_value[s] > 0,
         sema_value' = [sema_value EXCEPT ![s] = @ - 1],
         waiting_for' = [waiting_for EXCEPT ![t] = NoSema],
         pc' = [pc EXCEPT ![t] = AfterDown(s)],
         UNCHANGED <<status, ready_list, current, thread_ticks, priority,
                     sema_waiters, ticks, yield_on_return, handler, sleep_list,
                     alarm_ticks, wake_at, child, new_pri>>
  PROVE  SchedInv'
<1>1. /\ status[t] = "running" /\ t \notin ToSet(ready_list)
      /\ t # Idle /\ pc'[t] \in {"tid", "run"}
  BY SMTT(40), RunningThread DEF SchedInv, Locations, AfterDown, TypeOK
<1>2. SameBlocked
  BY DEF SameBlocked
<1>3. TypeOK'
  BY DEF SchedInv, TypeOK, Location, AfterDown
<1>4. OneRunning' /\ ReadySorted' /\ YieldFlag' /\ SleepSorted' /\ NoOversleep'
  BY DEF SchedInv, OneRunning, ReadySorted, YieldFlag, SleepSorted, NoOversleep
<1>5. Preemptive' /\ TestIsFresh'
  BY <1>1 DEF SchedInv, Preemptive, TestIsFresh, TypeOK
<1>6. ElemExclusive'
  <2>1. ReadyElems'
    BY DEF ReadyElems, SchedInv, ElemExclusive
  <2>2. WaiterElems'
    BY <1>1, <1>2, WaitersFrame DEF SchedInv, TypeOK
  <2>3. SleepElems'
    BY <1>1, <1>2, SleepFrame DEF SchedInv, TypeOK
  <2> QED
    BY <2>1, <2>2, <2>3, ElemParts
<1>7. Locations'
  BY <1>1, SemaAssumption DEF SchedInv, Locations, TypeOK
<1>8. Construction'
  <2>1. /\ Creating(t)' <=> Creating(t)
        /\ \A u \in Thread : u # t => (Creating(u)' <=> Creating(u))
    BY SemaAssumption DEF Creating, AfterDown, SchedInv, TypeOK
  <2>2. \A u \in Thread : status[u] = "blocked" => pc'[u] = pc[u]
    BY <1>1 DEF SchedInv, TypeOK
  <2> HIDE DEF Creating
  <2> QED
    BY <2>1, <2>2, ThreadAssumption DEF SchedInv, Construction, Thread
<1> QED
  BY <1>3, <1>4, <1>5, <1>6, <1>7, <1>8 DEF SchedInv

LEMMA WaitersInsert ==
  ASSUME priority \in [Thread -> Pri], NEW l \in Seq(Thread), NEW t \in Thread,
         t \notin ToSet(l)
  PROVE  LET r == ListInsertOrdered(l, t, Rank(priority))
         IN  /\ r \in Seq(Thread)
             /\ ToSet(r) = ToSet(l) \cup {t}
             /\ IsInjective(l) => IsInjective(r)
<1>1. Rank(priority) \in [Thread -> Int]
  BY RankType
<1> DEFINE r == ListInsertOrdered(l, t, Rank(priority))
<1>2. /\ r \in Seq(Thread)
      /\ r # <<>>
      /\ ToSet(r) = ToSet(l) \cup {t}
      /\ IsInjective(l) /\ t \notin ToSet(l) => IsInjective(r)
      /\ Ordered(l, Rank(priority)) => Ordered(r, Rank(priority))
  BY <1>1, InsertOrdered
<1> QED
  BY <1>2

\* The first half of a turn of sema_down(): it waits.
LEMMA DownWaitsInv ==
  ASSUME SchedInv, NEW t \in Thread, NEW s \in Semaphore,
         handler = "none", current = t, pc[t] \in {"run", "down", "create"},
         s = TidLock <=> Creating(t),
         sema_waiters' = [sema_waiters EXCEPT
                            ![s] = ListInsertOrdered(@, t, Rank(priority))],
         waiting_for' = [waiting_for EXCEPT ![t] = s],
         pc' = [pc EXCEPT ![t] = "down"],
         ThreadBlock,
         UNCHANGED <<priority, sema_value, ticks, yield_on_return, handler,
                     sleep_list, alarm_ticks, wake_at, child, new_pri>>
  PROVE  SchedInv'
<1> DEFINE st == [status EXCEPT ![current] = "blocked"]
           l  == sema_waiters[s]
<1>1. /\ status[t] = "running"
      /\ \A u \in Thread : status[u] = "running" => u = t
      /\ t \notin ToSet(l) /\ t \notin Newborn
      /\ current \in Thread /\ priority \in [Thread -> Pri]
      /\ status \in [Thread -> Status]
      /\ pc \in [Thread -> Location]
      /\ waiting_for \in [Thread -> Semaphore \cup {NoSema}]
      /\ sema_waiters \in [Semaphore -> Seq(Thread)]
      /\ t # Idle /\ Idle \in Thread
  BY RunningThread DEF SchedInv, TypeOK, Locations, Thread
<1>2. Dispatched(st)
  BY BlockDispatches
<1>3. \A u \in Thread \ {Idle} :
        status'[u] = "blocked" <=> status[u] = "blocked" \/ u = t
  BY <1>1, <1>2 DEF Dispatched
<1>4. OneRunning' /\ ReadySorted' /\ Preemptive' /\ TestIsFresh'
  BY <1>2, DispatchOrders
<1>5. /\ sema_waiters'[s] \in Seq(Thread)
      /\ ToSet(sema_waiters'[s]) = ToSet(l) \cup {t}
      /\ IsInjective(l) => IsInjective(sema_waiters'[s])
      /\ \A r \in Semaphore : r # s => sema_waiters'[r] = sema_waiters[r]
  <2>1. l \in Seq(Thread) /\ t \notin ToSet(l)
    BY <1>1
  <2> HIDE DEF l
  <2>2. LET r == ListInsertOrdered(l, t, Rank(priority))
        IN  /\ r \in Seq(Thread)
            /\ ToSet(r) = ToSet(l) \cup {t}
            /\ IsInjective(l) => IsInjective(r)
    BY <1>1, <2>1, WaitersInsert
  <2>3. sema_waiters'[s] = ListInsertOrdered(l, t, Rank(priority))
    BY <1>1 DEF l
  <2> QED
    BY <1>1, <2>2, <2>3
<1>6. TypeOK'
  <2>1. sema_waiters' \in [Semaphore -> Seq(Thread)]
    BY <1>1, <1>5
  <2>2. pc' \in [Thread -> Location]
        /\ waiting_for' \in [Thread -> Semaphore \cup {NoSema}]
    BY <1>1 DEF Location
  <2> QED
    BY <1>2, <2>1, <2>2 DEF SchedInv, TypeOK, Dispatched
<1>7. ElemExclusive'
  <2>1. ReadyElems'
    BY <1>2 DEF Dispatched
  <2>2. ASSUME NEW r \in Semaphore
        PROVE  /\ IsInjective(sema_waiters'[r])
               /\ ToSet(sema_waiters'[r]) =
                    {u \in Thread : status'[u] = "blocked" /\ waiting_for'[u] = r}
    <3>1. /\ IsInjective(sema_waiters[r])
          /\ ToSet(sema_waiters[r]) =
               {u \in Thread : status[u] = "blocked" /\ waiting_for[u] = r}
      BY DEF SchedInv, ElemExclusive
    <3>2. waiting_for'[Idle] # r /\ waiting_for[Idle] # r
      BY <1>1, SemaAssumption DEF SchedInv, Locations
    <3>3. CASE r = s
      BY <1>1, <1>3, <1>5, <3>1, <3>2, <3>3
    <3>4. CASE r # s
      BY <1>1, <1>3, <1>5, <3>1, <3>2, <3>4
    <3> QED
      BY <3>3, <3>4
  <2>3. WaiterElems'
    BY <2>2 DEF WaiterElems
  <2>4. SleepElems'
    <3>1. SleepElems /\ Newborn' = Newborn
      BY DEF SchedInv, ElemExclusive, SleepElems, Newborn
    <3>2. waiting_for'[t] # NoSema
      BY <1>1, SemaAssumption
    <3> QED
      BY <1>1, <1>3, <3>1, <3>2 DEF SleepElems
  <2> QED
    BY <2>1, <2>3, <2>4, ElemParts
<1>8. Locations'
  <2>1. \A u \in Thread : status'[u] = "free" => status[u] = "free"
    BY <1>1, <1>2 DEF Dispatched
  <2>2. \A u \in Thread : status'[u] = "dying" => status[u] = "dying"
    BY <1>1, <1>2 DEF Dispatched
  <2>3. status'[Idle] \in {"running", "ready", "blocked"}
    BY <1>2 DEF Dispatched
  <2>4. status'[t] # "free" /\ pc'[t] = "down" /\ waiting_for'[t] # NoSema
    BY <1>1, <2>1, SemaAssumption
  <2>5. new_pri[t] = NoPri
    BY <1>1 DEF SchedInv, Locations
  <2> QED
    BY <1>1, <2>1, <2>2, <2>3, <2>4, <2>5 DEF SchedInv, Locations
<1>9. Construction'
  <2>1. /\ Creating(t)' <=> Creating(t)
        /\ \A u \in Thread : u # t => (Creating(u)' <=> Creating(u))
    BY <1>1, SemaAssumption DEF Creating
  <2>2. \A u \in Worker : status[u] = "blocked" =>
            pc'[u] = pc[u] /\ status'[u] = "blocked"
    BY <1>1, <1>3, ThreadAssumption DEF Thread
  <2> HIDE DEF Creating
  <2> QED
    BY <2>1, <2>2, ThreadAssumption DEF SchedInv, Construction, Thread
<1>10. YieldFlag' /\ SleepSorted' /\ NoOversleep'
  BY DEF SchedInv, YieldFlag, SleepSorted, NoOversleep
<1> QED
  BY <1>4, <1>6, <1>7, <1>8, <1>9, <1>10 DEF SchedInv

LEMMA DownTurnInv ==
  ASSUME SchedInv, NEW t \in Thread, NEW s \in Semaphore,
         handler = "none", current = t, pc[t] \in {"run", "down", "create"},
         s = TidLock <=> Creating(t), DownTurn(t, s)
  PROVE  SchedInv'
<1>1. CASE sema_value[s] = 0
  BY <1>1, DownWaitsInv DEF DownTurn, EnterWaiters, Goto, timeVars, sleepVars
<1>2. CASE sema_value[s] > 0
  BY <1>2, DownTakesInv DEF DownTurn, Goto, schedVars, timeVars, sleepVars
<1> QED
  BY <1>1, <1>2 DEF DownTurn

LEMMA SemaDownInv ==
  ASSUME SchedInv, NEW t \in Thread, NEW s \in Sema, SemaDown(t, s)
  PROVE  SchedInv'
<1>1. /\ s \in Semaphore /\ s # TidLock /\ pc[t] = "run" /\ current = t
      /\ handler = "none" /\ DownTurn(t, s)
  BY SemaAssumption DEF Semaphore, SemaDown, At
<1> QED
  BY <1>1, DownTurnInv DEF Creating

LEMMA SemaDownAgainInv ==
  ASSUME SchedInv, NEW t \in Thread, SemaDownAgain(t)
  PROVE  SchedInv'
<1>1. /\ pc[t] = "down" /\ current = t /\ handler = "none"
      /\ DownTurn(t, waiting_for[t])
  BY DEF SemaDownAgain, At
<1>2. waiting_for[t] \in Semaphore
  BY <1>1 DEF SchedInv, TypeOK, Locations
<1> QED
  BY <1>1, <1>2, DownTurnInv DEF Creating

LEMMA AllocateTidInv ==
  ASSUME SchedInv, NEW t \in Thread, AllocateTid(t)
  PROVE  SchedInv'
<1>1. /\ TidLock \in Semaphore /\ pc[t] = "create" /\ current = t
      /\ handler = "none" /\ DownTurn(t, TidLock)
  BY DEF Semaphore, AllocateTid, At
<1> QED
  BY <1>1, DownTurnInv DEF Creating

LEMMA SemaTryDownInv ==
  ASSUME SchedInv, NEW t \in Thread, NEW s \in Sema, SemaTryDown(t, s)
  PROVE  SchedInv'
<1>1. /\ s \in Semaphore /\ sema_value[s] > 0
      /\ sema_value' = [sema_value EXCEPT ![s] = @ - 1]
      /\ UNCHANGED <<status, ready_list, current, thread_ticks, priority,
                     sema_waiters, ticks, yield_on_return, handler, sleep_list,
                     alarm_ticks, wake_at, pc, waiting_for, child, new_pri>>
  BY DEF Semaphore, SemaTryDown, schedVars, timeVars, sleepVars, localVars
<1>2. TypeOK'
  BY <1>1 DEF SchedInv, TypeOK
<1>3. Construction'
  BY <1>1 DEF SchedInv, Construction, Creating
<1>4. ElemExclusive' /\ Locations'
  BY <1>1 DEF SchedInv, ElemExclusive, Locations, Newborn
<1>5. OneRunning' /\ ReadySorted' /\ YieldFlag' /\ TestIsFresh' /\ Preemptive'
      /\ SleepSorted' /\ NoOversleep'
  BY <1>1 DEF SchedInv, OneRunning, ReadySorted, YieldFlag, TestIsFresh,
              Preemptive, SleepSorted, NoOversleep
<1> QED
  BY <1>2, <1>3, <1>4, <1>5 DEF SchedInv

\* sema_up() of a thread that stands at `run' or in allocate_tid().
LEMMA UpInv ==
  ASSUME SchedInv, NEW t \in Thread, NEW s \in Semaphore, NEW loc \in Location,
         handler = "none", current = t,
         \/ pc[t] = "run" /\ loc = "run"
         \/ pc[t] = "tid" /\ loc = "unblock",
         Up(t, s, loc)
  PROVE  SchedInv'
<1> DEFINE first == Head(sema_waiters[s])
           woken == [status EXCEPT ![first] = "ready"]
           none  == sema_waiters[s] = <<>>
           l     == IF none THEN ready_list ELSE EnterReady(ready_list, first)
           st    == IF none THEN status ELSE woken
           st2   == [st EXCEPT ![current] = "ready"]
<1>1. /\ sema_value' = [sema_value EXCEPT ![s] = @ + 1]
      /\ pc' = [pc EXCEPT ![t] = loc]
      /\ ThreadYield(l, st)
      /\ sema_waiters' = IF none THEN sema_waiters
                         ELSE [sema_waiters EXCEPT ![s] = Tail(@)]
      /\ UNCHANGED <<priority, ticks, yield_on_return, handler, sleep_list,
                     alarm_ticks, wake_at, waiting_for, child, new_pri>>
  BY Zenon DEF Up, Goto, timeVars, sleepVars
<1>2. /\ status[t] = "running"
      /\ \A u \in Thread : status[u] = "running" => u = t
      /\ t \notin Newborn
      /\ current \in Thread /\ priority \in [Thread -> Pri]
      /\ status \in [Thread -> Status]
      /\ pc \in [Thread -> Location]
      /\ sema_waiters \in [Semaphore -> Seq(Thread)]
      /\ sema_value \in [Semaphore -> Nat]
      /\ t # Idle /\ Idle \in Thread
      /\ status[Idle] \in {"running", "ready", "blocked"}
  BY RunningThread DEF SchedInv, TypeOK, Locations, Thread
<1>3. ~none =>
        /\ first \in Thread /\ Tail(sema_waiters[s]) \in Seq(Thread)
        /\ IsInjective(Tail(sema_waiters[s]))
        /\ ToSet(Tail(sema_waiters[s])) = ToSet(sema_waiters[s]) \ {first}
        /\ status[first] = "blocked" /\ waiting_for[first] = s
        /\ first # Idle /\ first # t /\ pc[first] = "down"
  <2>1. IsInjective(sema_waiters[s])
        /\ ToSet(sema_waiters[s]) =
             {u \in Thread : status[u] = "blocked" /\ waiting_for[u] = s}
    BY DEF SchedInv, ElemExclusive
  <2> DEFINE w == sema_waiters[s]
  <2>2. w \in Seq(Thread)
    BY <1>2
  <2>3. Rank(priority) \in [Thread -> Int]
    BY <1>2, RankType
  <2> HIDE DEF w
  <2>4. w # <<>> =>
          /\ Head(w) \in Thread /\ Head(w) \in ToSet(w) /\ Tail(w) \in Seq(Thread)
          /\ ToSet(w) = ToSet(Tail(w)) \cup {Head(w)}
          /\ IsInjective(w) => IsInjective(Tail(w)) /\ Head(w) \notin ToSet(Tail(w))
    BY <2>2, <2>3, PopFront
  <2>5. w # <<>> =>
          /\ status[Head(w)] = "blocked" /\ waiting_for[Head(w)] = s
          /\ IsInjective(Tail(w))
          /\ ToSet(Tail(w)) = ToSet(w) \ {Head(w)}
    BY <2>1, <2>4 DEF w
  <2>6. w # <<>> => Head(w) # Idle /\ Head(w) # t /\ pc[Head(w)] = "down"
    BY <1>2, <2>4, <2>5, SemaAssumption DEF SchedInv, Locations
  <2> QED
    BY <2>4, <2>5, <2>6 DEF w
<1>4. /\ Agree(l, st)
      /\ st[current] = "running"
      /\ \A u \in Thread : st[u] = "running" => u = current
      /\ st[Idle] \in {"running", "ready", "blocked"}
      /\ \A u \in Thread :
           /\ st[u] = "blocked" <=> status[u] = "blocked" /\ ~(~none /\ u = first)
           /\ st[u] = "free" <=> status[u] = "free"
           /\ st[u] = "dying" <=> status[u] = "dying"
  <2>1. CASE none
    <3>1. l = ready_list /\ st = status
      BY <2>1
    <3> QED
      BY <2>1, <3>1, <1>2, Agreement
  <2>2. CASE ~none
    <3>1. l = EnterReady(ready_list, first) /\ st = woken
      BY <2>2
    <3> HIDE DEF l, st, first, none
    <3>2. Agree(EnterReady(ready_list, first), woken)
      BY <2>2, <1>2, <1>3, Agreement, WakeAgrees
    <3> QED
      BY <2>2, <3>1, <3>2, <1>2, <1>3
  <2> HIDE DEF none
  <2> QED
    BY <2>1, <2>2
<1> HIDE DEF l, st, first, none
<1>5. Dispatched(st2)
  BY <1>1, <1>2, <1>4, YieldDispatches
<1>6. \A u \in Thread \ {Idle} :
        status'[u] = "blocked" <=> status[u] = "blocked" /\ ~(~none /\ u = first)
  BY <1>2, <1>4, <1>5 DEF Dispatched, Agree
<1>7. OneRunning' /\ ReadySorted' /\ Preemptive' /\ TestIsFresh'
  BY <1>1, <1>5, DispatchOrders
<1>8. /\ sema_waiters' \in [Semaphore -> Seq(Thread)]
      /\ \A r \in Semaphore : r # s \/ none => sema_waiters'[r] = sema_waiters[r]
      /\ ~none => sema_waiters'[s] = Tail(sema_waiters[s])
  BY <1>1, <1>2, <1>3
<1>9. TypeOK'
  <2>1. pc' \in [Thread -> Location] /\ sema_value' \in [Semaphore -> Nat]
    BY <1>1, <1>2
  <2> QED
    BY <1>1, <1>5, <1>8, <2>1 DEF SchedInv, TypeOK, Dispatched
<1>10. ElemExclusive'
  <2>1. ReadyElems'
    BY <1>5 DEF Dispatched
  <2>2. ASSUME NEW r \in Semaphore
        PROVE  /\ IsInjective(sema_waiters'[r])
               /\ ToSet(sema_waiters'[r]) =
                    {u \in Thread : status'[u] = "blocked" /\ waiting_for'[u] = r}
    <3>1. /\ IsInjective(sema_waiters[r])
          /\ ToSet(sema_waiters[r]) =
               {u \in Thread : status[u] = "blocked" /\ waiting_for[u] = r}
      BY DEF SchedInv, ElemExclusive
    <3>2. waiting_for[Idle] # r
      BY <1>2, SemaAssumption DEF SchedInv, Locations
    <3>3. CASE r = s /\ ~none
      BY <1>1, <1>3, <1>6, <1>8, <3>1, <3>2, <3>3
    <3>4. CASE r # s \/ none
      BY <1>1, <1>3, <1>6, <1>8, <3>1, <3>2, <3>4
    <3> QED
      BY <3>3, <3>4
  <2>3. WaiterElems'
    BY <2>2 DEF WaiterElems
  <2>4. SleepElems'
    <3>1. SleepElems /\ Newborn' = Newborn
      BY <1>1 DEF SchedInv, ElemExclusive, SleepElems, Newborn
    <3>2. ~none => waiting_for[first] # NoSema
      BY <1>3, SemaAssumption
    <3> QED
      BY <1>1, <1>6, <3>1, <3>2 DEF SleepElems
  <2> QED
    BY <2>1, <2>3, <2>4, ElemParts
<1>11. Locations'
  <2>1. \A u \in Thread : status'[u] = "free" => status[u] = "free"
    BY <1>2, <1>4, <1>5 DEF Dispatched, Agree
  <2>2. \A u \in Thread : status'[u] = "dying" => status[u] = "dying"
    BY <1>2, <1>4, <1>5 DEF Dispatched, Agree
  <2>3. status'[Idle] \in {"running", "ready", "blocked"}
    BY <1>5 DEF Dispatched
  <2>4. /\ new_pri[t] = NoPri /\ waiting_for[t] = NoSema
        /\ \A u \in Thread : u # t => pc'[u] = pc[u]
        /\ pc'[t] = loc /\ loc \notin {"down", "loop", "hlt"}
        /\ status'[t] # "free"
    BY <1>1, <1>2, <2>1 DEF SchedInv, Locations, TypeOK
  <2> QED
    BY <1>1, <1>2, <2>1, <2>2, <2>3, <2>4 DEF SchedInv, Locations
<1>12. Construction'
  <2>1. /\ Creating(t)' <=> Creating(t)
        /\ \A u \in Thread : u # t => (Creating(u)' <=> Creating(u))
    BY <1>1, <1>2 DEF Creating
  <2>2. \A u \in Worker : status[u] = "blocked" /\ pc[u] = "run" =>
            pc'[u] = pc[u] /\ status'[u] = "blocked"
    BY <1>1, <1>2, <1>3, <1>6, ThreadAssumption DEF Thread
  <2> HIDE DEF Creating
  <2> QED
    BY <1>1, <2>1, <2>2, ThreadAssumption DEF SchedInv, Construction, Thread
<1>13. YieldFlag' /\ SleepSorted' /\ NoOversleep'
  BY <1>1 DEF SchedInv, YieldFlag, SleepSorted, NoOversleep
<1> QED
  BY <1>7, <1>9, <1>10, <1>11, <1>12, <1>13 DEF SchedInv

LEMMA SemaUpInv ==
  ASSUME SchedInv, NEW t \in Thread, NEW s \in Sema, SemaUp(t, s)
  PROVE  SchedInv'
<1>1. /\ s \in Semaphore /\ "run" \in Location
      /\ pc[t] = "run" /\ current = t /\ handler = "none" /\ Up(t, s, "run")
  BY DEF Semaphore, SemaUp, At, Location
<1> QED
  BY <1>1, UpInv

LEMMA AllocateTidDoneInv ==
  ASSUME SchedInv, NEW t \in Thread, AllocateTidDone(t)
  PROVE  SchedInv'
<1>1. /\ TidLock \in Semaphore /\ "unblock" \in Location
      /\ pc[t] = "tid" /\ current = t /\ handler = "none"
      /\ Up(t, TidLock, "unblock")
  BY DEF Semaphore, AllocateTidDone, At, Location
<1> QED
  BY <1>1, UpInv

LEMMA ThreadCreateInv ==
  ASSUME SchedInv, NEW t \in Thread, NEW w \in Worker, NEW p \in NewPriority,
         ThreadCreate(t, w, p)
  PROVE  SchedInv'
<1>1. /\ handler = "none" /\ current = t /\ pc[t] = "run"
      /\ status[w] = "free"
      /\ status' = [status EXCEPT ![w] = "blocked"]
      /\ priority' = [priority EXCEPT ![w] = p]
      /\ child' = [child EXCEPT ![t] = w]
      /\ pc' = [pc EXCEPT ![t] = "create"]
      /\ UNCHANGED <<ready_list, current, thread_ticks, sema_value,
                     sema_waiters, ticks, yield_on_return, handler, sleep_list,
                     alarm_ticks, wake_at, waiting_for, new_pri>>
  BY DEF ThreadCreate, At, Goto, semaVars, timeVars, sleepVars
<1>2. /\ status[t] = "running" /\ w # t /\ w # Idle /\ w # Main /\ t # Idle
      /\ w \in Thread /\ p \in Pri /\ Idle \in Thread /\ Main \in Thread
      /\ status \in [Thread -> Status] /\ priority \in [Thread -> Pri]
      /\ child \in [Thread -> Thread \cup {NoThread}]
      /\ pc \in [Thread -> Location]
      /\ pc[w] = "run" /\ waiting_for[w] = NoSema /\ waiting_for[t] = NoSema
      /\ child[t] = NoThread /\ new_pri[t] = NoPri
      /\ w \notin ToSet(ready_list) /\ t \notin ToSet(ready_list)
      /\ w # NoThread
  <2>1. /\ status[t] = "running" /\ w # t /\ w # Idle /\ w # Main /\ w \in Thread
        /\ p \in Pri /\ Idle \in Thread /\ Main \in Thread
        /\ t \notin ToSet(ready_list) /\ w # NoThread
    BY <1>1, RunningThread, ThreadAssumption, PriorityAssumption DEF Thread
  <2>2. /\ t # Idle /\ pc[w] = "run" /\ waiting_for[w] = NoSema
        /\ waiting_for[t] = NoSema /\ new_pri[t] = NoPri
    BY <1>1, <2>1 DEF SchedInv, Locations
  <2>3. child[t] = NoThread
    BY <1>1, <2>2 DEF SchedInv, Construction, Creating
  <2> QED
    BY <1>1, <2>1, <2>2, <2>3 DEF SchedInv, TypeOK, ElemExclusive
<1>3. TypeOK'
  BY <1>1, <1>2 DEF SchedInv, TypeOK, Location, Status
<1>4. OneRunning' /\ Locations'
  BY <1>1, <1>2 DEF SchedInv, OneRunning, Locations
<1>5. Construction'
  <2>1. \A u \in Thread : child[u] # w
    BY <1>1, <1>2 DEF SchedInv, Construction
  <2>2. /\ Creating(t)'
        /\ \A u \in Thread : u # t => (Creating(u)' <=> Creating(u))
    BY <1>1, <1>2 DEF Creating
  <2>3. /\ \A u \in Thread : u # t => child'[u] = child[u]
        /\ child'[t] = w
        /\ \A u \in Thread : u # w => status'[u] = status[u]
        /\ \A u \in Thread : u # t => pc'[u] = pc[u]
        /\ status'[w] = "blocked" /\ pc'[w] = "run"
    BY <1>1, <1>2
  <2>4. \A u \in Thread : status[u] = "blocked" => u # t /\ u # w
    BY <1>1, <1>2
  <2> HIDE DEF Creating
  <2> QED
    BY <1>2, <2>1, <2>2, <2>3, <2>4, ThreadAssumption
       DEF SchedInv, Construction, Thread
<1>6. Newborn' = Newborn \cup {w}
  <2>1. \A u \in Thread : child'[u] = IF u = t THEN w ELSE child[u]
    BY <1>1, <1>2
  <2> QED
    BY <1>2, <2>1 DEF Newborn
<1>7. ElemExclusive'
  <2>1. \A u \in Thread : u # w => status'[u] = status[u]
    BY <1>1, <1>2
  <2>2. status'[w] = "blocked"
    BY <1>1, <1>2
  <2>3. ReadyElems'
    BY <1>1, <1>2, <2>1, <2>2 DEF SchedInv, ElemExclusive, ReadyElems
  <2>4. WaiterElems'
    BY <1>1, <1>2, <2>1, <2>2, SemaAssumption
       DEF SchedInv, ElemExclusive, WaiterElems
  <2>5. SleepElems'
    BY <1>1, <1>2, <1>6, <2>1, <2>2 DEF SchedInv, ElemExclusive, SleepElems
  <2> QED
    BY <2>3, <2>4, <2>5, ElemParts
<1>8. ReadySorted'
  <2>1. \A u \in ToSet(ready_list) : Rank(priority')[u] = Rank(priority)[u]
    BY <1>1, <1>2 DEF Rank, SchedInv, ElemExclusive
  <2> QED
    BY <1>1, <2>1, OrderedMonotone DEF SchedInv, ReadySorted
<1>9. Preemptive' /\ TestIsFresh'
  <2>1. ready_list # <<>> => Head(ready_list) \in ToSet(ready_list)
    BY <1>2, RankType, PopFront DEF SchedInv, TypeOK
  <2>2. ready_list # <<>> => Head(ready_list) # w /\ Head(ready_list) \in Thread
    BY <1>2, <2>1 DEF SchedInv, ElemExclusive
  <2> QED
    BY <1>1, <1>2, <2>2 DEF SchedInv, Preemptive, TestIsFresh
<1>10. YieldFlag' /\ SleepSorted' /\ NoOversleep'
  BY <1>1 DEF SchedInv, YieldFlag, SleepSorted, NoOversleep
<1> QED
  BY <1>3, <1>4, <1>5, <1>7, <1>8, <1>9, <1>10 DEF SchedInv

LEMMA UnblockChildInv ==
  ASSUME SchedInv, NEW t \in Thread, UnblockChild(t)
  PROVE  SchedInv'
<1> DEFINE w == child[t]
<1>1. /\ handler = "none" /\ current = t /\ pc[t] = "unblock"
      /\ ready_list' = EnterReady(ready_list, w)
      /\ status' = [status EXCEPT ![w] = "ready"]
      /\ child' = [child EXCEPT ![t] = NoThread]
      /\ pc' = [pc EXCEPT ![t] = "yield"]
      /\ UNCHANGED <<current, thread_ticks, priority, sema_value, sema_waiters,
                     ticks, yield_on_return, handler, sleep_list, alarm_ticks,
                     wake_at, waiting_for, new_pri>>
  BY DEF UnblockChild, At, Goto, semaVars, timeVars, sleepVars
<1>2. /\ w \in Worker /\ w \in Thread /\ status[w] = "blocked" /\ pc[w] = "run"
      /\ w # Idle /\ Idle \in Thread /\ w # NoThread
      /\ \A u \in Thread : child[u] = w => u = t
      /\ status[t] = "running" /\ w # t /\ t # Idle
      /\ waiting_for[w] = NoSema /\ waiting_for[t] = NoSema
      /\ new_pri[t] = NoPri
  BY <1>1, RunningThread, ThreadAssumption
     DEF SchedInv, Construction, Creating, Locations, Thread
<1>3. /\ status \in [Thread -> Status] /\ priority \in [Thread -> Pri]
      /\ child \in [Thread -> Thread \cup {NoThread}]
      /\ pc \in [Thread -> Location]
  BY DEF SchedInv, TypeOK
<1> HIDE DEF w
<1>4. Agree(ready_list', status')
  BY <1>1, <1>2, <1>3, Agreement, WakeAgrees
<1>5. /\ status'[w] = "ready"
      /\ \A u \in Thread : u # w => status'[u] = status[u]
      /\ child'[t] = NoThread
      /\ \A u \in Thread : u # t => child'[u] = child[u]
      /\ pc'[t] = "yield"
      /\ \A u \in Thread : u # t => pc'[u] = pc[u]
  BY <1>1, <1>2, <1>3
<1>6. TypeOK'
  BY <1>1, <1>3, <1>4 DEF SchedInv, TypeOK, Agree, Location
<1>7. OneRunning' /\ Locations'
  BY <1>1, <1>2, <1>5 DEF SchedInv, OneRunning, Locations
<1>8. Construction'
  <2>1. /\ ~Creating(t)'
        /\ \A u \in Thread : u # t => (Creating(u)' <=> Creating(u))
    BY <1>1, <1>2, <1>5 DEF Creating
  <2>2. \A u \in Thread : status[u] = "blocked" => u # t
    BY <1>2
  <2> HIDE DEF Creating
  <2> QED
    BY <1>2, <1>5, <2>1, <2>2, ThreadAssumption DEF SchedInv, Construction, Thread
<1>9. Newborn' = Newborn \ {w}
  BY <1>2, <1>5 DEF Newborn, w
<1>10. ElemExclusive'
  <2>1. ReadyElems'
    BY <1>4 DEF Agree, ReadyElems
  <2>2. WaiterElems'
    BY <1>1, <1>2, <1>5, SemaAssumption DEF SchedInv, ElemExclusive, WaiterElems
  <2>3. w \in Newborn
    BY <1>2 DEF Newborn, w
  <2>4. SleepElems'
    BY <1>1, <1>2, <1>5, <1>9, <2>3 DEF SchedInv, ElemExclusive, SleepElems
  <2> QED
    BY <2>1, <2>2, <2>4, ElemParts
<1>11. ReadySorted' /\ Preemptive' /\ TestIsFresh'
  <2>1. Rank(priority') = Rank(priority)
    BY <1>1
  <2> QED
    BY <1>1, <1>4, <1>5, <2>1 DEF Agree, ReadySorted, Preemptive, TestIsFresh
<1>12. YieldFlag' /\ SleepSorted' /\ NoOversleep'
  BY <1>1 DEF SchedInv, YieldFlag, SleepSorted, NoOversleep
<1> QED
  BY <1>6, <1>7, <1>8, <1>10, <1>11, <1>12 DEF SchedInv

\* Steps that only move the running thread, outside sema_down() and
\* thread_create().
LEMMA StepFrame ==
  ASSUME SchedInv, NEW t \in Thread, NEW loc \in Location, t = current,
         handler = "none",
         pc[t] \in {"run", "test", "max"},
         loc \in {"run", "test", "max", "yield", "sleep"},
         pc' = [pc EXCEPT ![t] = loc],
         new_pri' \in [Thread -> Pri \cup {NoPri}],
         \A u \in Thread : u # t => new_pri'[u] = new_pri[u],
         new_pri'[t] # NoPri => loc \in {"test", "max"},
         UNCHANGED <<status, ready_list, current, thread_ticks, sema_value,
                     sema_waiters, ticks, yield_on_return, handler, sleep_list,
                     alarm_ticks, waiting_for, child>>
  PROVE  /\ OneRunning' /\ Locations' /\ Construction' /\ ElemExclusive'
         /\ YieldFlag' /\ SleepSorted' /\ NoOversleep'
<1>1. /\ t # Idle /\ pc \in [Thread -> Location] /\ status[t] = "running"
      /\ pc'[t] = loc /\ waiting_for[t] = NoSema /\ t \notin Newborn
      /\ \A u \in Thread : u # t => pc'[u] = pc[u]
  BY RunningThread DEF SchedInv, Locations, TypeOK
<1>2. OneRunning' /\ YieldFlag' /\ SleepSorted' /\ NoOversleep'
  BY DEF SchedInv, OneRunning, YieldFlag, SleepSorted, NoOversleep
<1>3. Locations'
  BY <1>1 DEF SchedInv, Locations
<1>4. Construction'
  <2>1. \A u \in Thread : Creating(u)' <=> Creating(u)
    BY <1>1 DEF Creating
  <2>2. \A u \in Thread : status[u] = "blocked" => pc'[u] = pc[u]
    BY <1>1
  <2> HIDE DEF Creating
  <2> QED
    BY <2>1, <2>2, ThreadAssumption DEF SchedInv, Construction, Thread
<1>5. ElemExclusive'
  <2>1. Newborn' = Newborn
    BY DEF Newborn
  <2> QED
    BY <2>1 DEF SchedInv, ElemExclusive
<1> QED
  BY <1>2, <1>3, <1>4, <1>5

\* The assignment to the running thread's priority.
LEMMA OwnPriorityInv ==
  ASSUME SchedInv, NEW t \in Thread, NEW p \in Pri, handler = "none",
         current = t, pc[t] = "run",
         priority' = [priority EXCEPT ![t] = p],
         pc' = [pc EXCEPT ![t] = "test"],
         new_pri' = [new_pri EXCEPT ![t] = p] \/ new_pri' = new_pri,
         UNCHANGED <<status, ready_list, current, thread_ticks, sema_value,
                     sema_waiters, ticks, yield_on_return, handler, sleep_list,
                     alarm_ticks, wake_at, waiting_for, child>>
  PROVE  SchedInv'
<1>1. /\ new_pri \in [Thread -> Pri \cup {NoPri}] /\ new_pri[t] = NoPri
      /\ priority \in [Thread -> Pri] /\ t \notin ToSet(ready_list)
      /\ pc \in [Thread -> Location]
  BY RunningThread DEF SchedInv, TypeOK, Locations
<1>2. /\ new_pri' \in [Thread -> Pri \cup {NoPri}]
      /\ \A u \in Thread : u # t => new_pri'[u] = new_pri[u]
      /\ new_pri'[t] \in {p, NoPri}
      /\ "test" \in Location
  BY <1>1 DEF Location
<1>3. /\ OneRunning' /\ Locations' /\ Construction' /\ ElemExclusive'
      /\ YieldFlag' /\ SleepSorted' /\ NoOversleep'
  BY <1>2, StepFrame
<1>4. TypeOK'
  BY <1>1, <1>2 DEF SchedInv, TypeOK
<1>5. ReadySorted'
  <2>1. \A u \in ToSet(ready_list) : Rank(priority')[u] = Rank(priority)[u]
    BY <1>1 DEF Rank, SchedInv, ElemExclusive
  <2> QED
    BY <2>1, OrderedMonotone DEF SchedInv, ReadySorted
<1>6. Preemptive' /\ TestIsFresh'
  BY <1>1, <1>2 DEF Preemptive, TestIsFresh
<1> QED
  BY <1>3, <1>4, <1>5, <1>6 DEF SchedInv

LEMMA ThreadSetPriorityInv ==
  ASSUME SchedInv, NEW t \in Thread, NEW p \in NewPriority,
         ThreadSetPriority(t, p)
  PROVE  SchedInv'
<1>1. p \in Pri
  BY PriorityAssumption
<1> QED
  BY <1>1, OwnPriorityInv
     DEF ThreadSetPriority, At, Goto, schedVars, semaVars, timeVars, sleepVars

LEMMA ThreadSetNiceInv ==
  ASSUME SchedInv, NEW t \in Thread, NEW p \in Pri, ThreadSetNice(t, p)
  PROVE  SchedInv'
BY OwnPriorityInv
   DEF ThreadSetNice, At, Goto, schedVars, semaVars, timeVars, sleepVars

LEMMA TestEmptyInv ==
  ASSUME SchedInv, NEW t \in Thread, TestEmpty(t)
  PROVE  SchedInv'
<1> DEFINE loc == IF ready_list = <<>> THEN "run" ELSE "max"
<1>1. /\ handler = "none" /\ current = t /\ pc[t] = "test"
      /\ pc' = [pc EXCEPT ![t] = loc]
      /\ new_pri' = IF ready_list = <<>> THEN [new_pri EXCEPT ![t] = NoPri]
                                         ELSE new_pri
      /\ UNCHANGED <<status, ready_list, current, thread_ticks, priority,
                     sema_value, sema_waiters, ticks, yield_on_return, handler,
                     sleep_list, alarm_ticks, wake_at, waiting_for, child>>
  BY DEF TestEmpty, At, Goto, schedVars, semaVars, timeVars, sleepVars
<1>2. /\ new_pri \in [Thread -> Pri \cup {NoPri}]
      /\ pc \in [Thread -> Location]
  BY DEF SchedInv, TypeOK
<1>3. /\ new_pri' \in [Thread -> Pri \cup {NoPri}]
      /\ \A u \in Thread : u # t => new_pri'[u] = new_pri[u]
      /\ loc \in Location /\ loc \in {"run", "max"}
      /\ new_pri'[t] # NoPri => loc = "max"
      /\ loc = "max" => new_pri' = new_pri
  BY <1>1, <1>2 DEF Location
<1> HIDE DEF loc
<1>4. /\ OneRunning' /\ Locations' /\ Construction' /\ ElemExclusive'
      /\ YieldFlag' /\ SleepSorted' /\ NoOversleep'
  BY <1>1, <1>3, StepFrame
<1>5. TypeOK'
  BY <1>1, <1>2, <1>3 DEF SchedInv, TypeOK
<1>6. ReadySorted'
  BY <1>1 DEF SchedInv, ReadySorted
<1>7. Preemptive' /\ TestIsFresh'
  BY <1>1, <1>2, <1>3 DEF SchedInv, Preemptive, TestIsFresh, loc
<1> QED
  BY <1>4, <1>5, <1>6, <1>7 DEF SchedInv

LEMMA TestMaxInv ==
  ASSUME SchedInv, NEW t \in Thread, TestMax(t)
  PROVE  SchedInv'
<1> DEFINE mine == IF new_pri[t] = NoPri THEN priority[t] ELSE new_pri[t]
<1>1. PICK loc \in {"run", "yield"} :
        /\ ready_list # <<>> =>
             (loc = "yield" <=> mine < priority[Head(ready_list)])
        /\ pc' = [pc EXCEPT ![t] = loc]
  BY DEF TestMax, Goto
<1>2. /\ handler = "none" /\ current = t /\ pc[t] = "max"
      /\ new_pri' = [new_pri EXCEPT ![t] = NoPri]
      /\ UNCHANGED <<status, ready_list, current, thread_ticks, priority,
                     sema_value, sema_waiters, ticks, yield_on_return, handler,
                     sleep_list, alarm_ticks, wake_at, waiting_for, child>>
  BY DEF TestMax, At, schedVars, semaVars, timeVars, sleepVars
<1>3. /\ new_pri \in [Thread -> Pri \cup {NoPri}]
      /\ priority \in [Thread -> Pri]
      /\ pc \in [Thread -> Location] /\ t # Idle
  BY <1>2 DEF SchedInv, TypeOK, Locations
<1>4. /\ new_pri' \in [Thread -> Pri \cup {NoPri}]
      /\ \A u \in Thread : u # t => new_pri'[u] = new_pri[u]
      /\ new_pri'[t] = NoPri /\ loc \in Location
      /\ pc'[t] = loc
  BY <1>1, <1>2, <1>3 DEF Location
<1>5. /\ OneRunning' /\ Locations' /\ Construction' /\ ElemExclusive'
      /\ YieldFlag' /\ SleepSorted' /\ NoOversleep'
  BY <1>1, <1>2, <1>4, StepFrame
<1>6. TypeOK'
  <2>1. pc' \in [Thread -> Location]
    BY <1>1, <1>3, <1>4
  <2> QED
    BY <1>2, <1>4, <2>1 DEF SchedInv, TypeOK
<1>7. ReadySorted' /\ TestIsFresh'
  BY <1>1, <1>2, <1>4 DEF SchedInv, ReadySorted, TestIsFresh
<1>8. Preemptive'
  <2>1. ASSUME loc = "run", ready_list # <<>>
        PROVE  priority[t] >= priority[Head(ready_list)]
    <3>1. Head(ready_list) \in Thread
      BY <2>1, <1>3, RankType, PopFront DEF SchedInv, TypeOK
    <3>2. ~(mine < priority[Head(ready_list)])
      BY <1>1, <2>1
    <3>3. mine = priority[t] \/ priority[t] >= priority[Head(ready_list)]
      BY <1>2, <2>1 DEF SchedInv, TestIsFresh
    <3>4. priority[t] \in Int /\ priority[Head(ready_list)] \in Int
      BY <1>3, <3>1, RankType
    <3> HIDE DEF mine
    <3> QED
      BY <3>2, <3>3, <3>4
  <2> QED
    BY <1>1, <1>2, <1>3, <1>4, <2>1 DEF Preemptive
<1> QED
  BY <1>5, <1>6, <1>7, <1>8 DEF SchedInv

LEMMA TimerSleepInv ==
  ASSUME SchedInv, NEW t \in Thread, NEW n \in SleepTicks, TimerSleep(t, n)
  PROVE  SchedInv'
<1>1. /\ handler = "none" /\ current = t /\ pc[t] = "run"
      /\ wake_at' = [wake_at EXCEPT ![t] = ticks + n]
      /\ pc' = [pc EXCEPT ![t] = "sleep"]
      /\ UNCHANGED <<status, ready_list, current, thread_ticks, priority,
                     sema_value, sema_waiters, ticks, yield_on_return, handler,
                     sleep_list, alarm_ticks, waiting_for, child, new_pri>>
  BY DEF TimerSleep, At, Goto, schedVars, semaVars, timeVars
<1>2. /\ new_pri \in [Thread -> Pri \cup {NoPri}] /\ new_pri[t] = NoPri
      /\ wake_at \in [Thread -> Int] /\ ticks + n \in Int
      /\ pc \in [Thread -> Location] /\ "sleep" \in Location
  <2>1. n \in Int /\ ticks \in 0 .. MaxTicks /\ MaxTicks \in Nat
    BY TimeAssumption DEF SchedInv, TypeOK
  <2>2. ticks + n \in Int
    BY <2>1
  <2> QED
    BY <1>1, <2>2 DEF SchedInv, TypeOK, Locations, Location
<1>3. /\ OneRunning' /\ Locations' /\ Construction' /\ ElemExclusive'
      /\ YieldFlag' /\ SleepSorted' /\ NoOversleep'
  BY <1>1, <1>2, StepFrame
<1>4. TypeOK'
  BY <1>1, <1>2 DEF SchedInv, TypeOK
<1>5. ReadySorted' /\ Preemptive' /\ TestIsFresh'
  BY <1>1, <1>2 DEF SchedInv, ReadySorted, Preemptive, TestIsFresh
<1> QED
  BY <1>3, <1>4, <1>5 DEF SchedInv

LEMMA ToIntType ==
  ASSUME NEW x \in Int
  PROVE  ToInt(x) \in Int
<1>1. 2 * (IntMax + 1) \in Nat \ {0} /\ x + IntMax + 1 \in Int
  BY TimeAssumption
<1>2. (x + IntMax + 1) % (2 * (IntMax + 1)) \in Int
  BY <1>1
<1> QED
  BY <1>2, TimeAssumption DEF ToInt

LEMMA ThreadSleepInv ==
  ASSUME SchedInv, NEW t \in Thread, ThreadSleep(t)
  PROVE  SchedInv'
<1> DEFINE st == [status EXCEPT ![current] = "blocked"]
<1>1. /\ handler = "none" /\ current = t /\ pc[t] = "sleep"
      /\ alarm_ticks' = [alarm_ticks EXCEPT ![t] = ToInt(wake_at[t])]
      /\ sleep_list' = ListInsertOrdered(sleep_list, t, alarm_ticks')
      /\ pc' = [pc EXCEPT ![t] = "run"]
      /\ ThreadBlock
      /\ UNCHANGED <<priority, sema_value, sema_waiters, ticks,
                     yield_on_return, handler, wake_at, waiting_for, child,
                     new_pri>>
  BY DEF ThreadSleep, At, Goto, semaVars, timeVars
<1>2. /\ status[t] = "running"
      /\ \A u \in Thread : status[u] = "running" => u = t
      /\ t \notin Newborn /\ t \notin ToSet(sleep_list)
      /\ current \in Thread /\ priority \in [Thread -> Pri]
      /\ status \in [Thread -> Status]
      /\ pc \in [Thread -> Location]
      /\ alarm_ticks \in [Thread -> Int] /\ wake_at \in [Thread -> Int]
      /\ sleep_list \in Seq(Thread)
      /\ t # Idle /\ Idle \in Thread
      /\ waiting_for[t] = NoSema /\ new_pri[t] = NoPri
  BY <1>1, RunningThread DEF SchedInv, TypeOK, Locations, Thread
<1>3. Dispatched(st)
  BY <1>1, BlockDispatches
<1>4. \A u \in Thread \ {Idle} :
        status'[u] = "blocked" <=> status[u] = "blocked" \/ u = t
  BY <1>1, <1>2, <1>3 DEF Dispatched
<1>5. OneRunning' /\ ReadySorted' /\ Preemptive' /\ TestIsFresh'
  BY <1>1, <1>3, DispatchOrders
<1>6. alarm_ticks' \in [Thread -> Int]
  BY <1>1, <1>2, ToIntType
<1>7. Ordered(sleep_list, alarm_ticks')
  <2>1. \A u \in ToSet(sleep_list) : alarm_ticks'[u] = alarm_ticks[u]
    BY <1>1, <1>2 DEF SchedInv, ElemExclusive
  <2> QED
    BY <2>1, OrderedMonotone DEF SchedInv, SleepSorted
<1>8. /\ sleep_list' \in Seq(Thread)
      /\ ToSet(sleep_list') = ToSet(sleep_list) \cup {t}
      /\ IsInjective(sleep_list')
      /\ Ordered(sleep_list', alarm_ticks')
  <2> DEFINE r == ListInsertOrdered(sleep_list, t, alarm_ticks')
  <2>1. /\ r \in Seq(Thread)
        /\ r # <<>>
        /\ ToSet(r) = ToSet(sleep_list) \cup {t}
        /\ IsInjective(sleep_list) /\ t \notin ToSet(sleep_list) => IsInjective(r)
        /\ Ordered(sleep_list, alarm_ticks') => Ordered(r, alarm_ticks')
    BY <1>2, <1>6, InsertOrdered
  <2>2. sleep_list' = r /\ IsInjective(sleep_list)
    BY <1>1 DEF SchedInv, ElemExclusive
  <2> HIDE DEF r
  <2> QED
    BY <1>2, <1>7, <2>1, <2>2
<1>9. TypeOK'
  <2>1. pc' \in [Thread -> Location]
    BY <1>1, <1>2 DEF Location
  <2> QED
    BY <1>1, <1>3, <1>6, <1>8, <2>1 DEF SchedInv, TypeOK, Dispatched
<1>10. ElemExclusive'
  <2>1. ReadyElems'
    BY <1>3 DEF Dispatched
  <2>2. WaiterElems'
    BY <1>1, <1>2, <1>4, SemaAssumption, ZenonT(60) DEF SchedInv, ElemExclusive, WaiterElems,
       Locations
  <2>3. SleepElems'
    <3>1. SleepElems /\ Newborn' = Newborn
      BY <1>1 DEF SchedInv, ElemExclusive, SleepElems, Newborn
    <3> QED
      BY <1>1, <1>2, <1>4, <1>8, <3>1 DEF SleepElems
  <2> QED
    BY <2>1, <2>2, <2>3, ElemParts
<1>11. Locations'
  <2>1. \A u \in Thread : status'[u] = "free" => status[u] = "free"
    BY <1>1, <1>2, <1>3 DEF Dispatched
  <2>2. \A u \in Thread : status'[u] = "dying" => status[u] = "dying"
    BY <1>1, <1>2, <1>3 DEF Dispatched
  <2>3. status'[Idle] \in {"running", "ready", "blocked"}
    BY <1>3 DEF Dispatched
  <2> QED
    BY <1>1, <1>2, <2>1, <2>2, <2>3 DEF SchedInv, Locations
<1>12. Construction'
  <2>1. /\ Creating(t)' <=> Creating(t)
        /\ \A u \in Thread : u # t => (Creating(u)' <=> Creating(u))
    BY <1>1, <1>2 DEF Creating
  <2>2. \A u \in Worker : status[u] = "blocked" =>
            pc'[u] = pc[u] /\ status'[u] = "blocked"
    BY <1>1, <1>2, <1>4, ThreadAssumption DEF Thread
  <2> HIDE DEF Creating
  <2> QED
    BY <1>1, <2>1, <2>2, ThreadAssumption DEF SchedInv, Construction, Thread
<1>13. YieldFlag' /\ SleepSorted' /\ NoOversleep'
  BY <1>1, <1>8 DEF YieldFlag, SleepSorted, NoOversleep
<1> QED
  BY <1>5, <1>9, <1>10, <1>11, <1>12, <1>13 DEF SchedInv

LEMMA IdleBlockInv ==
  ASSUME SchedInv, IdleBlock
  PROVE  SchedInv'
<1> DEFINE st == [status EXCEPT ![current] = "blocked"]
<1>1. /\ handler = "none" /\ current = Idle /\ pc[Idle] = "loop"
      /\ pc' = [pc EXCEPT ![Idle] = "hlt"]
      /\ ThreadBlock
      /\ UNCHANGED <<priority, sema_value, sema_waiters, ticks,
                     yield_on_return, handler, sleep_list, alarm_ticks,
                     wake_at, waiting_for, child, new_pri>>
  BY DEF IdleBlock, At, Goto, semaVars, timeVars, sleepVars
<1>2. /\ Idle \in Thread /\ status[Idle] = "running"
      /\ \A u \in Thread : status[u] = "running" => u = Idle
      /\ status \in [Thread -> Status]
      /\ pc \in [Thread -> Location]
  BY <1>1, RunningThread DEF SchedInv, TypeOK, Thread
<1>3. Dispatched(st)
  BY <1>1, BlockDispatches
<1>4. SameBlocked
  BY <1>1, <1>2, <1>3 DEF Dispatched, SameBlocked
<1>5. OneRunning' /\ ReadySorted' /\ Preemptive' /\ TestIsFresh'
  BY <1>1, <1>3, DispatchOrders
<1>6. TypeOK'
  <2>1. pc' \in [Thread -> Location]
    BY <1>1, <1>2 DEF Location
  <2> QED
    BY <1>1, <1>3, <2>1 DEF SchedInv, TypeOK, Dispatched
<1>7. ElemExclusive'
  <2>1. ReadyElems'
    BY <1>3 DEF Dispatched
  <2>2. WaiterElems'
    BY <1>1, <1>4, WaitersFrame
  <2>3. SleepElems'
    BY <1>1, <1>4, SleepFrame
  <2> QED
    BY <2>1, <2>2, <2>3, ElemParts
<1>8. Locations'
  <2>1. \A u \in Thread : status'[u] = "free" => status[u] = "free"
    BY <1>1, <1>2, <1>3 DEF Dispatched
  <2>2. \A u \in Thread : status'[u] = "dying" => status[u] = "dying"
    BY <1>1, <1>2, <1>3 DEF Dispatched
  <2>3. status'[Idle] \in {"running", "ready", "blocked"}
    BY <1>3 DEF Dispatched
  <2> QED
    BY <1>1, <1>2, <2>1, <2>2, <2>3 DEF SchedInv, Locations
<1>9. Construction'
  <2>1. \A u \in Thread : u # Idle => pc'[u] = pc[u]
    BY <1>1, <1>2
  <2>2. \A u \in Thread : Creating(u)' <=> Creating(u)
    BY <1>1, <1>2, <2>1 DEF Creating
  <2> HIDE DEF Creating
  <2> QED
    BY <1>1, <1>4, <2>1, <2>2, ThreadAssumption
       DEF SchedInv, Construction, SameBlocked, Thread
<1>10. YieldFlag' /\ SleepSorted' /\ NoOversleep'
  BY <1>1 DEF SchedInv, YieldFlag, SleepSorted, NoOversleep
<1> QED
  BY <1>5, <1>6, <1>7, <1>8, <1>9, <1>10 DEF SchedInv

LEMMA TimerInterruptInv ==
  ASSUME SchedInv, TimerInterrupt
  PROVE  SchedInv'
<1>1. /\ handler = "none" /\ handler' = "alarm"
      /\ ticks' = IF ticks < MaxTicks THEN ticks + 1 ELSE ticks
      /\ thread_ticks' = thread_ticks + 1
      /\ yield_on_return' = (thread_ticks + 1 >= TimeSlice)
      /\ pc' = IF pc[current] = "hlt" THEN [pc EXCEPT ![current] = "loop"] ELSE pc
      /\ UNCHANGED <<status, ready_list, current, priority, sema_value,
                     sema_waiters, sleep_list, alarm_ticks, wake_at,
                     waiting_for, child, new_pri>>
  BY DEF TimerInterrupt, IntrOn, semaVars, sleepVars
<1>2. /\ current \in Thread /\ pc \in [Thread -> Location] /\ Idle \in Thread
      /\ status[current] = "running"
  BY DEF SchedInv, TypeOK, OneRunning, Thread
<1>3. \A u \in Thread : pc'[u] = pc[u] \/ (pc[u] = "hlt" /\ pc'[u] = "loop")
  BY <1>1, <1>2
<1>4. TypeOK'
  <2>1. ticks' \in 0 .. MaxTicks /\ thread_ticks' \in Nat
        /\ yield_on_return' \in BOOLEAN /\ handler' \in Handler
    BY <1>1, TimeAssumption DEF SchedInv, TypeOK, Handler
  <2>2. pc' \in [Thread -> Location]
    BY <1>1, <1>2 DEF Location
  <2> QED
    BY <1>1, <2>1, <2>2 DEF SchedInv, TypeOK
<1>5. OneRunning' /\ Locations'
  BY <1>1, <1>2, <1>3 DEF SchedInv, OneRunning, Locations
<1>6. Construction'
  <2>1. \A u \in Thread : Creating(u)' <=> Creating(u)
    BY <1>1, <1>2, <1>3 DEF Creating
  <2>2. \A u \in Thread : u # Idle => pc'[u] = pc[u]
    BY <1>3 DEF SchedInv, Locations
  <2> HIDE DEF Creating
  <2> QED
    BY <1>1, <2>1, <2>2, ThreadAssumption DEF SchedInv, Construction, Thread
<1>7. ElemExclusive' /\ ReadySorted' /\ SleepSorted'
  <2>1. Newborn' = Newborn
    BY <1>1 DEF Newborn
  <2> QED
    BY <1>1, <2>1 DEF SchedInv, ElemExclusive, ReadySorted, SleepSorted
<1>8. YieldFlag' /\ TestIsFresh' /\ Preemptive' /\ NoOversleep'
  BY <1>1 DEF YieldFlag, TestIsFresh, Preemptive, NoOversleep
<1> QED
  BY <1>4, <1>5, <1>6, <1>7, <1>8 DEF SchedInv

LEMMA ThreadAlarmWakeInv ==
  ASSUME SchedInv, ThreadAlarmWake
  PROVE  SchedInv'
<1> DEFINE w == Head(sleep_list)
<1>1. /\ handler = "alarm" /\ sleep_list # <<>>
      /\ sleep_list' = Tail(sleep_list)
      /\ ready_list' = EnterReady(ready_list, w)
      /\ status' = [status EXCEPT ![w] = "ready"]
      /\ alarm_ticks' = [alarm_ticks EXCEPT ![w] = 0]
      /\ wake_at' = [wake_at EXCEPT ![w] = 0]
      /\ UNCHANGED <<current, thread_ticks, priority, sema_value,
                     sema_waiters, ticks, yield_on_return, handler, pc,
                     waiting_for, child, new_pri>>
  BY DEF ThreadAlarmWake, AlarmDue, semaVars, timeVars, localVars
<1>2. /\ sleep_list \in Seq(Thread) /\ IsInjective(sleep_list)
      /\ ToSet(sleep_list) = {t \in Thread : /\ status[t] = "blocked"
                                             /\ t \notin Newborn \cup {Idle}
                                             /\ waiting_for[t] = NoSema}
      /\ Ordered(sleep_list, alarm_ticks)
      /\ alarm_ticks \in [Thread -> Int] /\ wake_at \in [Thread -> Int]
      /\ status \in [Thread -> Status] /\ priority \in [Thread -> Pri]
  BY DEF SchedInv, TypeOK, ElemExclusive, SleepSorted
<1>3. /\ w \in Thread /\ w \in ToSet(sleep_list)
      /\ sleep_list' \in Seq(Thread)
      /\ ToSet(sleep_list) = ToSet(sleep_list') \cup {w}
      /\ IsInjective(sleep_list') /\ w \notin ToSet(sleep_list')
      /\ Ordered(sleep_list', alarm_ticks)
  BY <1>1, <1>2, PopFront
<1>4. /\ status[w] = "blocked" /\ w \notin Newborn /\ w # Idle
      /\ waiting_for[w] = NoSema
  BY <1>2, <1>3
<1> HIDE DEF w
<1>5. Agree(ready_list', status')
  BY <1>1, <1>2, <1>3, <1>4, Agreement, WakeAgrees
<1>6. /\ status'[w] = "ready"
      /\ \A u \in Thread : u # w => status'[u] = status[u]
      /\ \A u \in Thread : u # w => alarm_ticks'[u] = alarm_ticks[u]
  BY <1>1, <1>2, <1>3
<1>7. TypeOK'
  BY <1>1, <1>2, <1>3, <1>5 DEF SchedInv, TypeOK, Agree
<1>8. OneRunning' /\ Locations'
  BY <1>1, <1>4, <1>6 DEF SchedInv, OneRunning, Locations
<1>9. Construction'
  <2>1. \A u \in Thread : Creating(u)' <=> Creating(u)
    BY <1>1 DEF Creating
  <2>2. \A u \in Thread : child[u] # w
    BY <1>3, <1>4, ThreadAssumption DEF Newborn
  <2> HIDE DEF Creating
  <2> QED
    BY <1>1, <1>6, <2>1, <2>2, ThreadAssumption DEF SchedInv, Construction, Thread
<1>10. ElemExclusive'
  <2>1. ReadyElems'
    BY <1>5 DEF Agree, ReadyElems
  <2>2. WaiterElems'
    BY <1>1, <1>4, <1>6, SemaAssumption DEF SchedInv, ElemExclusive, WaiterElems
  <2>3. Newborn' = Newborn
    BY <1>1 DEF Newborn
  <2>4. SleepElems'
    BY <1>1, <1>2, <1>3, <1>6, <2>3 DEF SleepElems
  <2> QED
    BY <2>1, <2>2, <2>4, ElemParts
<1>11. ReadySorted'
  <2>1. Rank(priority') = Rank(priority)
    BY <1>1
  <2> QED
    BY <1>5, <2>1 DEF Agree, ReadySorted
<1>12. SleepSorted'
  <2>1. \A u \in ToSet(sleep_list') : alarm_ticks'[u] = alarm_ticks[u]
    BY <1>2, <1>3, <1>6
  <2> QED
    BY <1>3, <2>1, OrderedMonotone DEF SleepSorted
<1>13. YieldFlag' /\ TestIsFresh' /\ Preemptive' /\ NoOversleep'
  BY <1>1 DEF YieldFlag, TestIsFresh, Preemptive, NoOversleep
<1> QED
  BY <1>7, <1>8, <1>9, <1>10, <1>11, <1>12, <1>13 DEF SchedInv

LEMMA ThreadAlarmDoneInv ==
  ASSUME SchedInv, ThreadAlarmDone
  PROVE  SchedInv'
<1>1. /\ handler = "alarm" /\ handler' = "update" /\ yield_on_return' = TRUE
      /\ ~AlarmDue
      /\ UNCHANGED <<ticks, status, ready_list, current, thread_ticks,
                     priority, sema_value, sema_waiters, sleep_list,
                     alarm_ticks, wake_at, pc, waiting_for, child, new_pri>>
  BY DEF ThreadAlarmDone, schedVars, semaVars, sleepVars, localVars
<1>2. TypeOK' /\ OneRunning' /\ Locations'
  BY <1>1 DEF SchedInv, TypeOK, OneRunning, Locations, Handler
<1>3. Construction'
  BY <1>1 DEF SchedInv, Construction, Creating
<1>4. ElemExclusive' /\ ReadySorted' /\ SleepSorted'
  <2>1. Newborn' = Newborn
    BY <1>1 DEF Newborn
  <2> QED
    BY <1>1, <2>1 DEF SchedInv, ElemExclusive, ReadySorted, SleepSorted
<1>5. YieldFlag' /\ TestIsFresh' /\ Preemptive'
  BY <1>1 DEF YieldFlag, TestIsFresh, Preemptive
<1>6. NoOversleep'
  <2>1. /\ sleep_list \in Seq(Thread) /\ alarm_ticks \in [Thread -> Int]
        /\ Ordered(sleep_list, alarm_ticks) /\ ticks \in Int
        /\ ToSet(sleep_list) \subseteq Thread
    BY TimeAssumption DEF SchedInv, TypeOK, SleepSorted, ElemExclusive
  <2>2. ASSUME NEW x \in ToSet(sleep_list) PROVE alarm_ticks[x] > ticks
    <3>1. sleep_list # <<>>
      BY <2>2 DEF ToSet
    <3>2. /\ Head(sleep_list) \in Thread
          /\ alarm_ticks[Head(sleep_list)] <= alarm_ticks[x]
      BY <2>1, <2>2, <3>1, PopFront
    <3>3. ~(alarm_ticks[Head(sleep_list)] <= ticks)
      BY <1>1, <3>1 DEF AlarmDue
    <3> QED
      BY <2>1, <2>2, <3>2, <3>3
  <2> QED
    BY <1>1, <2>2 DEF NoOversleep
<1> QED
  BY <1>2, <1>3, <1>4, <1>5, <1>6 DEF SchedInv

\* thread_priority_aging() keeps the order of the ready list.
LEMMA AgedFacts ==
  ASSUME priority \in [Thread -> Pri], NEW l, l = ready_list,
         ToSet(l) \subseteq Thread, Ordered(l, Rank(priority))
  PROVE  Aged \in [Thread -> Pri] /\ Ordered(l, Rank(Aged))
<1>1. PriMin \in Nat /\ PriMax \in Nat /\ \A t \in Thread : priority[t] \in PriMin .. PriMax
  BY PriorityAssumption DEF Pri
<1>2. ASSUME NEW t \in Thread
      PROVE  /\ Aged[t] = IF Aging /\ t \in ToSet(l) /\ priority[t] < PriMax
                          THEN priority[t] + 1 ELSE priority[t]
             /\ Aged[t] \in Pri
  BY <1>1 DEF Aged, Pri
<1>3. Aged \in [Thread -> Pri]
  BY <1>2 DEF Aged
<1>4. ASSUME NEW x \in ToSet(l), NEW y \in ToSet(l),
             Rank(priority)[x] <= Rank(priority)[y]
      PROVE  Rank(Aged)[x] <= Rank(Aged)[y]
  <2>1. x \in Thread /\ y \in Thread
    OBVIOUS
  <2>2. /\ Rank(priority)[x] = -priority[x] /\ Rank(priority)[y] = -priority[y]
        /\ Rank(Aged)[x] = -Aged[x] /\ Rank(Aged)[y] = -Aged[y]
    BY <2>1 DEF Rank
  <2>3. priority[y] <= priority[x]
    BY <1>1, <1>4, <2>1, <2>2
  <2>4. Aged[y] <= Aged[x]
    BY <1>1, <1>2, <2>1, <2>3
  <2> QED
    BY <1>2, <2>1, <2>2, <2>4 DEF Pri
<1> QED
  BY <1>3, <1>4, OrderedMonotone

LEMMA PriorityUpdateInv ==
  ASSUME SchedInv, PriorityUpdate
  PROVE  SchedInv'
<1>1. /\ handler = "update" /\ handler' = "return"
      /\ yield_on_return' \in BOOLEAN
      /\ yield_on_return => yield_on_return'
      /\ UNCHANGED <<ticks, status, current, thread_ticks, sema_value,
                     sema_waiters, sleep_list, alarm_ticks, wake_at, pc,
                     waiting_for, child, new_pri>>
  BY DEF PriorityUpdate, semaVars, sleepVars, localVars
<1>2. /\ priority \in [Thread -> Pri] /\ ready_list \in Seq(Thread)
      /\ IsInjective(ready_list) /\ Ordered(ready_list, Rank(priority))
      /\ ToSet(ready_list) = {t \in Thread \ {Idle} : status[t] = "ready"}
  BY DEF SchedInv, TypeOK, ElemExclusive, ReadySorted
<1>3. /\ priority' \in [Thread -> Pri] /\ ready_list' \in Seq(Thread)
      /\ IsInjective(ready_list') /\ Ordered(ready_list', Rank(priority'))
      /\ ToSet(ready_list') = ToSet(ready_list)
  <2>1. CASE priority' = Aged /\ UNCHANGED ready_list
    BY <2>1, <1>2, AgedFacts
  <2>2. ASSUME NEW p \in [Thread -> Pri],
               priority' = [t \in Thread |-> IF status[t] \in {"free", "dying"}
                                             THEN priority[t] ELSE p[t]],
               ready_list' \in ListSortResults(ready_list, Rank(priority'))
        PROVE  /\ priority' \in [Thread -> Pri] /\ ready_list' \in Seq(Thread)
               /\ IsInjective(ready_list') /\ Ordered(ready_list', Rank(priority'))
               /\ ToSet(ready_list') = ToSet(ready_list)
    <3>1. priority' \in [Thread -> Pri]
      BY <2>2, <1>2
    <3>2. Rank(priority') \in [Thread -> Int]
      BY <3>1, RankType
    <3> DEFINE key == Rank(priority')
    <3> HIDE DEF key
    <3>3. key \in [Thread -> Int] /\ ready_list' \in ListSortResults(ready_list, key)
      BY <2>2, <3>2 DEF key
    <3>4. /\ ready_list' \in Seq(Thread)
          /\ ToSet(ready_list') = ToSet(ready_list)
          /\ IsInjective(ready_list) => IsInjective(ready_list')
          /\ Ordered(ready_list', key)
      BY <1>2, <3>3, SortResult
    <3> QED
      BY <1>2, <3>1, <3>4 DEF key
  <2> QED
    BY <2>1, <2>2 DEF PriorityUpdate
<1>4. TypeOK'
  BY <1>1, <1>3 DEF SchedInv, TypeOK, Handler
<1>5. OneRunning' /\ Locations'
  BY <1>1 DEF SchedInv, OneRunning, Locations
<1>6. Construction'
  BY <1>1 DEF SchedInv, Construction, Creating
<1>7. ElemExclusive'
  <2>1. Newborn' = Newborn
    BY <1>1 DEF Newborn
  <2> QED
    BY <1>1, <1>2, <1>3, <2>1 DEF SchedInv, ElemExclusive
<1>8. ReadySorted'
  BY <1>3 DEF ReadySorted
<1>9. YieldFlag'
  BY <1>1 DEF SchedInv, YieldFlag
<1>10. SleepSorted' /\ NoOversleep' /\ TestIsFresh' /\ Preemptive'
  BY <1>1 DEF SchedInv, SleepSorted, NoOversleep, TestIsFresh, Preemptive
<1> QED
  BY <1>4, <1>5, <1>6, <1>7, <1>8, <1>9, <1>10 DEF SchedInv

LEMMA IntrReturnInv ==
  ASSUME SchedInv, IntrReturn
  PROVE  SchedInv'
<1> DEFINE st == [status EXCEPT ![current] = "ready"]
<1>1. /\ handler = "return" /\ handler' = "none"
      /\ ThreadYield(ready_list, status)
      /\ UNCHANGED <<priority, sema_value, sema_waiters, ticks,
                     yield_on_return, sleep_list, alarm_ticks, wake_at, pc,
                     waiting_for, child, new_pri>>
  BY DEF IntrReturn, SchedInv, YieldFlag, semaVars, sleepVars, localVars
<1>2. /\ current \in Thread /\ priority \in [Thread -> Pri]
      /\ status[current] = "running"
      /\ \A u \in Thread : status[u] = "running" => u = current
      /\ status \in [Thread -> Status]
      /\ status[Idle] \in {"running", "ready", "blocked"}
  BY DEF SchedInv, TypeOK, OneRunning, Locations
<1>3. Dispatched(st)
  BY <1>1, <1>2, Agreement, YieldDispatches
<1>4. SameBlocked
  BY <1>2, <1>3 DEF Dispatched, SameBlocked
<1>5. OneRunning' /\ ReadySorted' /\ Preemptive' /\ TestIsFresh'
  BY <1>1, <1>3, DispatchOrders
<1>6. ElemExclusive'
  <2>1. ReadyElems'
    BY <1>3 DEF Dispatched
  <2>2. WaiterElems'
    BY <1>1, <1>4, WaitersFrame
  <2>3. SleepElems'
    BY <1>1, <1>4, SleepFrame
  <2> QED
    BY <2>1, <2>2, <2>3, ElemParts
<1>7. TypeOK'
  BY <1>1, <1>3 DEF SchedInv, TypeOK, Dispatched, Handler
<1>8. Locations'
  <2>1. \A u \in Thread : status'[u] = "free" => status[u] = "free"
    BY <1>2, <1>3 DEF Dispatched
  <2>2. \A u \in Thread : status'[u] = "dying" => status[u] = "dying"
    BY <1>2, <1>3 DEF Dispatched
  <2>3. status'[Idle] \in {"running", "ready", "blocked"}
    BY <1>3 DEF Dispatched
  <2> QED
    BY <1>1, <2>1, <2>2, <2>3 DEF SchedInv, Locations
<1>9. Construction'
  BY <1>1, <1>4, ThreadAssumption
     DEF SchedInv, Construction, Creating, SameBlocked, Thread
<1>10. YieldFlag' /\ SleepSorted' /\ NoOversleep'
  BY <1>1 DEF SchedInv, YieldFlag, SleepSorted, NoOversleep
<1> QED
  BY <1>5, <1>6, <1>7, <1>8, <1>9, <1>10 DEF SchedInv

-----------------------------------------------------------------------------
LEMMA InitInv == Init => SchedInv
<1> SUFFICES ASSUME Init PROVE SchedInv
  OBVIOUS
<1>1. /\ Main \in Thread /\ Idle \in Thread /\ Main # Idle
      /\ PriMin \in Pri /\ PriDefault \in Pri /\ NoPri \notin Pri
  BY ThreadAssumption, PriorityAssumption DEF Thread, Pri, NoPri
<1>2. /\ <<>> \in Seq(Thread) /\ ToSet(<<>>) = {} /\ IsInjective(<<>>)
      /\ \A key : Ordered(<<>>, key)
  BY DEF ToSet, IsInjective, Ordered
<1>3. \A t \in Thread : status[t] = IF t = Main THEN "running"
                                    ELSE IF t = Idle THEN "ready" ELSE "free"
  BY <1>1 DEF Init
<1>4. TypeOK
  <2>1. status \in [Thread -> Status]
    BY <1>1 DEF Init, Status
  <2>2. priority \in [Thread -> Pri]
    BY <1>1 DEF Init
  <2>3. ticks \in 0 .. MaxTicks
    BY TimeAssumption DEF Init
  <2>4. sema_value \in [Semaphore -> Nat]
        /\ sema_waiters \in [Semaphore -> Seq(Thread)]
    BY <1>2, SemaAssumption DEF Init
  <2>5. /\ pc \in [Thread -> Location]
        /\ new_pri \in [Thread -> Pri \cup {NoPri}]
        /\ handler \in Handler
    BY DEF Init, Location, Handler
  <2>6. /\ alarm_ticks \in [Thread -> Int] /\ wake_at \in [Thread -> Int]
        /\ child \in [Thread -> Thread \cup {NoThread}]
        /\ waiting_for \in [Thread -> Semaphore \cup {NoSema}]
    BY DEF Init
  <2>7. /\ ready_list \in Seq(Thread) /\ sleep_list \in Seq(Thread)
        /\ current \in Thread /\ thread_ticks \in Nat
        /\ yield_on_return \in BOOLEAN
    BY <1>1, <1>2 DEF Init
  <2> QED
    BY <2>1, <2>2, <2>3, <2>4, <2>5, <2>6, <2>7 DEF TypeOK
<1>5. OneRunning /\ Locations
  BY <1>1, <1>3 DEF Init, OneRunning, Locations, Thread
<1>6. Construction
  BY SemaAssumption DEF Init, Construction, Creating
<1>7. ElemExclusive
  <2>1. Newborn = {}
    BY DEF Init, Newborn
  <2>2. \A t \in Thread : status[t] # "blocked" /\ (t # Idle => status[t] # "ready")
    BY <1>3
  <2> QED
    BY <1>2, <2>1, <2>2, SemaAssumption DEF Init, ElemExclusive
<1>8. ReadySorted /\ SleepSorted
  BY <1>2 DEF Init, ReadySorted, SleepSorted
<1>9. YieldFlag /\ TestIsFresh /\ Preemptive /\ NoOversleep
  BY DEF Init, YieldFlag, TestIsFresh, Preemptive, NoOversleep
<1> QED
  BY <1>4, <1>5, <1>6, <1>7, <1>8, <1>9 DEF SchedInv

LEMMA StutterInv == SchedInv /\ UNCHANGED vars => SchedInv'
<1> SUFFICES ASSUME SchedInv, UNCHANGED vars PROVE SchedInv'
  OBVIOUS
<1>1. UNCHANGED <<status, ready_list, current, thread_ticks, priority,
                  sema_value, sema_waiters, ticks, yield_on_return, handler,
                  sleep_list, alarm_ticks, wake_at, pc, waiting_for, child,
                  new_pri>>
  BY DEF vars, schedVars, semaVars, timeVars, sleepVars, localVars
<1>2. Newborn' = Newborn
  BY <1>1 DEF Newborn
<1>3. TypeOK' /\ OneRunning' /\ Locations'
  BY <1>1 DEF SchedInv, TypeOK, OneRunning, Locations
<1>4. Construction'
  BY <1>1 DEF SchedInv, Construction, Creating
<1>5. ElemExclusive' /\ ReadySorted' /\ YieldFlag' /\ SleepSorted' /\ NoOversleep'
  BY <1>1, <1>2
     DEF SchedInv, ElemExclusive, ReadySorted, YieldFlag, SleepSorted, NoOversleep
<1>6. TestIsFresh' /\ Preemptive'
  BY <1>1 DEF SchedInv, TestIsFresh, Preemptive
<1> QED
  BY <1>3, <1>4, <1>5, <1>6 DEF SchedInv

LEMMA NextInv == SchedInv /\ Next => SchedInv'
<1> SUFFICES ASSUME SchedInv, Next PROVE SchedInv'
  OBVIOUS
<1>1. ASSUME NEW t \in Thread, ThreadStep(t) PROVE SchedInv'
  <2>1. CASE Yield(t)
    BY <2>1, YieldInv
  <2>2. CASE ThreadExit(t)
    BY <2>2, ThreadExitInv
  <2>3. ASSUME NEW s \in Sema,
               SemaDown(t, s) \/ SemaTryDown(t, s) \/ SemaUp(t, s)
        PROVE  SchedInv'
    BY <2>3, SemaDownInv, SemaTryDownInv, SemaUpInv
  <2>4. CASE SemaDownAgain(t)
    BY <2>4, SemaDownAgainInv
  <2>5. ASSUME NEW w \in Worker, NEW p \in NewPriority, ThreadCreate(t, w, p)
        PROVE  SchedInv'
    BY <2>5, ThreadCreateInv
  <2>6. CASE AllocateTid(t)
    BY <2>6, AllocateTidInv
  <2>7. CASE AllocateTidDone(t)
    BY <2>7, AllocateTidDoneInv
  <2>8. CASE UnblockChild(t)
    BY <2>8, UnblockChildInv
  <2>9. ASSUME NEW p \in NewPriority, ThreadSetPriority(t, p) PROVE SchedInv'
    BY <2>9, ThreadSetPriorityInv
  <2>10. ASSUME NEW p \in Pri, ThreadSetNice(t, p) PROVE SchedInv'
    BY <2>10, ThreadSetNiceInv
  <2>11. CASE TestEmpty(t)
    BY <2>11, TestEmptyInv
  <2>12. CASE TestMax(t)
    BY <2>12, TestMaxInv
  <2>13. ASSUME NEW n \in SleepTicks, TimerSleep(t, n) PROVE SchedInv'
    BY <2>13, TimerSleepInv
  <2>14. CASE ThreadSleep(t)
    BY <2>14, ThreadSleepInv
  <2> QED
    BY <1>1, <2>1, <2>2, <2>3, <2>4, <2>5, <2>6, <2>7, <2>8, <2>9, <2>10,
       <2>11, <2>12, <2>13, <2>14 DEF ThreadStep
<1>2. CASE IdleBlock
  BY <1>2, IdleBlockInv
<1>3. CASE TimerInterrupt
  BY <1>3, TimerInterruptInv
<1>4. CASE HandlerStep
  BY <1>4, ThreadAlarmWakeInv, ThreadAlarmDoneInv, PriorityUpdateInv,
     IntrReturnInv DEF HandlerStep
<1> QED
  BY <1>1, <1>2, <1>3, <1>4 DEF Next

(***************************************************************************)
(* The inductive invariant holds in every reachable state of every         *)
(* instance of the scheduler.                                              *)
(***************************************************************************)
THEOREM SchedInvariance == Spec => []SchedInv
<1>1. Init => SchedInv
  BY InitInv
<1>2. SchedInv /\ [Next]_vars => SchedInv'
  BY NextInv, StutterInv
<1> QED
  BY <1>1, <1>2, PTL DEF Spec

\* Every variable keeps the type of the C object it stands for.
THEOREM TypeInvariance == Spec => []TypeOK
<1>1. SchedInv => TypeOK
  BY DEF SchedInv
<1> QED
  BY <1>1, SchedInvariance, PTL

(***************************************************************************)
(* The elem member of a thread is in one list at most, and that list is    *)
(* the one its state calls for: no interleaving of sema_down(), sema_up(), *)
(* thread_create(), timer_sleep() and the timer interrupt loses a thread   *)
(* or links it twice.                                                      *)
(***************************************************************************)
THEOREM ElemExclusion == Spec => []ElemExclusive
<1>1. SchedInv => ElemExclusive
  BY DEF SchedInv
<1> QED
  BY <1>1, SchedInvariance, PTL

\* The ready list is sorted by priority in every state, with aging and MLFQS.
THEOREM ReadyOrder == Spec => []ReadySorted
<1>1. SchedInv => ReadySorted
  BY DEF SchedInv
<1> QED
  BY <1>1, SchedInvariance, PTL

(***************************************************************************)
(* The CPU belongs to a thread of the highest priority, except between a   *)
(* change of priorities and the thread_yield() that follows it.            *)
(***************************************************************************)
THEOREM Preemption == Spec => []Preemptive
<1>1. SchedInv => Preemptive
  BY DEF SchedInv
<1> QED
  BY <1>1, SchedInvariance, PTL

\* The sleep list is sorted by wake-up tick, as thread_alarm() needs.
THEOREM SleepOrder == Spec => []SleepSorted
<1>1. SchedInv => SleepSorted
  BY DEF SchedInv
<1> QED
  BY <1>1, SchedInvariance, PTL

\* When thread_alarm() returns, every thread whose tick has come is awake.
THEOREM NobodyOversleeps == Spec => []NoOversleep
<1>1. SchedInv => NoOversleep
  BY DEF SchedInv
<1> QED
  BY <1>1, SchedInvariance, PTL

-----------------------------------------------------------------------------
(***************************************************************************)
(* The semaphores, step by step.  A thread that waits for a semaphore is   *)
(* either linked in its waiters or woken, so Woken is a function of        *)
(* waiting_for and the lists, and a step does one of four things to them.  *)
(***************************************************************************)
LEMMA WokenThreads ==
  ASSUME SchedInv, NEW s \in Semaphore
  PROVE  Woken(s) = {t \in Thread : waiting_for[t] = s} \ ToSet(sema_waiters[s])
<1>1. ToSet(sema_waiters[s]) =
        {t \in Thread : status[t] = "blocked" /\ waiting_for[t] = s}
  BY DEF SchedInv, ElemExclusive
<1>2. \A t \in Thread : waiting_for[t] = s => status[t] \notin {"free", "dying"}
  BY SemaAssumption DEF SchedInv, Locations
<1>3. \A t \in Thread : status[t] \in Status
  BY DEF SchedInv, TypeOK
<1> QED
  BY <1>1, <1>2, <1>3 DEF Woken, Status

\* The same lemma, of the state after a step.
LEMMA WokenThreadsAfter ==
  ASSUME SchedInv', NEW s \in Semaphore
  PROVE  Woken(s)' = {t \in Thread : waiting_for'[t] = s} \ ToSet(sema_waiters'[s])
<1>1. ToSet(sema_waiters'[s]) =
        {t \in Thread : status'[t] = "blocked" /\ waiting_for'[t] = s}
  BY DEF SchedInv, ElemExclusive
<1>2. \A t \in Thread : waiting_for'[t] = s => status'[t] \notin {"free", "dying"}
  BY SemaAssumption DEF SchedInv, Locations
<1>3. \A t \in Thread : status'[t] \in Status
  BY DEF SchedInv, TypeOK
<1> QED
  BY <1>1, <1>2, <1>3 DEF Woken, Status

\* A step that has nothing to do with semaphores.
Quiet ==
  /\ UNCHANGED <<sema_value, sema_waiters, waiting_for>>
  /\ InAllocateTid' = InAllocateTid
  /\ ~Mlfqs => \A t \in Thread : status[t] = "blocked" => priority'[t] = priority[t]

\* t takes a unit of s.
Takes(t, s) ==
  /\ sema_value[s] > 0
  /\ sema_value' = [sema_value EXCEPT ![s] = @ - 1]
  /\ \A u \in Thread : u # t => waiting_for'[u] = waiting_for[u]
  /\ waiting_for[t] \in {NoSema, s} /\ waiting_for'[t] = NoSema
  /\ t \notin InAllocateTid
  /\ InAllocateTid' = IF s = TidLock THEN InAllocateTid \cup {t} ELSE InAllocateTid
  /\ UNCHANGED <<sema_waiters, priority>>

\* t begins to wait for s, or waits again.
Waits(t, s) ==
  /\ sema_value[s] = 0
  /\ sema_waiters' = [sema_waiters EXCEPT ![s] = EnterWaiters(@, t)]
  /\ t \notin ToSet(sema_waiters[s])
  /\ \A u \in Thread : u # t => waiting_for'[u] = waiting_for[u]
  /\ waiting_for[t] \in {NoSema, s} /\ waiting_for'[t] = s
  /\ InAllocateTid' = InAllocateTid
  /\ UNCHANGED <<sema_value, priority>>

\* t gives a unit of s back and wakes the first waiter.
Gives(t, s) ==
  /\ sema_value' = [sema_value EXCEPT ![s] = @ + 1]
  /\ sema_waiters' =
       IF sema_waiters[s] = <<>> THEN sema_waiters
       ELSE [sema_waiters EXCEPT ![s] = Tail(@)]
  /\ s = TidLock => t \in InAllocateTid
  /\ InAllocateTid' = IF s = TidLock THEN InAllocateTid \ {t} ELSE InAllocateTid
  /\ UNCHANGED <<waiting_for, priority>>

SemaStep ==
  \/ Quiet
  \/ \E t \in Thread, s \in Semaphore : Takes(t, s) \/ Waits(t, s) \/ Gives(t, s)

\* How a change of one program counter shows in allocate_tid().
LEMMA TidLocation ==
  ASSUME SchedInv, NEW t \in Thread, NEW loc \in Location,
         pc' = [pc EXCEPT ![t] = loc]
  PROVE  InAllocateTid' = IF loc = "tid" THEN InAllocateTid \cup {t}
                          ELSE InAllocateTid \ {t}
BY DEF InAllocateTid, SchedInv, TypeOK

LEMMA DownTurnSteps ==
  ASSUME SchedInv, NEW t \in Thread, NEW s \in Semaphore,
         current = t, pc[t] # "tid", waiting_for[t] \in {NoSema, s},
         DownTurn(t, s)
  PROVE  Takes(t, s) \/ Waits(t, s)
<1>1. /\ waiting_for \in [Thread -> Semaphore \cup {NoSema}]
      /\ t \notin InAllocateTid /\ t \notin ToSet(sema_waiters[s])
  BY RunningThread DEF SchedInv, TypeOK, InAllocateTid
<1>2. CASE sema_value[s] = 0
  <2>1. /\ sema_waiters' = [sema_waiters EXCEPT ![s] = EnterWaiters(@, t)]
        /\ waiting_for' = [waiting_for EXCEPT ![t] = s]
        /\ pc' = [pc EXCEPT ![t] = "down"]
        /\ UNCHANGED <<priority, sema_value>>
    BY <1>2 DEF DownTurn, Goto
  <2>2. InAllocateTid' = InAllocateTid \ {t}
    <3>1. "down" \in Location /\ "down" # "tid"
      BY DEF Location
    <3> QED
      BY <2>1, <3>1, TidLocation
  <2> QED
    BY <1>1, <1>2, <2>1, <2>2 DEF Waits
<1>3. CASE sema_value[s] # 0
  <2>1. /\ sema_value[s] > 0
        /\ sema_value' = [sema_value EXCEPT ![s] = @ - 1]
        /\ waiting_for' = [waiting_for EXCEPT ![t] = NoSema]
        /\ pc' = [pc EXCEPT ![t] = AfterDown(s)]
        /\ UNCHANGED <<priority, sema_waiters>>
    BY <1>3 DEF DownTurn, Goto
  <2>2. InAllocateTid' =
          IF s = TidLock THEN InAllocateTid \cup {t} ELSE InAllocateTid
    <3>1. AfterDown(s) \in Location /\ (AfterDown(s) = "tid" <=> s = TidLock)
      BY DEF AfterDown, Location
    <3>2. InAllocateTid' = IF AfterDown(s) = "tid" THEN InAllocateTid \cup {t}
                           ELSE InAllocateTid \ {t}
      BY <2>1, <3>1, TidLocation
    <3> QED
      BY <1>1, <3>1, <3>2
  <2> QED
    BY <1>1, <2>1, <2>2 DEF Takes
<1> QED
  BY <1>2, <1>3

LEMMA UpSteps ==
  ASSUME SchedInv, NEW t \in Thread, NEW s \in Semaphore,
         NEW loc \in {"run", "unblock"}, s = TidLock <=> pc[t] = "tid",
         Up(t, s, loc)
  PROVE  Gives(t, s)
<1>1. InAllocateTid' =
        IF s = TidLock THEN InAllocateTid \ {t} ELSE InAllocateTid
  <2>1. pc' = [pc EXCEPT ![t] = loc] /\ loc \in Location
    BY DEF Up, Goto, Location
  <2> QED
    BY <2>1, TidLocation DEF InAllocateTid
<1>2. s = TidLock => t \in InAllocateTid
  BY DEF InAllocateTid
<1> QED
  BY <1>1, <1>2 DEF Up, Gives

\* A thread moves from one place outside allocate_tid() to another.
LEMMA QuietMove ==
  ASSUME SchedInv, NEW t \in Thread, t = current, pc[t] # "tid",
         NEW loc \in Location \ {"tid"},
         pc' = [pc EXCEPT ![t] = loc] \/ UNCHANGED pc,
         UNCHANGED <<sema_value, sema_waiters, waiting_for>>,
         \A u \in Thread : status[u] = "blocked" => priority'[u] = priority[u]
  PROVE  Quiet
<1>1. InAllocateTid' = InAllocateTid
  <2>1. CASE UNCHANGED pc
    BY <2>1 DEF InAllocateTid
  <2>2. CASE pc' = [pc EXCEPT ![t] = loc]
    BY <2>2, TidLocation DEF InAllocateTid
  <2> QED
    BY <2>1, <2>2
<1> QED
  BY <1>1 DEF Quiet

\* The running thread may change its priority: it is no waiter.
LEMMA OwnPriority ==
  ASSUME SchedInv, NEW t \in Thread, t = current, NEW p,
         priority' = [priority EXCEPT ![t] = p] \/ UNCHANGED priority
  PROVE  \A u \in Thread : status[u] = "blocked" => priority'[u] = priority[u]
<1>1. status[t] = "running" /\ priority \in [Thread -> Pri]
  BY RunningThread DEF SchedInv, TypeOK
<1> QED
  BY <1>1

LEMMA SemaSteps ==
  ASSUME SchedInv, [Next]_vars
  PROVE  SemaStep
<1>1. ASSUME NEW t \in Thread, ThreadStep(t) PROVE SemaStep
  <2>1. CASE Yield(t)
    BY <2>1, QuietMove DEF Yield, At, Goto, Location, semaVars, SemaStep
  <2>2. CASE ThreadExit(t)
    BY <2>2, QuietMove, OwnPriority
       DEF ThreadExit, At, Location, semaVars, localVars, SemaStep
  <2>3. ASSUME NEW s \in Sema, SemaDown(t, s) PROVE SemaStep
    <3>1. /\ s \in Semaphore /\ current = t /\ pc[t] = "run" /\ DownTurn(t, s)
          /\ waiting_for[t] = NoSema
      BY <2>3 DEF SemaDown, At, Semaphore, SchedInv, Locations
    <3> QED
      BY <3>1, DownTurnSteps DEF SemaStep
  <2>4. ASSUME NEW s \in Sema, SemaTryDown(t, s) PROVE SemaStep
    <3>1. /\ s \in Semaphore /\ s # TidLock /\ pc[t] = "run"
          /\ waiting_for[t] = NoSema
      BY <2>4, SemaAssumption DEF SemaTryDown, At, Semaphore, SchedInv, Locations
    <3>2. t \notin InAllocateTid /\ InAllocateTid' = InAllocateTid
      BY <2>4, <3>1 DEF SemaTryDown, InAllocateTid, localVars
    <3>3. Takes(t, s)
      BY <2>4, <3>1, <3>2 DEF SemaTryDown, Takes, localVars
    <3> QED
      BY <3>1, <3>3 DEF SemaStep
  <2>5. ASSUME NEW s \in Sema, SemaUp(t, s) PROVE SemaStep
    <3>1. s \in Semaphore /\ s # TidLock /\ pc[t] = "run" /\ Up(t, s, "run")
      BY <2>5, SemaAssumption DEF SemaUp, At, Semaphore
    <3> QED
      BY <3>1, UpSteps DEF SemaStep
  <2>6. CASE SemaDownAgain(t)
    <3>1. /\ current = t /\ pc[t] = "down" /\ DownTurn(t, waiting_for[t])
          /\ waiting_for[t] \in Semaphore
      BY <2>6 DEF SemaDownAgain, At, SchedInv, Locations, TypeOK
    <3> QED
      BY <3>1, DownTurnSteps DEF SemaStep
  <2>7. ASSUME NEW w \in Worker, NEW p \in NewPriority, ThreadCreate(t, w, p)
        PROVE  SemaStep
    <3>1. /\ status[w] = "free" /\ priority' = [priority EXCEPT ![w] = p]
          /\ current = t /\ pc[t] = "run" /\ pc' = [pc EXCEPT ![t] = "create"]
          /\ UNCHANGED <<sema_value, sema_waiters, waiting_for>>
      BY <2>7 DEF ThreadCreate, At, Goto, semaVars
    <3>2. \A u \in Thread : status[u] = "blocked" => priority'[u] = priority[u]
      BY <3>1 DEF SchedInv, TypeOK
    <3> QED
      BY <3>1, <3>2, QuietMove DEF Location, SemaStep
  <2>8. CASE AllocateTid(t)
    <3>1. /\ TidLock \in Semaphore /\ current = t /\ pc[t] = "create"
          /\ DownTurn(t, TidLock) /\ waiting_for[t] = NoSema
      BY <2>8 DEF AllocateTid, At, Semaphore, SchedInv, Locations
    <3> QED
      BY <3>1, DownTurnSteps DEF SemaStep
  <2>9. CASE AllocateTidDone(t)
    <3>1. TidLock \in Semaphore /\ pc[t] = "tid" /\ Up(t, TidLock, "unblock")
      BY <2>9 DEF AllocateTidDone, At, Semaphore
    <3> QED
      BY <3>1, UpSteps DEF SemaStep
  <2>10. CASE UnblockChild(t)
    BY <2>10, QuietMove DEF UnblockChild, At, Goto, Location, semaVars, SemaStep
  <2>11. ASSUME NEW p, ThreadSetPriority(t, p) \/ ThreadSetNice(t, p)
         PROVE  SemaStep
    BY <2>11, QuietMove, OwnPriority
       DEF ThreadSetPriority, ThreadSetNice, At, Goto, Location, semaVars, SemaStep
  <2>12. CASE TestEmpty(t)
    BY <2>12, QuietMove DEF TestEmpty, At, Goto, Location, semaVars, SemaStep
  <2>13. CASE TestMax(t)
    BY <2>13, QuietMove DEF TestMax, At, Goto, Location, semaVars, SemaStep
  <2>14. ASSUME NEW n, TimerSleep(t, n) PROVE SemaStep
    BY <2>14, QuietMove DEF TimerSleep, At, Goto, Location, semaVars, SemaStep
  <2>15. CASE ThreadSleep(t)
    BY <2>15, QuietMove DEF ThreadSleep, At, Goto, Location, semaVars, SemaStep
  <2> QED
    BY <1>1, <2>1, <2>2, <2>3, <2>4, <2>5, <2>6, <2>7, <2>8, <2>9, <2>10,
       <2>11, <2>12, <2>13, <2>14, <2>15 DEF ThreadStep
<1>2. CASE IdleBlock
  BY <1>2, QuietMove DEF IdleBlock, At, Goto, Location, semaVars, SemaStep, Thread
<1>3. CASE TimerInterrupt
  <2>1. \A u \in Thread : pc'[u] = "tid" <=> pc[u] = "tid"
    BY <1>3 DEF TimerInterrupt, SchedInv, TypeOK
  <2> QED
    BY <1>3, <2>1 DEF TimerInterrupt, Quiet, SemaStep, InAllocateTid, semaVars
<1>4. CASE HandlerStep
  <2>1. /\ UNCHANGED <<sema_value, sema_waiters, waiting_for, pc>>
        /\ UNCHANGED priority \/ PriorityUpdate
    BY <1>4 DEF HandlerStep, ThreadAlarmWake, ThreadAlarmDone, PriorityUpdate,
                IntrReturn, semaVars, localVars
  <2>2. ASSUME ~Mlfqs, PriorityUpdate, NEW u \in Thread, status[u] = "blocked"
        PROVE  priority'[u] = priority[u]
    <3>1. priority' = Aged
      BY <2>2 DEF PriorityUpdate, UpdateDue
    <3>2. u \notin ToSet(ready_list)
      BY <2>2 DEF SchedInv, ElemExclusive
    <3> QED
      BY <3>1, <3>2 DEF Aged
  <2> QED
    BY <2>1, <2>2 DEF Quiet, SemaStep, InAllocateTid
<1>5. CASE UNCHANGED vars
  BY <1>5 DEF vars, semaVars, localVars, Quiet, SemaStep, InAllocateTid
<1> QED
  BY <1>1, <1>2, <1>3, <1>4, <1>5 DEF Next

(***************************************************************************)
(* The waiters of every semaphore are sorted by priority, so sema_up()     *)
(* wakes one of the highest: a thread's priority changes only while it     *)
(* runs, or while it is in the ready list.  With the MLFQS scheduler this  *)
(* does not hold: update_priority() changes the priorities of the waiters  *)
(* too and sorts nothing but the ready list.                               *)
(***************************************************************************)
THEOREM WaitersOrder ==
  ASSUME ~Mlfqs
  PROVE  Spec => []WaitersSorted
<1>1. Init => WaitersSorted
  BY DEF Init, WaitersSorted, Ordered
<1>2. SchedInv /\ SchedInv' /\ WaitersSorted /\ [Next]_vars => WaitersSorted'
  <2> SUFFICES ASSUME SchedInv, SchedInv', WaitersSorted, [Next]_vars,
                      NEW s \in Semaphore
               PROVE  Ordered(sema_waiters'[s], Rank(priority'))
    BY DEF WaitersSorted
  <2>1. /\ sema_waiters \in [Semaphore -> Seq(Thread)]
        /\ priority \in [Thread -> Pri] /\ priority' \in [Thread -> Pri]
        /\ Ordered(sema_waiters[s], Rank(priority))
    BY DEF SchedInv, TypeOK, WaitersSorted
  <2>2. Rank(priority) \in [Thread -> Int]
    BY <2>1, RankType
  <2>3. SemaStep
    BY SemaSteps
  <2>4. CASE Quiet
    <3>1. \A t \in ToSet(sema_waiters[s]) : t \in Thread /\ priority'[t] = priority[t]
      BY <2>4 DEF Quiet, SchedInv, ElemExclusive
    <3>2. \A t \in ToSet(sema_waiters[s]) : Rank(priority')[t] = Rank(priority)[t]
      BY <3>1 DEF Rank
    <3>3. sema_waiters'[s] = sema_waiters[s]
      BY <2>4 DEF Quiet
    <3> QED
      BY <2>1, <3>2, <3>3, OrderedMonotone
  <2>5. ASSUME NEW t \in Thread, NEW r \in Semaphore, Takes(t, r)
        PROVE  Ordered(sema_waiters'[s], Rank(priority'))
    BY <2>1, <2>5 DEF Takes, Rank
  <2>6. ASSUME NEW t \in Thread, NEW r \in Semaphore, Waits(t, r)
        PROVE  Ordered(sema_waiters'[s], Rank(priority'))
    <3>1. Rank(priority') = Rank(priority)
      BY <2>6 DEF Waits
    <3>2. \/ sema_waiters'[s] = sema_waiters[s]
          \/ sema_waiters'[s] =
               ListInsertOrdered(sema_waiters[s], t, Rank(priority))
      BY <2>1, <2>6 DEF Waits, EnterWaiters
    <3> QED
      BY <2>1, <2>2, <3>1, <3>2, InsertOrdered
  <2>7. ASSUME NEW t \in Thread, NEW r \in Semaphore, Gives(t, r)
        PROVE  Ordered(sema_waiters'[s], Rank(priority'))
    <3>1. Rank(priority') = Rank(priority)
      BY <2>7 DEF Gives
    <3>2. \/ sema_waiters'[s] = sema_waiters[s]
          \/ sema_waiters[s] # <<>> /\ sema_waiters'[s] = Tail(sema_waiters[s])
      BY <2>1, <2>7 DEF Gives
    <3>3. sema_waiters[s] # <<>> =>
            Ordered(Tail(sema_waiters[s]), Rank(priority))
      BY <2>1, <2>2, PopFront
    <3> QED
      BY <2>1, <3>1, <3>2, <3>3
  <2> QED
    BY <2>3, <2>4, <2>5, <2>6, <2>7 DEF SemaStep
<1> QED
  BY <1>1, <1>2, SchedInvariance, PTL DEF Spec

-----------------------------------------------------------------------------
LEMMA ThreadsFinite ==
  ASSUME NEW S \in SUBSET Thread
  PROVE  IsFiniteSet(S) /\ Cardinality(S) \in Nat
<1>1. IsFiniteSet(Worker)
  BY ThreadAssumption
<1>2. IsFiniteSet((Worker \cup {Main}) \cup {Idle})
  BY <1>1, FS_AddElement
<1>3. Thread = (Worker \cup {Main}) \cup {Idle}
  BY DEF Thread
<1> QED
  BY <1>2, <1>3, FS_Subset, FS_CardinalityType

\* The unit of tid_lock is free or with one thread, after every step.
LEMMA TidStep ==
  ASSUME SchedInv, TidExclusive, SemaStep
  PROVE  TidExclusive'
<1>1. /\ TidLock \in Semaphore /\ sema_value \in [Semaphore -> Nat]
      /\ InAllocateTid \in SUBSET Thread
      /\ Cardinality(InAllocateTid) + sema_value[TidLock] = 1
  BY DEF Semaphore, SchedInv, TypeOK, InAllocateTid, TidExclusive
<1>2. IsFiniteSet(InAllocateTid) /\ Cardinality(InAllocateTid) \in Nat
  BY <1>1, ThreadsFinite
<1> SUFFICES Cardinality(InAllocateTid') + sema_value'[TidLock] = 1
  BY DEF TidExclusive, InAllocateTid
<1> HIDE DEF InAllocateTid
<1>3. CASE Quiet
  BY <1>1, <1>3 DEF Quiet
<1>4. ASSUME NEW t \in Thread, NEW s \in Semaphore, Takes(t, s)
      PROVE  Cardinality(InAllocateTid') + sema_value'[TidLock] = 1
  <2>1. Cardinality(InAllocateTid \cup {t}) = Cardinality(InAllocateTid) + 1
    BY <1>2, <1>4, FS_AddElement DEF Takes
  <2>2. CASE s = TidLock
    <3>1. /\ InAllocateTid' = InAllocateTid \cup {t}
          /\ sema_value'[TidLock] = sema_value[TidLock] - 1
      BY <1>1, <1>4, <2>2 DEF Takes
    <3> QED
      BY <1>1, <1>2, <2>1, <3>1
  <2>3. CASE s # TidLock
    BY <1>1, <1>4, <2>3 DEF Takes
  <2> QED
    BY <2>2, <2>3
<1>5. ASSUME NEW t \in Thread, NEW s \in Semaphore, Waits(t, s)
      PROVE  Cardinality(InAllocateTid') + sema_value'[TidLock] = 1
  BY <1>1, <1>5 DEF Waits
<1>6. ASSUME NEW t \in Thread, NEW s \in Semaphore, Gives(t, s)
      PROVE  Cardinality(InAllocateTid') + sema_value'[TidLock] = 1
  <2>1. CASE s = TidLock
    <3>1. /\ t \in InAllocateTid /\ InAllocateTid' = InAllocateTid \ {t}
          /\ sema_value'[TidLock] = sema_value[TidLock] + 1
      BY <1>1, <1>6, <2>1 DEF Gives
    <3>2. Cardinality(InAllocateTid \ {t}) = Cardinality(InAllocateTid) - 1
      BY <1>2, <3>1, FS_RemoveElement
    <3> QED
      BY <1>1, <1>2, <3>1, <3>2
  <2>2. CASE s # TidLock
    BY <1>1, <1>6, <2>2 DEF Gives
  <2> QED
    BY <2>1, <2>2
<1> QED
  BY <1>3, <1>4, <1>5, <1>6 DEF SemaStep

(***************************************************************************)
(* Every unit of a semaphore that has waiters is spoken for, after every   *)
(* step: a thread that takes a unit leaves the woken ones, a thread waits  *)
(* only when there is no unit, and sema_up() wakes one thread for the unit *)
(* it adds.                                                                *)
(***************************************************************************)
UnitsSpokenFor(s) ==
  sema_waiters[s] # <<>> => sema_value[s] <= Cardinality(Woken(s))

LEMMA UnitsStep ==
  ASSUME SchedInv, SchedInv', SemaStep, NEW s \in Semaphore, UnitsSpokenFor(s)
  PROVE  UnitsSpokenFor(s)'
<1> DEFINE W == Woken(s)
           V == {t \in Thread : waiting_for'[t] = s} \ ToSet(sema_waiters'[s])
<1>1. /\ sema_value \in [Semaphore -> Nat]
      /\ sema_waiters \in [Semaphore -> Seq(Thread)]
      /\ sema_waiters[s] \in Seq(Thread)
      /\ waiting_for \in [Thread -> Semaphore \cup {NoSema}]
      /\ W = {t \in Thread : waiting_for[t] = s} \ ToSet(sema_waiters[s])
      /\ sema_waiters[s] # <<>> => sema_value[s] <= Cardinality(W)
      /\ sema_value'[s] \in Nat
  BY WokenThreads DEF SchedInv, TypeOK, UnitsSpokenFor
<1>2. /\ W \in SUBSET Thread /\ V \in SUBSET Thread
      /\ IsFiniteSet(W) /\ Cardinality(W) \in Nat
      /\ IsFiniteSet(V) /\ Cardinality(V) \in Nat
  <2>1. W \in SUBSET Thread /\ V \in SUBSET Thread
    BY <1>1
  <2> QED
    BY <2>1, ThreadsFinite
<1> SUFFICES ASSUME sema_waiters'[s] # <<>>
             PROVE  sema_value'[s] <= Cardinality(V)
  BY WokenThreadsAfter DEF UnitsSpokenFor
<1> HIDE DEF W, V
<1>3. \A X : X \subseteq V => Cardinality(X) <= Cardinality(V)
  BY <1>2, FS_Subset
<1>4. CASE Quiet
  <2>1. W \subseteq V
    BY <1>1, <1>4 DEF Quiet, V
  <2>2. /\ sema_value'[s] = sema_value[s]
        /\ sema_waiters'[s] = sema_waiters[s]
    BY <1>4 DEF Quiet
  <2> QED
    BY <1>1, <1>2, <1>3, <2>1, <2>2
<1>5. ASSUME NEW t \in Thread, NEW r \in Semaphore, Takes(t, r)
      PROVE  sema_value'[s] <= Cardinality(V)
  <2>1. sema_waiters' = sema_waiters
    BY <1>5 DEF Takes
  <2>2. CASE r = s
    <3>1. W \ {t} \subseteq V
      BY <1>1, <1>5, <2>1 DEF Takes, V
    <3>2. Cardinality(W \ {t}) = IF t \in W THEN Cardinality(W) - 1
                                 ELSE Cardinality(W)
      BY <1>2, FS_RemoveElement
    <3>3. sema_value'[s] = sema_value[s] - 1 /\ sema_value[s] \in Nat
      BY <1>1, <1>5, <2>2 DEF Takes
    <3> QED
      BY <1>1, <1>2, <1>3, <2>1, <3>1, <3>2, <3>3
  <2>3. CASE r # s
    <3>1. W \subseteq V
      BY <1>1, <1>5, <2>1, <2>3, SemaAssumption DEF Takes, V
    <3>2. sema_value'[s] = sema_value[s]
      BY <1>1, <1>5, <2>3 DEF Takes
    <3> QED
      BY <1>1, <1>2, <1>3, <2>1, <3>1, <3>2
  <2> QED
    BY <2>2, <2>3
<1>6. ASSUME NEW t \in Thread, NEW r \in Semaphore, Waits(t, r)
      PROVE  sema_value'[s] <= Cardinality(V)
  <2>1. CASE r = s
    <3>1. sema_value'[s] = 0
      BY <1>6, <2>1 DEF Waits
    <3> QED
      BY <1>2, <3>1
  <2>2. CASE r # s
    <3>1. /\ sema_waiters'[s] = sema_waiters[s]
          /\ sema_value'[s] = sema_value[s]
      BY <1>1, <1>6, <2>2 DEF Waits
    <3>2. W \subseteq V
      BY <1>1, <1>6, <2>2, <3>1, SemaAssumption DEF Waits, V
    <3> QED
      BY <1>1, <1>2, <1>3, <3>1, <3>2
  <2> QED
    BY <2>1, <2>2
<1>7. ASSUME NEW t \in Thread, NEW r \in Semaphore, Gives(t, r)
      PROVE  sema_value'[s] <= Cardinality(V)
  <2>1. waiting_for' = waiting_for
    BY <1>7 DEF Gives
  <2>2. CASE r = s
    <3>1. /\ sema_waiters[s] # <<>>
          /\ sema_waiters'[s] = Tail(sema_waiters[s])
          /\ sema_value'[s] = sema_value[s] + 1
      BY <1>1, <1>7, <2>2 DEF Gives
    <3> DEFINE first == Head(sema_waiters[s])
    <3>2. /\ first \in Thread /\ first \in ToSet(sema_waiters[s])
          /\ first \notin ToSet(sema_waiters'[s])
          /\ ToSet(sema_waiters'[s]) \subseteq ToSet(sema_waiters[s])
          /\ waiting_for[first] = s
      <4>1. Rank(priority) \in [Thread -> Int]
        BY RankType DEF SchedInv, TypeOK
      <4>2. /\ IsInjective(sema_waiters[s])
            /\ \A u \in ToSet(sema_waiters[s]) : waiting_for[u] = s
        BY DEF SchedInv, ElemExclusive
      <4>3. /\ first \in Thread /\ first \in ToSet(sema_waiters[s])
            /\ ToSet(sema_waiters[s]) = ToSet(Tail(sema_waiters[s])) \cup {first}
            /\ first \notin ToSet(Tail(sema_waiters[s]))
        BY <1>1, <3>1, <4>1, <4>2, PopFront
      <4> QED
        BY <3>1, <4>2, <4>3
    <3> HIDE DEF first
    <3>3. W \cup {first} \subseteq V /\ first \notin W
      BY <1>1, <2>1, <3>2 DEF V
    <3>4. Cardinality(W \cup {first}) = Cardinality(W) + 1
      BY <1>2, <3>3, FS_AddElement
    <3> QED
      BY <1>1, <1>2, <1>3, <3>1, <3>3, <3>4
  <2>3. CASE r # s
    <3>1. /\ sema_waiters'[s] = sema_waiters[s]
          /\ sema_value'[s] = sema_value[s]
      BY <1>1, <1>7, <2>3 DEF Gives
    <3>2. W \subseteq V
      BY <1>1, <2>1, <3>1 DEF V
    <3> QED
      BY <1>1, <1>2, <1>3, <3>1, <3>2
  <2> QED
    BY <2>2, <2>3
<1> QED
  BY <1>4, <1>5, <1>6, <1>7 DEF SemaStep

(***************************************************************************)
(* No wake-up is lost, whatever the timer interrupt preempts and whoever   *)
(* takes a unit before the thread that was woken for it: sema_down() tests *)
(* the value again, and the thread waits again only when it is zero.  The  *)
(* unit of tid_lock is with at most one thread.                            *)
(***************************************************************************)
THEOREM NoLostWakeups == Spec => []NoLostWakeup
<1>1. Init => NoLostWakeup
  <2> SUFFICES ASSUME Init PROVE NoLostWakeup
    OBVIOUS
  <2>1. InAllocateTid = {}
    BY DEF Init, InAllocateTid
  <2>2. TidExclusive
    BY <2>1, FS_EmptySet DEF Init, TidExclusive, Semaphore
  <2> QED
    BY <2>2 DEF Init, NoLostWakeup
<1>2. SchedInv /\ SchedInv' /\ NoLostWakeup /\ [Next]_vars => NoLostWakeup'
  <2> SUFFICES ASSUME SchedInv, SchedInv', NoLostWakeup, [Next]_vars
               PROVE  NoLostWakeup'
    OBVIOUS
  <2>1. TidExclusive /\ \A s \in Semaphore : UnitsSpokenFor(s)
    BY DEF NoLostWakeup, UnitsSpokenFor
  <2>2. SemaStep
    BY SemaSteps
  <2>3. TidExclusive'
    BY <2>1, <2>2, TidStep
  <2>4. \A s \in Semaphore : UnitsSpokenFor(s)'
    BY <2>1, <2>2, UnitsStep
  <2> QED
    BY <2>3, <2>4 DEF NoLostWakeup, UnitsSpokenFor
<1> QED
  BY <1>1, <1>2, SchedInvariance, PTL DEF Spec

-----------------------------------------------------------------------------
(***************************************************************************)
(* The alarm clock.  A deadline that an int can hold is stored as it is.   *)
(***************************************************************************)
LEMMA ToIntExact ==
  ASSUME NEW x \in 0 .. IntMax
  PROVE  ToInt(x) = x
<1>1. IntMax \in Nat /\ x \in Nat /\ x <= IntMax
  BY TimeAssumption
<1> DEFINE m == 2 * (IntMax + 1)
           y == x + IntMax + 1
<1>2. m \in Nat /\ y \in Nat /\ y < m
  BY <1>1
<1>3. y % m = y
  <2> HIDE DEF m, y
  <2> QED
    BY <1>2
<1> QED
  BY <1>1, <1>3 DEF ToInt

\* Every sleeper's alarm_ticks is the deadline it asked for, as an int.
AlarmsHold ==
  /\ \A t \in Thread : wake_at[t] <= MaxTicks
  /\ \A t \in ToSet(sleep_list) : alarm_ticks[t] = ToInt(wake_at[t])

\* What may happen to the sleepers in one step.
LEMMA SleepStep ==
  ASSUME [Next]_vars
  PROVE  \/ UNCHANGED sleepVars
         \/ ThreadAlarmWake
         \/ \E t \in Thread : ThreadSleep(t) \/ \E n \in SleepTicks : TimerSleep(t, n)
<1>1. ASSUME NEW t \in Thread, ThreadStep(t)
      PROVE  \/ UNCHANGED sleepVars
             \/ ThreadSleep(t) \/ \E n \in SleepTicks : TimerSleep(t, n)
  BY <1>1 DEF ThreadStep, Yield, ThreadExit, SemaDown, SemaTryDown, SemaUp,
     SemaDownAgain, DownTurn, Up, ThreadCreate, AllocateTid, AllocateTidDone,
     UnblockChild, ThreadSetPriority, ThreadSetNice, TestEmpty, TestMax
<1>2. IdleBlock \/ TimerInterrupt \/ UNCHANGED vars => UNCHANGED sleepVars
  BY DEF IdleBlock, TimerInterrupt, vars
<1>3. HandlerStep => UNCHANGED sleepVars \/ ThreadAlarmWake
  BY DEF HandlerStep, ThreadAlarmDone, PriorityUpdate, IntrReturn
<1> QED
  BY <1>1, <1>2, <1>3 DEF Next

LEMMA AlarmsHoldStep ==
  ASSUME SchedInv, SchedInv', AlarmsHold, [Next]_vars
  PROVE  AlarmsHold'
<1>1. /\ wake_at \in [Thread -> Int] /\ alarm_ticks \in [Thread -> Int]
      /\ MaxTicks \in Nat /\ ToSet(sleep_list) \subseteq Thread
      /\ ToSet(sleep_list') \subseteq Thread
      /\ \A t \in Thread : wake_at[t] <= MaxTicks
      /\ \A t \in ToSet(sleep_list) : alarm_ticks[t] = ToInt(wake_at[t])
  BY TimeAssumption DEF SchedInv, TypeOK, AlarmsHold, ElemExclusive
<1>2. CASE UNCHANGED sleepVars
  BY <1>2 DEF sleepVars, AlarmsHold
<1>3. ASSUME NEW t \in Thread, NEW n \in SleepTicks, TimerSleep(t, n)
      PROVE  AlarmsHold'
  <2>1. /\ ticks + n <= MaxTicks /\ wake_at' = [wake_at EXCEPT ![t] = ticks + n]
        /\ UNCHANGED <<sleep_list, alarm_ticks>> /\ current = t
    BY <1>3 DEF TimerSleep, At
  <2>2. t \notin ToSet(sleep_list)
    BY <2>1, RunningThread
  <2> QED
    BY <1>1, <2>1, <2>2 DEF AlarmsHold
<1>4. ASSUME NEW t \in Thread, ThreadSleep(t)
      PROVE  AlarmsHold'
  <2>1. /\ alarm_ticks' = [alarm_ticks EXCEPT ![t] = ToInt(wake_at[t])]
        /\ sleep_list' = ListInsertOrdered(sleep_list, t, alarm_ticks')
        /\ UNCHANGED wake_at
    BY <1>4 DEF ThreadSleep
  <2>2. ToSet(sleep_list') = ToSet(sleep_list) \cup {t}
    <3>1. alarm_ticks' \in [Thread -> Int] /\ sleep_list \in Seq(Thread)
      BY DEF SchedInv, TypeOK
    <3> DEFINE key == alarm_ticks'
    <3> HIDE DEF key
    <3>2. /\ key \in [Thread -> Int] /\ sleep_list \in Seq(Thread)
          /\ sleep_list' = ListInsertOrdered(sleep_list, t, key)
      BY <2>1, <3>1 DEF key
    <3> QED
      BY <3>2, InsertOrdered
  <2> QED
    BY <1>1, <2>1, <2>2 DEF AlarmsHold
<1>5. CASE ThreadAlarmWake
  <2> DEFINE w == Head(sleep_list)
  <2>1. /\ sleep_list # <<>> /\ sleep_list' = Tail(sleep_list)
        /\ alarm_ticks' = [alarm_ticks EXCEPT ![w] = 0]
        /\ wake_at' = [wake_at EXCEPT ![w] = 0]
    BY <1>5 DEF ThreadAlarmWake, AlarmDue
  <2>2. /\ w \in Thread /\ w \notin ToSet(sleep_list')
        /\ ToSet(sleep_list') \subseteq ToSet(sleep_list)
    <3>1. /\ sleep_list \in Seq(Thread) /\ alarm_ticks \in [Thread -> Int]
          /\ IsInjective(sleep_list)
      BY DEF SchedInv, TypeOK, ElemExclusive
    <3> QED
      BY <2>1, <3>1, PopFront
  <2> HIDE DEF w
  <2> QED
    BY <1>1, <2>1, <2>2 DEF AlarmsHold
<1> QED
  BY <1>2, <1>3, <1>4, <1>5, SleepStep

\* A thread leaves the sleep list only when its own deadline has come.
LEMMA WakesInTime ==
  ASSUME SchedInv, SchedInv', AlarmsHold, MaxTicks <= IntMax, [Next]_vars,
         NEW t \in Thread, t \in ToSet(sleep_list) \ ToSet(sleep_list')
  PROVE  ticks >= wake_at[t]
<1>1. /\ sleep_list \in Seq(Thread) /\ alarm_ticks \in [Thread -> Int]
      /\ wake_at[t] \in Int /\ wake_at[t] <= MaxTicks
      /\ alarm_ticks[t] = ToInt(wake_at[t])
      /\ ticks \in Nat /\ MaxTicks \in Nat /\ IntMax \in Nat
  BY TimeAssumption DEF SchedInv, TypeOK, AlarmsHold
<1>2. ThreadAlarmWake
  <2>1. ASSUME NEW u \in Thread, ThreadSleep(u) PROVE FALSE
    <3>1. ToSet(sleep_list) \subseteq ToSet(sleep_list')
      <4>1. alarm_ticks' \in [Thread -> Int]
        BY DEF SchedInv, TypeOK
      <4> DEFINE key == alarm_ticks'
      <4> HIDE DEF key
      <4>2. /\ key \in [Thread -> Int] /\ sleep_list \in Seq(Thread)
            /\ sleep_list' = ListInsertOrdered(sleep_list, u, key)
        BY <1>1, <2>1, <4>1 DEF key, ThreadSleep
      <4>3. ToSet(sleep_list') = ToSet(sleep_list) \cup {u}
        BY <4>2, InsertOrdered
      <4> QED
        BY <4>3
    <3> QED
      BY <3>1
  <2>2. ASSUME NEW u \in Thread, NEW n \in SleepTicks, TimerSleep(u, n)
        PROVE  FALSE
    BY <2>2 DEF TimerSleep
  <2>3. ~UNCHANGED sleepVars
    BY DEF sleepVars
  <2> QED
    BY <2>1, <2>2, <2>3, SleepStep
<1>3. /\ sleep_list # <<>> /\ sleep_list' = Tail(sleep_list)
      /\ alarm_ticks[Head(sleep_list)] <= ticks
  BY <1>2 DEF ThreadAlarmWake, AlarmDue
<1>4. t = Head(sleep_list)
  <2>1. ToSet(sleep_list) = ToSet(Tail(sleep_list)) \cup {Head(sleep_list)}
    BY <1>1, <1>3, PopFront
  <2> QED
    BY <1>3, <2>1
<1>5. CASE wake_at[t] < 0
  BY <1>1, <1>5
<1>6. CASE wake_at[t] >= 0
  <2>1. wake_at[t] \in 0 .. IntMax
    BY <1>1, <1>6
  <2> QED
    BY <1>1, <1>3, <1>4, <2>1, ToIntExact
<1> QED
  BY <1>1, <1>5, <1>6

(***************************************************************************)
(* timer_sleep() never returns before its tick, as long as every tick the  *)
(* clock reaches fits in the int that holds the deadline (MaxTicks <=      *)
(* IntMax): a deadline beyond it would be stored as a negative number, and *)
(* the thread woken at once.                                               *)
(***************************************************************************)
THEOREM NobodyWakesEarly ==
  ASSUME MaxTicks <= IntMax
  PROVE  Spec => NeverEarly
<1>1. Init => AlarmsHold
  BY TimeAssumption DEF Init, AlarmsHold, ToSet
<1>2. SchedInv /\ SchedInv' /\ AlarmsHold /\ [Next]_vars => AlarmsHold'
  BY AlarmsHoldStep
<1>3. SchedInv /\ SchedInv' /\ AlarmsHold /\ [Next]_vars =>
        [\A t \in Thread :
           t \in ToSet(sleep_list) \ ToSet(sleep_list') => ticks >= wake_at[t]]_vars
  BY WakesInTime
<1> QED
  BY <1>1, <1>2, <1>3, SchedInvariance, PTL DEF Spec, NeverEarly

=============================================================================
