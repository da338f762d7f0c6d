-------------------------------- MODULE Mlfqs --------------------------------
(***************************************************************************)
(* The advanced scheduler of project 3 (-mlfqs): how nice values and the   *)
(* CPU time threads use make their priorities, and what that does to the   *)
(* ready list (threads/thread.c, timer_interrupt() in devices/timer.c).    *)
(*                                                                         *)
(* ThreadSched gives the threads any priorities; here they are computed.   *)
(* The timer interrupt handler is a step: interrupts stay off.             *)
(***************************************************************************)
EXTENDS KernelList, FixedPoint, FiniteSets

CONSTANTS
  Started,     \* the threads other than the idle one, in order of their creation
  Idle,
  TimerFreq,   \* TIMER_FREQ
  StartNice,   \* nice values the threads start with
  NewNice,     \* values passed to thread_set_nice()
  MaxNice,     \* the largest nice value
  MaxCalls,    \* bound: times a thread blocks, wakes up or calls
  FirstTick,   \* ticks at the start
  MaxTicks,    \* bound: ticks is followed up to there, or counted modulo it
  IntMax

PriMin == 0
PriMax == 63
Thread == ToSet(Started)
N == Cardinality(Thread)
Nice == -MaxNice .. MaxNice

ASSUME MlfqsAssumption ==
  /\ Started \in Seq(Thread) /\ Started # <<>> /\ IsInjective(Started)
  /\ Idle \notin Thread
  /\ TimerFreq \in Nat \ {0} /\ MaxNice \in Nat /\ MaxCalls \in Nat
  /\ StartNice \in [Thread -> Nice] /\ NewNice \subseteq Nice
  /\ MaxTicks \in Nat \ {0} /\ FirstTick \in 0 .. MaxTicks
  /\ MaxTicks % TimerFreq = 0 /\ MaxTicks % 4 = 0

VARIABLES
  load_avg,
  recent_cpu, nice, priority,  \* struct thread
  ready_list,
  current,                     \* running_thread()
  ticks,
  handler,                     \* where timer_interrupt() stands, "none": nowhere
  pc,                          \* where each thread stands in thread_set_nice()
  new_pri,                     \* the priority it has computed there
  calls,                       \* bound: calls made so far
  workload                     \* "calls", or "computing": nobody calls, and ticks
                               \* starts again at MaxTicks (the code reads it
                               \* modulo TIMER_FREQ and 4)

cpuVars == <<load_avg, recent_cpu>>
runVars == <<ready_list, current>>
vars == <<cpuVars, nice, priority, runVars, ticks, handler, pc, new_pri, calls, workload>>

Pri == PriMin .. PriMax

TypeOK ==
  /\ load_avg \in Int
  /\ recent_cpu \in [Thread -> Int] /\ nice \in [Thread -> Nice]
  /\ priority \in [Thread -> Pri] /\ new_pri \in [Thread -> Pri]
  /\ ready_list \in Seq(Thread) /\ current \in Thread \cup {Idle}
  /\ ticks \in 0 .. MaxTicks /\ handler \in {"none", "return"} /\ calls \in 0 .. MaxCalls
  /\ pc \in [Thread -> {"run", "nice", "store", "test"}] /\ workload \in {"calls", "computing"}

-----------------------------------------------------------------------------
(* Arithmetic *)

NewPriority(recent, n) ==
  LET p == RoundTowardZero(IntToFp(PriMax) - Quot(recent, 4) - IntToFp(n) * 2)
  IN IF p > PriMax THEN PriMax ELSE IF p < PriMin THEN PriMin ELSE p

NewLoadAvg(load, ready_threads) ==
  FpMulFp(FpDivFp(IntToFp(59), IntToFp(60)), load)
    + FpDivFp(IntToFp(1), IntToFp(60)) * ready_threads

\* Mutant: nothing is forgotten.
UndecayedRecentCpu(load, recent, n) == FpAddInt(recent, n)

NewRecentCpu(load, recent, n) ==
  FpAddInt(FpMulFp(FpDivFp(load * 2, FpAddInt(load * 2, 1)), recent), n)

-----------------------------------------------------------------------------
(* The ready list *)

\* priority_comp: high priorities first.
Rank(pri) == [t \in Thread |-> -pri[t]]

\* list_sort(), which is stable: the k-th element is the one with k - 1 before.
Before(l, key, i) ==
  {j \in DOMAIN l : key[l[j]] < key[l[i]] \/ (key[l[j]] = key[l[i]] /\ j < i)}
ListSort(l, key) ==
  IF Ordered(l, key) THEN l ELSE
  LET place == [i \in DOMAIN l |-> Cardinality(Before(l, key, i)) + 1]
  IN [k \in DOMAIN l |-> l[CHOOSE i \in DOMAIN l : place[i] = k]]

\* schedule()
RunNext(l) ==
  IF l = <<>> THEN current' = Idle /\ ready_list' = <<>>
              ELSE current' = Head(l) /\ ready_list' = Tail(l)

\* thread_yield()
ThreadYield(l, pri) ==
  RunNext(IF current = Idle THEN l ELSE ListInsertOrdered(l, current, Rank(pri)))

Blocked == {t \in Thread : t # current /\ t \notin ToSet(ready_list)}

\* The threads have started and set their nice values.
Init ==
  /\ load_avg = 0
  /\ recent_cpu = [t \in Thread |-> 0] /\ nice = StartNice
  /\ priority = [t \in Thread |-> NewPriority(0, StartNice[t])]
  /\ new_pri = [t \in Thread |-> PriMin]
  /\ LET l == ListSort(Started, Rank(priority))
     IN current = Head(l) /\ ready_list = Tail(l)
  /\ ticks = FirstTick /\ handler = "none"
  /\ workload \in {"calls", "computing"}
  /\ calls = IF workload = "computing" THEN MaxCalls ELSE 0
  /\ pc = [t \in Thread |-> "run"]

-----------------------------------------------------------------------------
(* The timer interrupt *)

\* Mutant: update_periodic_recent_cpu() is not called.
Uncharged == recent_cpu

\* update_periodic_recent_cpu()
Charged ==
  [t \in Thread |-> IF t = current THEN FpAddInt(recent_cpu[t], 1) ELSE recent_cpu[t]]

\* update_load_avg(), with the ready list l.
UpdatedLoadAvg(l) ==
  NewLoadAvg(load_avg, Len(l) + (IF current = Idle THEN 0 ELSE 1))

\* update_recent_cpu()
UpdatedRecentCpu(load, recent) ==
  [t \in Thread |-> NewRecentCpu(load, recent[t], nice[t])]

\* Mutant: update_priority() leaves the ready list as it is.
UpdatedUnsorted(l, pri) == l

\* update_priority(): its effect on the ready list.
UpdatedReady(l, pri) == ListSort(l, Rank(pri))

\* timer_interrupt() up to the new priorities, thread_alarm() having left the
\* ready list l.
Tick(l) ==
  LET now    == (ticks % MaxTicks) + 1
      second == now % TimerFreq = 0
      load   == IF second THEN UpdatedLoadAvg(l) ELSE load_avg
      recent == IF second THEN UpdatedRecentCpu(load, Charged) ELSE Charged
  IN /\ handler = "none" /\ (ticks = MaxTicks => workload = "computing")
     /\ ticks' = now /\ handler' = "return" /\ ready_list' = l
     /\ load_avg' = load /\ recent_cpu' = recent
     /\ priority' = IF now % 4 = 0
                    THEN [t \in Thread |-> NewPriority(recent[t], nice[t])]
                    ELSE priority
     /\ UNCHANGED <<current, nice, pc, new_pri, workload>>

TimerInterrupt == Tick(ready_list) /\ UNCHANGED calls

Call == calls < MaxCalls /\ calls' = calls + 1

TimerAlarm ==
  /\ Call
  /\ \E t \in Blocked : Tick(ListInsertOrdered(ready_list, t, Rank(priority)))

\* The end of update_priority() and of intr_handler(): thread_alarm() always
\* asks for a yield on return.
IntrReturn ==
  /\ handler = "return" /\ handler' = "none"
  /\ ThreadYield(IF ticks % 4 = 0 THEN UpdatedReady(ready_list, priority) ELSE ready_list,
                 priority)
  /\ UNCHANGED <<cpuVars, nice, priority, ticks, pc, new_pri, calls, workload>>

-----------------------------------------------------------------------------
(* Threads *)

At(t, loc) == handler = "none" /\ current = t /\ pc[t] = loc

\* thread_block()
ThreadBlock(t) ==
  /\ At(t, "run") /\ Call
  /\ RunNext(ready_list)
  /\ UNCHANGED <<cpuVars, nice, priority, ticks, handler, pc, new_pri, workload>>

\* sema_up() of what u waits for: thread_unblock(), thread_yield().
Wake(t, u) ==
  /\ At(t, "run") /\ u \in Blocked /\ Call
  /\ ThreadYield(ListInsertOrdered(ready_list, u, Rank(priority)), priority)
  /\ UNCHANGED <<cpuVars, nice, priority, ticks, handler, pc, new_pri, workload>>

\* thread_set_nice(): a timer interrupt may come between any two of its lines.
ThreadSetNice(t, n) ==
  /\ At(t, "run") /\ Call
  /\ nice' = [nice EXCEPT ![t] = n] /\ pc' = [pc EXCEPT ![t] = "nice"]
  /\ UNCHANGED <<cpuVars, priority, runVars, ticks, handler, new_pri, workload>>

ComputePriority(t) ==
  /\ At(t, "nice")
  /\ new_pri' = [new_pri EXCEPT ![t] = NewPriority(recent_cpu[t], nice[t])]
  /\ pc' = [pc EXCEPT ![t] = "store"]
  /\ UNCHANGED <<cpuVars, nice, priority, runVars, ticks, handler, calls, workload>>

StorePriority(t) ==
  /\ At(t, "store")
  /\ priority' = [priority EXCEPT ![t] = new_pri[t]]
  /\ new_pri' = [new_pri EXCEPT ![t] = PriMin]
  /\ pc' = [pc EXCEPT ![t] = "test"]
  /\ UNCHANGED <<cpuVars, nice, runVars, ticks, handler, calls, workload>>

\* (ThreadSched cuts the test where an interrupt can fall into it.)
TestYield(t) ==
  /\ At(t, "test")
  /\ pc' = [pc EXCEPT ![t] = "run"]
  /\ IF ready_list # <<>> /\ priority[t] < priority[Head(ready_list)]
       THEN ThreadYield(ready_list, priority) ELSE UNCHANGED runVars
  /\ UNCHANGED <<cpuVars, nice, priority, ticks, handler, new_pri, calls, workload>>

Next ==
  \/ TimerInterrupt \/ TimerAlarm \/ IntrReturn
  \/ \E t \in Thread :
       \/ ThreadBlock(t) \/ \E u \in Thread : Wake(t, u)
       \/ \E n \in NewNice : ThreadSetNice(t, n)
       \/ ComputePriority(t) \/ StorePriority(t) \/ TestYield(t)

Spec == Init /\ [][Next]_vars

\* The timer keeps ticking.
FairSpec == Spec /\ WF_vars(TimerInterrupt \/ IntrReturn)

-----------------------------------------------------------------------------
(* Properties *)

\* The running thread is one of the highest priority, and the ready list is in
\* order, whatever the ticks make of the priorities; only in thread_set_nice(),
\* before it has looked, may the running thread have fallen behind.
RunsHighest ==
  handler = "none" =>
    /\ Ordered(ready_list, Rank(priority))
    /\ current = Idle => ready_list = <<>>
    /\ \A t \in ToSet(ready_list) :
         current # Idle /\ pc[current] # "test" => priority[t] <= priority[current]

\* How far load_avg and recent_cpu can go, in 1/F: at most one ready thread
\* each, and what a thread can gather before forgetting balances gathering.
Ticked == ticks % TimerFreq
MostCpu == 2 * N * TimerFreq + (2 * N + 1) * MaxNice
LeastCpu == (2 * N + 1) * MaxNice
Within ==
  /\ load_avg \in 0 .. N * F
  /\ \A t \in Thread : -LeastCpu * F <= recent_cpu[t] /\ recent_cpu[t] <= (MostCpu + Ticked) * F

\* Threads that only compute, with nice values as graded as those of StartNice in
\* the run (0, 5 and 10), all go on for ever: what one uses lowers its priority
\* below that of those that wait.  This is less than the documentation's claim that
\* nice, recent_cpu and load_avg prevent starvation: for legal values further apart
\* it fails, a thread of nice 20 beside one of -20 never runs again.
NoStarvation ==
  workload = "computing" => \A t \in Thread : []<>(current = t \/ t \in Blocked)

-----------------------------------------------------------------------------
(* The inductive invariant of the proofs *)

Distinct == IsInjective(ready_list) /\ current \notin ToSet(ready_list)

\* The handler finds the list in order, and leaves it so until the priorities
\* are new.
InOrder == handler = "none" \/ ticks % 4 # 0 => Ordered(ready_list, Rank(priority))

MlfqsInv == TypeOK /\ Distinct /\ InOrder /\ Within /\ RunsHighest
=============================================================================
