------------------------------- MODULE Process -------------------------------
(***************************************************************************)
(* User processes of project 2: how exec, wait and exit are handed from    *)
(* parent to child through flags in the two struct threads, as written in  *)
(* userprog/process.c, userprog/syscall.c, userprog/exception.c and the    *)
(* USERPROG parts of threads/thread.c, with the semaphore `mutex' around   *)
(* the file system calls.                                                  *)
(*                                                                         *)
(* Threads are preempted by the timer, so any thread that is not blocked   *)
(* may take the next step.  A busy wait (`while (!flag) thread_yield ()')  *)
(* is a step whose guard is the flag.  Thread identifiers are never used   *)
(* twice; the pages of the struct threads are.                             *)
(***************************************************************************)
EXTENDS Integers, Sequences, FiniteSets

CONSTANTS
  MaxTid,  \* bound: threads created in one run
  Pages,   \* pages of the kernel pool
  Codes,   \* arguments of exit()
  Calls    \* what user programs do, of "exec", "badexec", "wait", "file", "exit",
           \* "fault" and "kill"

ASSUME ProcessAssumption ==
  /\ MaxTid \in Nat \ {0} /\ Pages \in Nat
  /\ Codes \subseteq Int

Tid      == 1 .. MaxTid
Main     == 1             \* initial_thread, the first to call allocate_tid()
TidError == -1
Status   == Codes \cup {-1, 0}

VARIABLES
  next_tid,
  pc,                  \* where each thread stands
  parent, children,    \* struct thread.parent, .child_list
  exit_status, ready_to_exit, deleted_from_parent,
  load_finish, child_load_success,
  pagedir,             \* struct thread.pagedir # NULL
  success,             \* start_process(): success
  tid,                 \* the tid exec and wait are about; after exec, its result
  answer,              \* what the last process_wait() returned
  free,                \* free pages of the kernel pool
  mutex, mutex_waiters

familyVars == <<parent, children>>
exitVars   == <<exit_status, ready_to_exit, deleted_from_parent>>
loadVars   == <<load_finish, child_load_success, success>>
memVars    == <<pagedir, free>>
mutexVars  == <<mutex, mutex_waiters>>
vars == <<next_tid, pc, familyVars, exitVars, loadVars, memVars, tid, answer,
          mutexVars>>

Location ==
  {"none",                          \* no such thread yet
   "load", "signal", "copied",      \* start_process(): before load(), before
                                    \* and after telling the parent
   "user",                          \* in user code
   "run",                           \* Main: in run_actions()
   "copy", "create", "loading",     \* process_execute(): before fn_copy is
                                    \* allocated, before thread_create(), in
                                    \* its loop
   "result",                        \* process_execute() has returned
   "wait",                          \* process_wait(): in its loop
   "blocked", "woken",              \* sema_down (&mutex): in and out of waiters
   "file",                          \* between sema_down and sema_up (&mutex)
   "exit",                          \* in exit()
   "zombie",                        \* thread_exit(): in its loop
   "dying",                         \* thread_exit(): after process_exit()
   "dead"}                          \* its page is freed

Exists(t) == pc[t] \notin {"none", "dead"}

Goto(t, l) == pc' = [pc EXCEPT ![t] = l]

Init ==
  /\ next_tid = 2
  /\ pc = [t \in Tid |-> IF t = Main THEN "run" ELSE "none"]
  /\ parent = [t \in Tid |-> Main]
  /\ children = [t \in Tid |-> IF t = Main THEN {Main} ELSE {}]
  /\ exit_status = [t \in Tid |-> 0]
  /\ ready_to_exit = [t \in Tid |-> FALSE]
  /\ deleted_from_parent = [t \in Tid |-> FALSE]
  /\ load_finish = [t \in Tid |-> FALSE]
  /\ child_load_success = [t \in Tid |-> TRUE]
  /\ pagedir = [t \in Tid |-> FALSE]
  /\ success = [t \in Tid |-> FALSE]
  /\ tid = [t \in Tid |-> TidError]
  /\ answer = [t \in Tid |-> 0]
  /\ free = Pages
  /\ mutex = 1 /\ mutex_waiters = <<>>

-----------------------------------------------------------------------------
(* exec *)

\* Bound: threads are created only while there are tids in Tid.
TidsLeft == next_tid \in Tid

\* run_task(): process_execute (task).
RunTask ==
  /\ pc[Main] = "run" /\ TidsLeft
  /\ Goto(Main, "copy")
  /\ UNCHANGED <<next_tid, familyVars, exitVars, loadVars, memVars, tid, answer,
                 mutexVars>>

\* exec(): without a file of that name there is no process_execute().
Exec(t) ==
  /\ pc[t] = "user"
  /\ \/ TidsLeft /\ Goto(t, "copy") /\ UNCHANGED tid
     \/ Goto(t, "result") /\ tid' = [tid EXCEPT ![t] = TidError]
  /\ UNCHANGED <<next_tid, familyVars, exitVars, loadVars, memVars, answer,
                 mutexVars>>

\* Mutant: process_execute() uses the page without a look at whether there is one.
CopyNameUnchecked(t) ==
  /\ pc[t] = "copy"
  /\ free' = free - 1 /\ Goto(t, "create")
  /\ UNCHANGED <<next_tid, familyVars, exitVars, loadVars, pagedir, tid, answer,
                 mutexVars>>

\* process_execute(): fn_copy = palloc_get_page (0).
CopyName(t) ==
  /\ pc[t] = "copy"
  /\ \/ /\ free = 0
        /\ Goto(t, "result") /\ tid' = [tid EXCEPT ![t] = TidError]
        /\ UNCHANGED free
     \/ /\ free > 0
        /\ free' = free - 1 /\ Goto(t, "create") /\ UNCHANGED tid
  /\ UNCHANGED <<next_tid, familyVars, exitVars, loadVars, pagedir, answer,
                 mutexVars>>

\* thread_create(), called by process_execute() in thread t.
ThreadCreate(t) ==
  /\ pc[t] = "create"
  /\ \/ /\ free = 0
        /\ Goto(t, "loading") /\ tid' = [tid EXCEPT ![t] = TidError]
        /\ UNCHANGED <<free, next_tid, familyVars>>
     \/ /\ free > 0 /\ free' = free - 1
        /\ TidsLeft /\ next_tid' = next_tid + 1
        /\ tid' = [tid EXCEPT ![t] = next_tid]
        /\ pc' = [pc EXCEPT ![t] = "loading", ![next_tid] = "load"]
        /\ parent' = [parent EXCEPT ![next_tid] = t]
        /\ children' = [children EXCEPT ![t] = @ \cup {next_tid}]
  /\ UNCHANGED <<exitVars, loadVars, pagedir, answer, mutexVars>>

\* Mutant: process_execute() does not wait for the load.
ExecuteReturnEarly(t) ==
  /\ pc[t] = "loading"
  /\ free' = IF tid[t] = TidError THEN free + 1 ELSE free
  /\ Goto(t, "result")
  /\ UNCHANGED <<next_tid, familyVars, exitVars, loadVars, pagedir, tid, answer,
                 mutexVars>>

\* process_execute(): the end of its loop, and its return.
ExecuteReturn(t) ==
  /\ pc[t] = "loading" /\ load_finish[t]
  /\ free' = IF tid[t] = TidError THEN free + 1 ELSE free
  /\ Goto(t, "result")
  /\ UNCHANGED <<next_tid, familyVars, exitVars, loadVars, pagedir, tid, answer,
                 mutexVars>>

\* exec(): its result, once process_execute() has returned.
ExecReturn(t) ==
  /\ pc[t] = "result" /\ t # Main
  /\ tid' = [tid EXCEPT ![t] = IF child_load_success[t] THEN @ ELSE TidError]
  /\ Goto(t, "user")
  /\ UNCHANGED <<next_tid, familyVars, exitVars, loadVars, memVars, answer,
                 mutexVars>>

-----------------------------------------------------------------------------
(* The new process: start_process() *)

\* Members of the parent are written through a pointer.  If the parent is
\* dead its page may hold the struct thread of any later thread, or none.
ParentPage(t) ==
  IF pc[parent[t]] # "dead" THEN {{parent[t]}}
  ELSE {{}} \cup {{u} : u \in {v \in Tid : Exists(v) /\ v > t}}

\* load(): it needs a page for the page directory, and may fail later.
Load(t) ==
  /\ pc[t] = "load"
  /\ \E ok \in BOOLEAN, at \in ParentPage(t) :
       /\ ok => free > 0
       /\ success' = [success EXCEPT ![t] = ok]
       /\ child_load_success' =
            [u \in Tid |-> child_load_success[u] /\ (ok \/ u \notin at)]
  /\ pagedir' = [pagedir EXCEPT ![t] = free > 0]
  /\ free' = IF free > 0 THEN free - 1 ELSE free
  /\ Goto(t, "signal")
  /\ UNCHANGED <<next_tid, familyVars, exitVars, load_finish, tid, answer,
                 mutexVars>>

\* Mutant: start_process() tells the parent only of a load that succeeded.
SignalSuccess(t) ==
  /\ pc[t] = "signal"
  /\ \E at \in ParentPage(t) :
       load_finish' = [u \in Tid |-> load_finish[u] \/ (u \in at /\ success[t])]
  /\ Goto(t, "copied")
  /\ UNCHANGED <<next_tid, familyVars, exitVars, child_load_success, success,
                 memVars, tid, answer, mutexVars>>

\* start_process(): thread_current ()->parent->load_finish = true.
Signal(t) ==
  /\ pc[t] = "signal"
  /\ \E at \in ParentPage(t) :
       load_finish' = [u \in Tid |-> load_finish[u] \/ u \in at]
  /\ Goto(t, "copied")
  /\ UNCHANGED <<next_tid, familyVars, exitVars, child_load_success, success,
                 memVars, tid, answer, mutexVars>>

\* start_process(): it frees fn_copy, then enters user code or thread_exit().
StartUser(t) ==
  /\ pc[t] = "copied"
  /\ free' = free + 1
  /\ Goto(t, IF success[t] THEN "user" ELSE "zombie")
  /\ ready_to_exit' = [ready_to_exit EXCEPT ![t] = ~success[t]]
  /\ UNCHANGED <<next_tid, familyVars, exit_status, deleted_from_parent, loadVars,
                 pagedir, tid, answer, mutexVars>>

-----------------------------------------------------------------------------
(* wait *)

\* process_wait(): it searches the child list, which only its owner changes.
ProcessWait(t, c, back) ==
  /\ IF c \in children[t]
     THEN Goto(t, "wait") /\ UNCHANGED answer
     ELSE Goto(t, back) /\ answer' = [answer EXCEPT ![t] = -1]
  /\ tid' = [tid EXCEPT ![t] = c]
  /\ UNCHANGED <<next_tid, familyVars, exitVars, loadVars, memVars, mutexVars>>

Wait(t) == pc[t] = "user" /\ \E c \in Tid : ProcessWait(t, c, "user")

\* run_task(): process_wait (process_execute (task)).
TaskWait == pc[Main] = "result" /\ ProcessWait(Main, tid[Main], "run")

\* Mutant: process_wait() forgets list_remove().
CollectKeepsChild(t) ==
  /\ pc[t] = "wait" /\ ready_to_exit[tid[t]]
  /\ answer' = [answer EXCEPT ![t] = exit_status[tid[t]]]
  /\ deleted_from_parent' = [deleted_from_parent EXCEPT ![tid[t]] = TRUE]
  /\ Goto(t, IF t = Main THEN "run" ELSE "user")
  /\ UNCHANGED <<next_tid, familyVars, exit_status, ready_to_exit, loadVars, memVars,
                 tid, mutexVars>>

\* Mutant: process_wait() forgets to set deleted_from_parent.
CollectKeepsZombie(t) ==
  /\ pc[t] = "wait" /\ ready_to_exit[tid[t]]
  /\ answer' = [answer EXCEPT ![t] = exit_status[tid[t]]]
  /\ children' = [children EXCEPT ![t] = @ \ {tid[t]}]
  /\ Goto(t, IF t = Main THEN "run" ELSE "user")
  /\ UNCHANGED <<next_tid, parent, exitVars, loadVars, memVars, tid, mutexVars>>

\* Mutant: process_wait() does not wait.
CollectEarly(t) ==
  /\ pc[t] = "wait"
  /\ answer' = [answer EXCEPT ![t] = exit_status[tid[t]]]
  /\ children' = [children EXCEPT ![t] = @ \ {tid[t]}]
  /\ deleted_from_parent' = [deleted_from_parent EXCEPT ![tid[t]] = TRUE]
  /\ Goto(t, IF t = Main THEN "run" ELSE "user")
  /\ UNCHANGED <<next_tid, parent, exit_status, ready_to_exit, loadVars, memVars,
                 tid, mutexVars>>

\* process_wait(): the end of its loop, and its return.
Collect(t) ==
  /\ pc[t] = "wait" /\ ready_to_exit[tid[t]]
  /\ answer' = [answer EXCEPT ![t] = exit_status[tid[t]]]
  /\ children' = [children EXCEPT ![t] = @ \ {tid[t]}]
  /\ deleted_from_parent' = [deleted_from_parent EXCEPT ![tid[t]] = TRUE]
  /\ Goto(t, IF t = Main THEN "run" ELSE "user")
  /\ UNCHANGED <<next_tid, parent, exit_status, ready_to_exit, loadVars, memVars,
                 tid, mutexVars>>

-----------------------------------------------------------------------------
(* File system calls: open(), read() and write() between sema_down and     *)
(* sema_up (&mutex)                                                        *)

SemaDown(t) ==
  /\ IF mutex = 0
     THEN /\ mutex_waiters' = Append(mutex_waiters, t)
          /\ Goto(t, "blocked") /\ UNCHANGED mutex
     ELSE /\ mutex' = mutex - 1
          /\ Goto(t, "file") /\ UNCHANGED mutex_waiters
  /\ UNCHANGED <<next_tid, familyVars, exitVars, loadVars, memVars, tid, answer>>

\* Mutant: sema_down() with "if" for "while".
FileCallOnce(t) ==
  /\ pc[t] = "woken"
  /\ mutex' = mutex - 1
  /\ Goto(t, "file")
  /\ UNCHANGED <<next_tid, familyVars, exitVars, loadVars, memVars, tid, answer,
                 mutex_waiters>>

FileCall(t)      == pc[t] = "user" /\ SemaDown(t)
FileCallAgain(t) == pc[t] = "woken" /\ SemaDown(t)

\* sema_up (&mutex): the first waiter becomes ready and tries again.
FileReturn(t) ==
  /\ pc[t] = "file"
  /\ mutex' = mutex + 1
  /\ IF mutex_waiters = <<>>
     THEN Goto(t, "user") /\ UNCHANGED mutex_waiters
     ELSE /\ mutex_waiters' = Tail(mutex_waiters)
          /\ pc' = [pc EXCEPT ![t] = "user", ![Head(mutex_waiters)] = "woken"]
  /\ UNCHANGED <<next_tid, familyVars, exitVars, loadVars, memVars, tid, answer>>

-----------------------------------------------------------------------------
(* exit, and the ways a process is killed *)

\* exit(): it stores the status, then closes the process's files.
ExitWith(t, s) ==
  /\ exit_status' = [exit_status EXCEPT ![t] = s]
  /\ Goto(t, "exit")
  /\ UNCHANGED <<next_tid, familyVars, ready_to_exit, deleted_from_parent, loadVars,
                 memVars, tid, answer, mutexVars>>

Exit(t) == pc[t] = "user" /\ \E s \in Codes : ExitWith(t, s)

\* page_fault(): exit (-1), for a fault in user code or for one of the kernel
\* on a user address it was given, inside open(), read() or write() ...
PageFault(t) == pc[t] \in {"user", "file"} /\ ExitWith(t, -1)

\* ... or where process_execute() copies the command line, of which exec() has
\* read only the first word.
CopyFault(t) == pc[t] = "create" /\ t # Main /\ ExitWith(t, -1)

\* thread_exit(): up to its loop.
ThreadExit(t) ==
  /\ ready_to_exit' = [ready_to_exit EXCEPT ![t] = TRUE]
  /\ Goto(t, "zombie")
  /\ UNCHANGED <<next_tid, familyVars, exit_status, deleted_from_parent, loadVars,
                 memVars, tid, answer, mutexVars>>

\* exit(), once the files are closed.
ExitDone(t) == pc[t] = "exit" /\ ThreadExit(t)

\* kill(): an exception of user code other than the faults above.
Kill(t) == pc[t] = "user" /\ ThreadExit(t)

\* Mutant: thread_exit() does not wait to be collected.
ProcessExitAlone(t) ==
  /\ pc[t] = "zombie"
  /\ pagedir' = [pagedir EXCEPT ![t] = FALSE]
  /\ free' = IF pagedir[t] THEN free + 1 ELSE free
  /\ Goto(t, "dying")
  /\ UNCHANGED <<next_tid, familyVars, exitVars, loadVars, tid, answer, mutexVars>>

\* Mutant: process_exit() leaves the page directory.
ProcessExitKeepsPagedir(t) ==
  /\ pc[t] = "zombie" /\ deleted_from_parent[t]
  /\ pagedir' = [pagedir EXCEPT ![t] = FALSE]
  /\ Goto(t, "dying")
  /\ UNCHANGED <<next_tid, familyVars, exitVars, loadVars, free, tid, answer,
                 mutexVars>>

\* thread_exit(): the end of its loop, and process_exit().
ProcessExit(t) ==
  /\ pc[t] = "zombie" /\ deleted_from_parent[t]
  /\ pagedir' = [pagedir EXCEPT ![t] = FALSE]
  /\ free' = IF pagedir[t] THEN free + 1 ELSE free
  /\ Goto(t, "dying")
  /\ UNCHANGED <<next_tid, familyVars, exitVars, loadVars, tid, answer, mutexVars>>

\* thread_exit(): its last schedule(), whose tail frees the page.
Destroy(t) ==
  /\ pc[t] = "dying"
  /\ Goto(t, "dead")
  /\ free' = free + 1
  /\ UNCHANGED <<next_tid, familyVars, exitVars, loadVars, pagedir, tid, answer,
                 mutexVars>>

\* main(): when shutdown() does not power the machine off.
MainExit == pc[Main] = "run" /\ ThreadExit(Main)

-----------------------------------------------------------------------------

\* What user code chooses to do ...
User(t) ==
  \/ "exec" \in Calls /\ Exec(t)
  \/ "wait" \in Calls /\ Wait(t)
  \/ "file" \in Calls /\ FileCall(t)
  \/ "exit" \in Calls /\ Exit(t)
  \/ "fault" \in Calls /\ PageFault(t)
  \/ "badexec" \in Calls /\ CopyFault(t)
  \/ "kill" \in Calls /\ Kill(t)

\* ... and what the kernel then goes on to do in thread t.
Kernel(t) ==
  \/ CopyName(t) \/ ThreadCreate(t) \/ ExecuteReturn(t) \/ ExecReturn(t)
  \/ Load(t) \/ Signal(t) \/ StartUser(t)
  \/ Collect(t)
  \/ FileCallAgain(t) \/ FileReturn(t)
  \/ ExitDone(t) \/ ProcessExit(t) \/ Destroy(t)

\* halt() and a shutdown() that powers off end a behaviour; they need no step.
Next ==
  \/ RunTask \/ TaskWait \/ MainExit
  \/ \E t \in Tid : User(t) \/ Kernel(t)

Spec == Init /\ [][Next]_vars

\* The ready list is first in, first out and the timer ends time slices: a
\* thread that stays ready takes its steps.  User code need not do anything.
Fairness ==
  /\ \A t \in Tid : WF_vars(Kernel(t))
  /\ WF_vars(TaskWait)

FairSpec == Spec /\ Fairness

-----------------------------------------------------------------------------
(* Properties *)

\* Every variable keeps the shape of what it stands for.
TypeOK ==
  /\ next_tid \in 2 .. MaxTid + 1
  /\ pc \in [Tid -> Location]
  /\ parent \in [Tid -> Tid]
  /\ children \in [Tid -> SUBSET Tid]
  /\ exit_status \in [Tid -> Status]
  /\ ready_to_exit \in [Tid -> BOOLEAN]
  /\ deleted_from_parent \in [Tid -> BOOLEAN]
  /\ load_finish \in [Tid -> BOOLEAN]
  /\ child_load_success \in [Tid -> BOOLEAN]
  /\ pagedir \in [Tid -> BOOLEAN]
  /\ success \in [Tid -> BOOLEAN]
  /\ tid \in [Tid -> Tid \cup {TidError}]
  /\ answer \in [Tid -> Status]
  /\ free \in Nat
  /\ mutex \in {0, 1}
  /\ mutex_waiters \in Seq(Tid)

\* A thread is on the child list of its parent until its parent, and nobody
\* else, has collected it: thread_create() and process_wait() keep the list
\* and deleted_from_parent in step.
ChildLists ==
  \A p, c \in Tid :
    c \in children[p] <=> /\ pc[c] # "none" /\ parent[c] = p
                          /\ ~deleted_from_parent[c]

\* process_wait() polls the struct thread of its child in a loop: that page is
\* not freed under it, and the child is still its own.
WaitedChildExists ==
  \A t \in Tid : pc[t] = "wait" =>
    tid[t] \in children[t] /\ Exists(tid[t]) /\ pc[tid[t]] # "dying"

\* Until the first child of a thread has reported, its parent is inside
\* process_execute() for it, so the pointer to the parent is good.
FirstLoadHasParent ==
  \A c \in Tid :
    pc[c] \in {"load", "signal"} /\ ~load_finish[parent[c]] =>
      pc[parent[c]] = "loading" /\ tid[parent[c]] = c

\* The pages the kernel should be holding: struct threads (Main's is not from
\* the pool), page directories, and the copies of command lines, which
\* process_execute() passes on to the thread it creates.
PagesHeld ==
  {<<"struct", t>> : t \in {u \in Tid \ {Main} : Exists(u)}} \cup
  {<<"pagedir", t>> : t \in {u \in Tid : pagedir[u]}} \cup
  {<<"fn_copy", t>> : t \in
     {u \in Tid : \/ pc[u] \in {"load", "signal", "copied", "create"}
                  \/ pc[u] = "loading" /\ tid[u] = TidError}}

\* No page that the steps above take from the kernel pool is lost or freed
\* twice, whatever path a process takes to its end.
PagesAccounted == free + Cardinality(PagesHeld) = Pages

\* At most one thread is between sema_down and sema_up (&mutex), and a thread
\* that waits while the mutex is free is about to be tried again.
MutexExclusive ==
  /\ \A t, u \in Tid : pc[t] = "file" /\ pc[u] = "file" => t = u
  /\ mutex > 0 => \A t \in Tid : pc[t] # "file"
  /\ mutex > 0 /\ mutex_waiters # <<>> => \E t \in Tid : pc[t] = "woken"

\* The state of a process as its parent may know it.
Life(t) ==
  IF pc[t] = "none" THEN "unborn"
  ELSE IF deleted_from_parent[t] THEN "collected"
  ELSE IF ready_to_exit[t] THEN "exited" ELSE "running"

Contract == INSTANCE WaitContract WITH
  Task <- Tid, First <- Main, NoTask <- TidError,
  life <- [t \in Tid |-> Life(t)],
  code <- [t \in Tid |-> IF ready_to_exit[t] THEN exit_status[t] ELSE 0]

\* The flags in the struct threads implement what process_wait() promises: each
\* status reaches the parent, once, and only after the process has ended.
WaitKeepsContract == Contract!Spec

\* The busy waits of process_execute(), process_wait() and thread_exit() end: the
\* first returns, in a kernel that has pages enough; the second, for a process
\* that has ended, collects it, whereupon that process leaves thread_exit() and
\* is destroyed.
ExecuteReturns == \A t \in Tid : pc[t] = "loading" ~> pc[t] # "loading"

CollectedDies ==
  \A t, c \in Tid :
    pc[t] = "wait" /\ tid[t] = c /\ ready_to_exit[c] ~> pc[c] = "dead"

SpinsEnd == ExecuteReturns /\ CollectedDies

-----------------------------------------------------------------------------
(* What else a step relies on: with it the safety properties are inductive *)

\* Tids are handed out in order, and a parent is older than its children.
TidsInOrder ==
  \A t \in Tid : (pc[t] = "none" <=> t >= next_tid) /\ parent[t] < next_tid

\* ready_to_exit is set on the way into thread_exit()'s loop, and its end is
\* reached only by a thread that was collected.
ExitFlags ==
  \A t \in Tid :
    /\ ready_to_exit[t] <=> pc[t] \in {"zombie", "dying", "dead"}
    /\ deleted_from_parent[t] => ready_to_exit[t]
    /\ pc[t] \in {"dying", "dead"} => deleted_from_parent[t]

WaitsForChild == \A t \in Tid : pc[t] = "wait" => tid[t] \in children[t]

\* Threads in the waiters list are blocked, and in it once.
WaitersBlocked ==
  /\ \A i \in 1 .. Len(mutex_waiters) : pc[mutex_waiters[i]] = "blocked"
  /\ \A i, j \in 1 .. Len(mutex_waiters) :
       mutex_waiters[i] = mutex_waiters[j] => i = j

ProcessInv ==
  /\ TypeOK /\ TidsInOrder /\ ExitFlags /\ ChildLists /\ WaitsForChild
  /\ FirstLoadHasParent /\ MutexExclusive /\ WaitersBlocked

\* A thread has no page directory before load() makes one.
PagedirsLoaded == \A t \in Tid : pc[t] \in {"none", "load"} => ~pagedir[t]

\* The initial thread is in run_actions() or in what it calls.  Its struct thread
\* is in its own child list, and nobody collects it from there: the page that
\* holds it is not from the pool.
MainStays ==
  /\ pc[Main] \in {"run", "copy", "create", "loading", "result", "wait", "zombie"}
  /\ parent[Main] = Main /\ tid[Main] # Main /\ ~deleted_from_parent[Main]

PagesInv == PagesAccounted /\ PagedirsLoaded /\ MainStays
=============================================================================
