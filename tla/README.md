# A TLA+ model of the Pintos projects

The repository holds four snapshots of the Pintos teaching kernel: an interpreter over
the kernel's data structures (`20161211_pintos_prj0_2`) and three kernels, each one built
on the one before: user programs (`prj1`), file system calls (`prj2`), and the alarm
clock, the priority scheduler and the multi-level feedback queue scheduler (`prj3`). The
project models the newest version of each part: scheduler, semaphores and timer from
`20161211_pintos_prj3`, processes, system calls and the file system from
`20161211_pintos_prj2`, the IDE driver too, the console and its drivers from `20161211_pintos_prj1`, where two threads
may still read the keyboard at once, and lists, hash tables and bitmaps from project 0, which has
more operations of them than the kernels have. Paths below are relative to the `src/` directory of the snapshot.

## 1. The system

| Part | State | Operations | Hard behaviour |
|---|---|---|---|
| Scheduler (`threads/thread.c`, prj3) | `ready_list`, `sleep_list`, `all_list`, `thread_ticks`; `status`, `priority`, `elem` of each thread | create, block, unblock, exit, yield, set_priority, set_nice, sleep, alarm, aging, update_priority | preemption at any instruction with interrupts on; ordered lists whose keys change; one list element for three lists |
| Semaphores, locks, conditions (`threads/synch.c`) | `value`, `waiters`; `holder` | down, try_down, up; acquire, release; wait, signal, broadcast | lost wake-ups, barging, priority order of waiters |
| Timer (`devices/timer.c`) | `ticks` | `timer_sleep`, `timer_interrupt` | the clock moves between reading it and going to sleep; width of a tick |
| Interrupts (`threads/interrupt.c`) | `in_external_intr`, `yield_on_return`, interrupt flag | `intr_handler`, `intr_disable`, `intr_set_level` | which code is atomic |
| Kernel lists (`lib/kernel/list.c`) | links | insert, remove, insert_ordered, sort | insert_ordered needs a sorted list |
| MLFQS arithmetic (`threads/fixed_point.h`, `thread.c`) | `load_avg`, `recent_cpu`, `nice` | updates per tick, per second, per 4 ticks | 17.14 fixed point in an `int` |
| Processes (`userprog/process.c`, prj2) | child lists, `ready_to_exit`, `deleted_from_parent`, `load_finish`, `child_load_success`, `exit_status` | exec, start, wait, exit | parent and child synchronise by spinning on flags |
| System calls (`userprog/syscall.c`, prj2) | descriptor tables, `mutex` | open, close, read, write, exec, exit, ... | a fault in the middle of a call; shared tables |
| File system (`filesys/*.c`, prj2) | open inodes, open and deny counts, directory entries, free map | create, open, remove, read, write, close, exec, load | only three calls take the semaphore: the others search and change the list of open inodes, the free map and the directory in separate steps; removal while open |
| Interrupt queues (`devices/intq.c`) | ring buffer, two waiters | getc, putc | a thread and an interrupt handler on one buffer |
| IDE (`devices/ide.c`) | `expecting_interrupt`, completion semaphore, channel lock | read, write, handler | a late or spurious interrupt; a wait that gives up on a busy disk |
| Serial port and keyboard (`devices/serial.c`, `kbd.c`, `input.c`), console (`lib/kernel/console.c`) | transmit queue, input buffer, interrupt enable bits, console lock | putc, getc, putbuf, interrupt handlers | a handler prints while the queue is full; the enable bits must follow the queues |
| Allocators (`threads/palloc.c`, `malloc.c`, prj3) | bitmap, arenas, free lists, a lock per block size and one per pool | get, free, malloc, calloc, realloc | exhaustion, reuse; pages are freed without the pool's lock |
| Interpreter (`prj0_2/main.c`, `list.c`, `hash.c`, `bitmap.c`) | arrays of named lists, hash tables and bitmaps | the commands | pointer surgery on neighbours, merges in place, rehashing without memory, slots used again |

Threads call the scheduler through semaphores, `thread_create`, `timer_sleep` and
`thread_exit`; the scheduler runs inside the caller with interrupts off. The timer
interrupt runs on top of the running thread, moves sleepers to the ready list, changes
priorities, and asks for a yield that `intr_handler` performs when the handler is over.
Everything above (processes, file system, devices) is built from these operations and from
unprotected flags.

What makes each part correct:

- *scheduler*: a thread is in exactly the list its status calls for; the ready list is
  sorted; the running thread is of the highest priority except in known windows; no ready
  thread starves when aging is on;
- *semaphores*: no lost wake-up, the highest waiter first, mutual exclusion of locks;
- *timer*: nobody wakes early, nobody oversleeps, everybody wakes;
- *processes*: `exec` returns after the child's load, `wait` returns the child's status
  once, nobody frees a thread that is still linked;
- *system calls and file system*: one open inode per sector, openers counted, sectors with one
  owner, descriptors that never dangle, the mutex released on every path;
- *devices*: no byte lost, repeated or overtaken, no thread asleep when its byte has come, the port
  told of every change, messages whole;
- *allocators*: nothing handed out twice, nothing lost, no circle of locks;
- *data structures*: a list is a sequence, a hash table a set, a bitmap an array of bits.

`PROJECT.json` lists the hazards with their lines and the properties that cover them.

## 2. Modules

| Module | Content |
|---|---|
| `KernelList` | `list_insert_ordered`, `list_sort`, `list_remove`, `is_sorted` on sequences, ordered by a key |
| `KernelList_proofs` | what those operations preserve, for all inputs |
| `ThreadSched`, `MCThreadSched` | scheduler, semaphores, alarm clock, timer interrupt; inductive invariant; symmetry sets |
| `ThreadSched_proofs` | the inductive invariant, the order of waiters, that no wake-up is lost and nobody wakes early |
| `Process`, `MCProcess` | exec, wait, exit and the ways to be killed, over the flags of `struct thread`; the file mutex; inductive invariant; which calls the programs of a run make |
| `WaitContract` | abstract: what wait promises, as a state machine of four steps |
| `Process_proofs` | the inductive invariant, that `Process` implements `WaitContract`, and that every page is accounted for |
| `FileSys`, `MCFileSys` | file calls and `load()`, step by step: descriptors, struct files, open inodes, root directory, free map; inductive invariant |
| `FileStore` | abstract: names, contents, files that are found and files that are open, no inodes or free map |
| `FileSys_proofs` | the inductive invariant, that openers are counted and sectors owned |
| `Console` | interrupt queues, serial port, keyboard, console lock; inductive invariant |
| `ByteQueue` | abstract: a bounded first-in first-out queue |
| `Console_proofs` | the inductive invariant, that both rings implement `ByteQueue`, and that messages do not mix |
| `LockCond`, `MCLockCond` | a lock and its condition variables over semaphores; inductive invariant |
| `LockCond_proofs` | the inductive invariant, and that `LockCond` implements `Monitor` |
| `Monitor` | abstract: a Mesa monitor whose signals let any one waiter go |
| `FixedPoint` | 17.14 arithmetic of `fixed_point.h`, at the width of an `int` |
| `Mlfqs`, `MCMlfqs` | the advanced scheduler: load average, CPU use, nice values and the priorities they give; inductive invariant |
| `MlfqsHeapInterp_proofs` | for `Mlfqs`: the inductive invariant, what the operations of `FixedPoint` return, and that no update overflows; for `Heap`: the inductive invariant, that allocations are apart, arenas counted and calls go on; for `Interp`: that names are live |
| `Ide`, `MCIde` | a channel of the IDE driver with its disks and interrupt, under block devices and partitions |
| `BlockStore` | abstract: block devices whose calls take effect at one instant |
| `Ide_proofs` | the inductive invariant, that writes are on the disk, and that `Ide` implements `BlockStore` |
| `Heap`, `MCHeap` | page allocator and `malloc()` under preemption; inductive invariant in the proofs |
| `PtrList` | `list.c` of project 0, every pointer assignment, under the list commands |
| `SeqLists` | abstract: the list commands on sequences |
| `Interp` | names and slots of the interpreter; `hash.c` under the hash commands |
| `Bitmaps` | `bitmap.c` of project 0 under the bitmap commands |
| `MCProject0` | the three modules above as the families of commands of one interpreter |
| `BitArrays` | abstract: what the bitmap functions answer on an array of bits |

`ThreadSched` models the kernel of project 3, `Process` that of project 2, whose scheduler
is round robin. The modules share no state; each takes from the others what they are shown to
do: `Process`, `FileSys`, `Console` and `Heap` take from the scheduler that a thread may be preempted
anywhere interrupts are on, from `ThreadSched` that a semaphore is exclusive and forgets nobody (`LockCond` has semaphores of its own, with the
lists of waiters, since conditions depend on their order), `ThreadSched` takes from `Mlfqs` nothing, as it allows any
priority, and `Mlfqs` from `ThreadSched` that the pieces it takes as steps are steps,
`FileSys` from `Process` that the file semaphore is, `Heap` and `FileSys` from `Bitmaps` that a
scan finds the first gap.

### ThreadSched

One CPU runs. Code that runs with interrupts off is one action; code that runs with them on
is cut where a timer interrupt may fall between two accesses to shared state. `pc[t]` says
where thread `t` stands when it is not in its own function:

| `pc` | Place in the code |
|---|---|
| `down` | in the `while` loop of `sema_down()` |
| `create`, `tid`, `unblock` | `thread_create()` before, inside and after `allocate_tid()` |
| `yield` | before the `thread_yield()` of `thread_create()`, `thread_set_priority()`, `thread_set_nice()` |
| `test`, `max` | `thread_set_priority()` before `list_empty()` and before `max_priority_in_ready()` |
| `sleep` | `timer_sleep()` between `timer_ticks()` and `intr_disable()` |
| `loop`, `hlt` | `idle()` before `intr_disable()` and in `sti; hlt` |

`schedule()` and `thread_schedule_tail()` are the operator `Schedule`, used by every action
that gives up the CPU. The timer interrupt is a chain of actions: `TimerInterrupt`
(`ticks++`, `thread_tick()`), `ThreadAlarmWake` (one turn of the loop of `thread_alarm()`),
`ThreadAlarmDone`, `PriorityUpdate` (aging and `update_priority()`), `IntrReturn` (the yield).
While `handler` is not `none` no thread takes a step.

Abstractions:

- the arithmetic of `new_priority()` is open (`Mlfqs` has it): with the constant `Mlfqs`, `update_priority()` and
  `thread_set_nice()` may give any priority. What holds here holds for every value it
  computes;
- a page that is not a thread has status `free`; the content of a dead page is normalised;
- the initial state is the one `thread_start()` leaves, with the idle thread in its loop;
- `tid_lock` is its semaphore: the `holder` field is only read by assertions;
- if the ready list was emptied between `list_empty()` and `max_priority_in_ready()`, the
  code reads the list's sentinel as a thread; `TestMax` then allows either outcome;
- `thread_exit()` is the kernel's, without `process_exit()`.

### Process

Any thread that is not blocked may take the next step. A step is a piece of kernel code up
to the next access to something another thread writes: a flag of a parent or child, the
page pool, the mutex. `thread_yield()` in the body of a busy wait is not a step; leaving the
loop is one, with the flag as its guard.

| `pc` | Place in the code |
|---|---|
| `copy`, `create`, `loading`, `result` | `process_execute()`: before `fn_copy` is allocated, before `thread_create()`, in `while (!load_finish)`, after its return |
| `load`, `signal`, `copied` | `start_process()`: before `load()`, before and after `parent->load_finish = true` |
| `user`, `run` | in user code; `main()` in `run_actions()` |
| `wait` | in `while (!child->ready_to_exit)` of `process_wait()` |
| `blocked`, `woken`, `file` | in `sema_down (&mutex)`, in and out of the waiters; past it |
| `exit`, `zombie`, `dying` | in `exit()`; in `while (!deleted_from_parent)` of `thread_exit()`; after `process_exit()` |
| `none`, `dead` | not created; its page freed |

`deleted_from_parent`, `ready_to_exit`, `load_finish`, `child_load_success`, `exit_status`,
`parent` and `pagedir` are the members of `struct thread`; `children[t]` is `child_list`. A
thread is named by its tid, which is never used twice; its page may be. A new process writes
to its parent through a pointer, so when the parent is dead the write goes to
whatever its page holds now: a younger thread or no thread (`ParentPage`).

Abstractions:

- `child_list` is a set: tids are distinct and the search does not depend on the order;
- of memory only the pages for a struct thread, a page directory and a copy of the command
  line are counted. Page tables and user pages belong to a page directory and are freed with
  it; `load()` may fail for want of them, as for any other reason. Blocks of `malloc()` are
  not counted: `get_command()` never frees its block, and `exec()` never closes the file it
  opens to see whether it exists;
- the idle thread, which is on the child list of `main` and never ends, has no tid;
- what user code does is `User(t)`; the constant `Calls` says which of it a run includes;
- `halt()`, and `shutdown()` when it powers off, end a behaviour;
- open, read and write are the time between `sema_down (&mutex)` and `sema_up (&mutex)`.

`WaitContract` is the comment above `process_wait()`: a process ends with a status, its
parent gets it by one wait, any other wait gets -1 at once. In the refinement, a process is
unborn when `pc` is `none`, collected when `deleted_from_parent` is set, exited when
`ready_to_exit` is, and running otherwise; its code counts from `ready_to_exit` on.

### FileSys

A step is one access to what processes share: a block of the disk, a bit map, the list of open
inodes, a struct inode or file. `open()`, `read()` and `write()` hold the semaphore `mutex`; `create()`,
`remove()`, `close()`, `seek()`, `exit()`, `exec()` and `load()` take nothing, and any process may go on between two
steps of another. `pc` is the place of a process in a call and `call` what it has found there:

| `pc` | Place in the code |
|---|---|
| `new`, `user`, `ended` | before `load()`; in user code; after `thread_exit()` |
| `root`, `leave` | in `dir_open_root()`; in `dir_close()` |
| `lookup` | in `lookup()` of `dir_lookup()` and `dir_remove()` |
| `search`, `reopen`, `insert`, `header` | `inode_open()`: the search of the list, `inode_reopen()`, `malloc()` and the insertion, reading the header |
| `file`, `loaded` | `file_open()` and the descriptor; the file of `load()` before it is closed |
| `erase`, `mark` | `dir_remove()`: writing the entry, `inode_remove()` |
| `scan`, `flip`, `scan_data`, `flip_data` | the two `free_map_allocate()` of `filesys_create()`, each cut between the search and the marking |
| `write_header`, `zeros` | `inode_create()` |
| `add`, `slot`, `entry`, `undo` | `dir_add()`: looking for the name, for a free slot, writing it; giving the sector back |
| `drop`, `unlist`, `release`, `release_data` | `inode_close()`: the decrement, `list_remove()`, the two `free_map_release()` |
| `exit` | in the loop of `exit()` |

The other variables are those of the code: `free_map`, `disk`, `dir` (the entries of the root directory), `inode` and
`file` (memory for the structs, with `open_cnt`, `deny_write_cnt`, `removed`), `open_inodes`, `files` and `current_file` of
each process. Memory for a struct may be missing at any time. `exec()` is its `filesys_open()`, whose result nobody closes.
A process that is killed (`Kill`) leaves its files open, one that exits closes them.

Nothing keeps these calls apart, and when two are in the same place at once the code breaks (section 3). The
variable `clash` records where that has happened: on the `list` of open inodes, when one is between the search and the
end of `inode_open()`, or taking an inode off, while another is too; in the free `map`, when both are between
`bitmap_scan()` and its flip; in the `directory`, when two add entries at once, or one removes an entry while another adds
one or has found one. It is a history of what did happen: no action has it in its guard, and calls that meet elsewhere, or
one after the other in any number of steps, are all there. Two calls that both hold the semaphore are not counted, so if
the semaphore let two of them through the properties would be violated (mutant `MutexUpAlways`). What is claimed is claimed until
two calls have met: `CountsOpeners` until they have met on the list, `SectorsOwned` and `StoreRefined` until they have met anywhere.

Abstractions: a sector's data is one value and a read or write moves one sector, in one step, as it holds the
semaphore; of the root directory's own inode, which stays out of `inode`, only the use of the list is there;
the file the free map is written to is left out, and with it what a reboot would read; writing the directory always
succeeds, as it does on a device of fixed size. Files do not grow. What a call does with an inode that was freed since it found it
is undefined and not followed. Counting an opener up or down is one step, a read and write of memory that the clock may in principle cut. `DataAssumption`: a block of data is told from a header.

`FileStore` has names, contents, and for each caller the file it has found but not opened yet. In the refinement a file is named by the
sector of its header; its content is there while it has a name, is open, or is found by a call that will open it.

### Console

A thread runs with interrupts off in the queue functions, so the stretch between two places where it
may block is one step. `pc` says where it stands: waiting for the console lock (`console`), printing
(`put`), waiting for a queue's lock (`lock`), asleep in `wait()` (`wait`), elsewhere (`run`). The
interrupt handler is a chain of steps during which no thread moves: `handler` is its place. The port is
two variables, `thre` (it can send) and `rbr` (the byte it received), with two steps of its own.

`keyboard_interrupt()` puts a byte and is one step. A handler that prints (`UnexpectedInterrupt`) finds
the queue full in some states, and then polls a byte out (`PutcPoll`), as `serial_putc()` does with interrupts
off. Two readers may be in `read(0, ...)` of project 1, which takes no lock; when both have
found the buffer empty, the second to get the queue's lock may find a byte and fail the assertion in
`wait()`: the kernel stops (`panic`). The semaphore of the later projects hides it.

### Heap

A step is what a thread does between two lock operations; locks are variables with their holder. An
address is a number, so that overlap, headers and alignment are what they are in memory; page 0 is never
handed out and the address 0 is null. Sizes are taken modulo `Word`. `bitmap_scan_and_flip()` is two steps,
`Scan` and `Flip`, with the pool locked; `palloc_free_multiple()` (`Clear`) takes no lock and may come between
them. `free()` of the last block of an arena keeps the descriptor locked until the page is back
(`PushLast`, `Clear`). Contents are not modelled.

### PtrList, Interp, Bitmaps

`PtrList` has the pointers `next` and `prev` of every element and of both sentinels of each list, and every
assignment of `list.c` to them in its order. Its actions are the commands of `main.c`. Inputs the code
does not survive are left out: places beyond the list, pop from an empty list, splicing a range into
itself, and `list_unique` into the list itself, which does not end. `list_unique` without a second list loses
the duplicates: nothing frees them. `SeqLists` has the sequences.

`Interp` has the arrays of names and the hash tables. A table is its buckets, `rehash()` moves elements in
the order of the code, and may find no memory. `hash_apply` replaces the values where they are (`HashApply`), products wrapping around
in an `int` of `Bits` bits, so that afterwards a value may lie in a bucket where `hash_find` does not look, or be there twice. The history
variable `applied` has the tables to which this has happened; being cleared or deleted ends it. `IsSet` says which of its clauses hold
even then. `deleteBitmap()` keeps the name (`main.c:638`), so that a later
command finds a bitmap that was freed; `NamesLive` is about lists and tables.

`Bitmaps` has the elements as sets of bits. `bitmap_mark()`, `bitmap_reset()` and `bitmap_flip()` are
inline assembly with 32-bit operands on an `unsigned long`: `AsmBits` is the width of the former, `ElemBits` that
of the latter. They are equal in the 32-bit build the makefiles ask for; in a 64-bit build bits 32 to 63
of each element do not change.

The three share no state, as a command works on one kind of structure; `MCProject0` is a session with the commands
of one `family`.

### LockCond

A call of `sema_up()`, or a turn of the loop of `sema_down()`, is a step, since interrupts are off; so is each
assignment to `holder` between them. Places: `down` (in `lock_acquire()`), `own` (before `holder` is set), `in` (with the
lock), `drop` (in `lock_release()`, `holder` cleared), `sleep` (in `cond_wait()`, on the semaphore of its own list
element), `signal` (an element popped, not yet upped), `broadcast`. `lock_try_acquire()` is one action.
`cond_wait()` puts its element on the list with the lock held, releases in two steps, sleeps, and acquires again.
Signals and broadcasts need the lock, as their ASSERTs say. Priorities are fixed; in `ThreadSched` they change.

`Monitor` has an owner, the set of the threads that wait for each condition, of which a signal lets any one go, and those on their way back. In the refinement the owner is
`holder`, and who has been taken off a condition's list and has not the lock yet is on its way back.

### Ide

The driver runs with interrupts on, so every access to the channel's registers is a step of its own, and the disks and
the interrupt move between them. `pc` is the place in `ide_read()` and `ide_write()`: `LockAcquire`, `SelectDevice`
(each with a wait until the selected disk is idle, `Idle`), `SelectSector`, `ExpectInterrupt` and `IssuePioCommand`, `SemaDown`, `NotBusy` with
`InputSector` or `OutputSector`, `DiskFailed`, `LockRelease`. A disk is idle, or reads, has its buffer filled, wants
data, accepts or writes them (`state`); `irq` are its pending interrupts, which reading the status register clears. The interrupt
handler is one step, since interrupts are off in it: `InterruptHandler` acknowledges and ups `completion_wait` if
`expecting_interrupt` (`Handle`). `block_read()`, `block_write()` and partitions are in `BlockCall`, `DiskOf`, `SectorOf`: a sector that does
not exist stops the kernel. `SpuriousInterrupt` is one no disk asked for.

Time-outs: `wait_until_idle()` polls 1000 times, 10 microseconds apart (its comment says 10 seconds), and then goes on as if the disk were idle. `Idle` may do
so at any time, since a disk may take that long; `timed_out` records that it did with a disk that was busy. A disk that is given a
command while it is busy drops what it does or takes no notice. `wait_while_busy()` gives up after half a
minute, which is `DiskFails`. Abstractions: a sector's data is one value. An error after the disk has taken the data of a write is not followed either: the code does not look.
Statistics are left out. `BlockStore` has the contents of block devices and the call of each thread; in the refinement a write takes effect when the disk has its
data, a read when the disk has read, and what a disk is about to write counts as written (`OnDisk`).

### Mlfqs, FixedPoint

The timer interrupt up to the return from the handler is two steps, `TimerInterrupt` (charging the running thread, on
every fourth tick the priorities and the sort of the ready list, each second `load_avg` and every `recent_cpu`, in the order of the code) and `IntrReturn` (the yield); `handler`
tells them apart. `thread_set_nice()` computes the priority, stores it, compares and yields with interrupts on: `ThreadSetNice`,
`ComputePriority`, `StorePriority`, `TestYield`, between which the timer may come. Threads block and are woken (`ThreadBlock`, `Wake`).
Numbers are integers in units of 1/F, F being 2^14; division truncates as in C; products are 64 bits
wide, which TLC's integers are not, so `MulNat` multiplies in two halves, and `MlfqsHeapInterp_proofs` shows that this is exact.

`workload` is `calls`, where threads block, wake each other and call `thread_set_nice()` up to `MaxCalls` times and the clock
stops at `MaxTicks`, or `computing`, where threads do nothing but compute for ever and `ticks` counts modulo `MaxTicks`: the code reads it only modulo 4
and `TIMER_FREQ`, which both divide it. Threads are neither created nor end here (`ThreadSched` has that).

## 3. Runs

| Run | Instance | Result |
|---|---|---|
| `sema` | 3 workers, main, idle; one counting semaphore up to 2 and `tid_lock`; priorities 0 to 2 | holds |
| `clock` | 2 workers, main, idle; durations 0, 1, 3; 4 ticks; priorities 0 and 1 changed every other tick; one semaphore | holds |
| `aging` | 2 workers, priorities 0 to 2, `FairSpec`, 2 ticks (then the clock stands, interrupts go on) | holds |
| `wait` | main and 3 processes, 6 pages; exec, wait, exit | holds |
| `live` | main and 2 processes, `FairSpec`; every call, every fault and exception | holds |
| `console` | 2 readers, 2 writers of messages of 3 bytes, rings of 3 cells, one byte printed by a handler, `FairSpec` | holds |
| `files` | 2 processes with a descriptor each, one executable, 2 names, files of 1 sector on a device of 4, 2 entries, 2 inodes, 2 files, 2 data values, 5 calls, up to where calls meet | holds |
| `heap` | 2 threads with up to 2 allocations each, 4 pages of 6 bytes with a header of 3, block sizes 1 and 2, big blocks of 2 pages | holds |
| `project0` | 2 names, 2 slots, ints of 2 bits, tables of up to 2 elements, collisions; 2 lists, 4 elements, 2 values; up to 7 bits in elements of 3, any memory | holds |
| `ide` | 2 threads, 2 partitions on one disk and a second disk, 2 data values, one stray interrupt, disks that fail, waits that time out, `FairSpec` | holds |
| `cond` | 4 threads of 3 priorities, one lock, 2 conditions, `FairSpec` | holds |
| `mlfqs` | 3 threads at 100 ticks a second; nice values -20 and 20 and 4 calls around the end of a second, or nice 0, 5, 10 computing for ever, `FairSpec` | holds |

`sema`, `clock`, `aging`. `TypeOK` is the type invariant. `ElemExclusive` relates every
list to the statuses: no thread is lost, none is linked twice. `WaitersSorted` is the precondition of
`list_insert_ordered()` in `sema_down()`; those of the ready and the sleep list (`ReadySorted`, `SleepSorted`) are proved. `Preemptive` says whose turn it is. `NoLostWakeup` says that
while threads wait for a semaphore each unit of its value has a woken thread on its way to
it, and that `allocate_tid()` runs in one thread (`TidExclusive`). `NeverEarly` and `NoOversleep`
bound `timer_sleep()` from below and above. `NoStarvation` and `SleepersWake` are the
liveness properties of aging and of the alarm clock.

`wait`, `live`. `ChildLists`, which is proved, ties the child lists to the flag that keeps a zombie alive;
`WaitedChildExists` says that `process_wait()` does not read a freed page, and
`FirstLoadHasParent` that the first child of a thread does not write to one (later children
may, see below). `WaitKeepsContract` is the refinement of `WaitContract`. `PagesAccounted`
balances the page pool at every step, `MutexExclusive` is mutual exclusion and no lost
wake-up of the file mutex when its holders may be killed. `SpinsEnd` is the liveness of the three busy waits
(`ExecuteReturns`, `CollectedDies`).

`console`. `QueuesKeepBytes` is the refinement of `ByteQueue` by both rings. `SleeperStuck` is the
absence of lost wake-ups. `IerFresh` says that the port's enable bits follow the queues;
`MessagesWhole` that threads' messages do not mix, though they block in the middle and a handler may print
there. `PrintsAll` is liveness: the console lock comes back.

`files`. `CountsOpeners` ties `open_cnt` and `deny_write_cnt`
to the files that are open and the calls that hold an inode, of which those of one sector share one inode (the comment above `open_inodes`); `SectorsOwned` says that
every marked sector that matters has one owner: a file, or a call that is making or releasing one. `StoreRefined` is
the refinement of `FileStore`. Each inode, sector, file and descriptor runs out in some state of the run. The run stops where two calls have met (`Apart`), as
the properties but for `CountsOpeners` say nothing of what follows; past a meeting elsewhere than on the list, `CountsOpeners` is proved only.

`heap`. `HeldApart`: what is allocated overlaps nothing else and is as large as was asked for. `ArenaCounts`: an
arena counts its free blocks, goes back with the last, and no page is lost. `NobodyStuck`: some call can go on.

`project0`. `ImplementsSequences` is the refinement of `SeqLists`, which includes
that sorting is stable and that links agree in both directions (`Linked`); `IsSet`: a table is a set and counts its elements, through failed rehashes, until `hash_apply` has changed its values; `NamesLive`;
`ImplementsArray` (every function against `BitArrays` for every range in every state).

`ide`. `BlocksAtomic` is the refinement of `BlockStore`: reads and writes of partitions and disks that share one channel, one
semaphore and one set of registers take effect at one instant, also after a stray interrupt, up to the moment `wait_until_idle()` gives up on a disk that still writes; and without a stray interrupt it never does. `CommandsEnd`: who has the channel gives it
back, unless the kernel stops, also after a time-out. `WriteAcknowledged`: `ide_write()` returns when the disk has written, unless there was a stray interrupt.

`cond`. `MesaMonitor` is the refinement of `Monitor`, which leaves open which waiter a signal lets go: the comment of `cond_signal()` promises "one of them", the test asks for the highest (below); `LockAccounted` says where the lock's one unit is, that waiters are in order, and that the lock is
not free while all its waiters sleep; `SignalReaches` that a signal which comes before its thread has gone to sleep is not lost. That a thread
gets the lock in the end is not claimed: a thread that releases may take it again first.

`mlfqs`. `RunsHighest`: the thread that runs is of the highest computed priority and the ready list in order, except in
`thread_set_nice()` before it has looked. `Within` bounds `load_avg` and `recent_cpu` by the number of threads. `NoStarvation`: with the nice
values 0, 5 and 10 of the run, no thread that only computes is without the CPU for ever. It is no more than that: see the deviations for values further apart.

Known deviations without a run. They can be read off the definitions; where a run is named, a constant of it shows them.

- Scheduler: `update_priority()` changes priorities of waiting threads and sorts the ready list only
  (`thread.c:761`), though `src/README.md:105` of the project says waiters stay sorted; `WaitersSorted` is checked
  without MLFQS. `thread_sleep()` keeps a 64-bit tick in an `int` (`thread.c:700`). `timer_sleep(0)` waits for the
  next tick (`tests/threads/alarm-zero.c:1` says "immediately"). Every tick ends a time slice, not every
  `TIME_SLICE` ticks (`thread.c:59`): `ThreadAlarmDone` asks for a yield on each. `cond_signal()` wakes the first
  waiter (`PopWaiter`) and not the highest (`synch.c:332`), which `tests/threads/priority-condvar.c:1-2` asks for. `sema_up()` yields unconditionally
  (`synch.c:127`), which `thread_yield()` forbids in an interrupt handler (`thread.c:402`), though the comment at `synch.c:109` allows handlers to call it: the
  IDE driver of project 3 would stop the kernel with its first interrupt. `Ide` models project 2, whose `sema_up()` does not yield.
- MLFQS: `src/README.md:81` of the project says that the scheduler prevents starvation. With nice 20 a thread's priority is at most 23, and
  `recent_cpu` gathers 20 a second, so that beside a thread of nice -20 it never runs again (`NoStarvation` fails with these in `StartNice`); with `TimerFreq` 20, nice 10 starves
  beside 0 and 5. `thread_get_recent_cpu()` multiplies by 100 in an `int` (`thread.c:482`) and overflows once `recent_cpu` passes 1310, which sixty ready
  threads of nice 20 reach.
- IDE: `expecting_interrupt` is set by the first command and never cleared (`ide.c:413`), though `ide.c:71-72` says that it tells spurious interrupts; a stray one ups the semaphore, and
  `ide_write()` returns before the disk has acknowledged, which `ide.c:360` promises (`WriteAcknowledged` fails without `spurious = 0`); and if the disk then takes longer than the 10 milliseconds of `wait_until_idle()`, the next call goes on with a busy disk.
- Processes: `process_execute()` waits for a load before it looks at the tid, for ever if there was no page for
  the thread (`process.c:52`); `load_finish` is not reset, so a second exec does not wait for its load and returns
  a tid though the load fails; a fault in the copy of the command line leaves its page allocated
  (`process.c:39`); a process ended by an exception keeps exit status 0 (`exception.c:93`), where the comment at
  `process.c:100-102` promises -1; `thread_exit()` frees a thread only if its parent waits for it (`thread.c:346`).
- Files: where two calls meet, the code does not keep what it says. `inode.c:56-57` says that opening an inode twice gives the same struct inode: `exec()` and
  `load()` open their executable without the semaphore (`syscall.c:213`), so they may come between the search and the insertion of another
  process's `open()`, and so may two of them or a `remove()`; each inserts an inode of its own, and a removal then marks one of them only. `filesys.c:43` says that `create()`
  fails if the name exists: two of them may both find that it does not. `bitmap.c:317-318` says itself that testing bits is not atomic with setting them: two
  allocations may get the same sectors, or an allocation may fail to see what a release gives back. Without `clash` in their conditions TLC finds `CountsOpeners`
  and `SectorsOwned` violated by two processes. Apart from that: when `dir_add()` fails, `filesys_create()` gives back the sector of the inode only (`Undo`); `open()` with a
  full table leaves the file open (`FileOpen`), `exec()` and a killed process leave theirs (`FileOpen`, `Kill`);
  `current_file` is not cleared by `close()`, so that a struct file at the same address counts as the executable;
  and an executable is protected only once its own process has tried to write to it through a
  descriptor it opened (`Denies`), so that it can be changed before, or by others.
- Console: two readers of project 1 stop the kernel: the second fails the assertion at `intq.c:91` (`LockAgain` sets `panic`).
- Heap: `calloc()` looks only whether the product is smaller than a factor (`malloc.c:166`), so a product that wraps
  to something larger passes and the block is smaller than the array. `malloc()` adds the header to a size in a `size_t` (`malloc.c:109`), so a size less than a
  header below 2^32 wraps, and the caller gets one page. (If only the rounding up to pages wraps, no pages are asked for and the call fails.) The sizes and
  factors of the run do not wrap, and the theorem about the bytes that were asked for has this as its hypothesis (`NoWrap`).
- Interpreter: after `hash_apply` a table may have a value twice, or where `hash_find` and `hash_delete` do not find it (`IsSet` fails without `applied` in its conditions); `deleteBitmap` (above); `bitmap_scan_and_flip()` of no bits returns the start and
  not 0, as its comment says; `list_item`s are allocated with the size of a `list_elem` (`main.c`).

Bounds. `MaxTicks`: the clock stops there, and nobody may ask for a later tick; the
interrupt itself still comes, so time slices, aging and the alarm go on. `MaxValue` bounds
a semaphore. Three threads beside idle are enough for one to hold, one to wait and one to
barge; four (run `sema`) for two waiters of different priorities with a third thread
waking them. `TimeSlice` is the code's 4, `PriorityPeriod` is 2 in place of 4 in `clock`
so that every phase of `ticks % 4` occurs within the bound. `IntMax` is 7 where the width of an `int` is
not the question. Workers and semaphores are symmetric in the safety runs; the
liveness run uses no symmetry.

In `Process`, `MaxTid` bounds the threads of a behaviour. Four (`wait`) give `main`, a
process, its child and either a second child or a grandchild: enough to wait for a child of
one's own, for one already collected, and for somebody else's. With 6 pages each of the three
allocations of exec fails in some state of `wait`, and pages of dead threads are used again. Two processes (`live`) are enough for one to hold the file mutex, be
killed or barge, while the other waits. Exit codes other than 0 and -1 are one value: the code does
not tell them apart. Deadlock is not checked: when every process spins in `thread_exit()`
the system does stop.

`Console`: rings of 3 cells hold two bytes, so that a message of three fills the transmit queue and its writer
sleeps in the middle, and the buffer overflows with the third key; two threads on each side are the fewest for
one to wait for a queue's lock or the console's. `MaxPrints` bounds what handlers print; once is
enough to meet a full ring. After a panic nothing moves.

`FileSys`: `MaxCalls` calls besides loading are enough to create, open, write, remove and close a file with the other process in between (a step is much less than a call: a behaviour has up to 64); two processes, two struct inodes and files are enough to share an inode, to use it up, and to give its
memory to another file; 4 sectors hold two files of one sector with their headers, so that a third
`create` fails and a removed file's sectors go to the next. `Heap`: a page holds a header and three blocks of 1, a big
block takes two of the three pages; `MaxHeld` bounds what a thread has. `PtrList`: four elements give two runs of two
to merge, and neighbours, ends and distant elements to swap. `Interp`: `MaxElems` is 2 and elements are in one bucket or in two,
the table having grown from one bucket to two and shrunk again; an `int` has 2 bits, -2 to 1, of which squares and cubes change bucket and coincide; lists and bitmaps use one
slot (`OneSlot`), as slots are taken for them as they are for tables. `Bitmaps`: seven bits are two full elements and a part of a third. In these
modules the system stops only when its memory is used up and its processes have ended, so deadlock is not a
question there; an interpreter without a command that has an effect does not stop either.

`Ide`: two threads, and two disks on one channel with two partitions on the first, are the fewest for one call to meet the
interrupt, the registers and the selected disk of another; one stray interrupt (`MaxSpurious`) leaves the semaphore one ahead for the rest of the
behaviour. After a panic nothing moves, so deadlock is not checked. `LockCond`: four threads give a signaller, two waiters on
one condition and a thread that barges; there is no bound on calls. All four may wait for a signal, which is no fault of the code. `Mlfqs`: from tick 95 (`FirstTick`) to 100
there are a second's end and two updates of the priorities; `MaxCalls` bounds what threads do besides computing, and with 4 two threads can block and be woken or all three change their nice values. Computing, the state
repeats after some hundred seconds, so that the run is without a bound in time; `TimerFreq` is the code's. The clock of the other part stops, hence no check for deadlock.

Fairness. `FairSpec` assumes strong fairness of the timer interrupt: the interrupt
controller latches the tick while interrupts are off and delivers it when they come on, so a
tick that can be taken again and again is taken. It assumes weak fairness of the handler's
steps and of the test that follows a wake-up in `sema_down()`, which run with interrupts off.
It assumes nothing of threads: they may run forever without giving up the CPU.
For `Process`, `FairSpec` assumes weak fairness of the kernel's steps in each thread: the
ready list of project 2 is first in, first out, and the timer ends time slices, so a thread
that can go on does. User code owes nothing: a process may run for ever, and nobody need
call wait. `Console` assumes weak fairness of the port, of its interrupt (the controller keeps a
request until it is served) and of a handler's steps, and strong fairness of threads that have begun
to print: the scheduler is round robin, and a handler may put them off but not for ever. `Ide` assumes weak fairness of
a thread inside the driver (round robin), of a disk that has a command, which the time-out turns into a failure, and of the interrupt, which the controller keeps;
nobody needs to call. `LockCond` assumes weak fairness of each thread's steps inside the functions of `synch.c`: with aging no ready thread starves, which `NoStarvation` of `aging` shows; who has the lock need not
release it. `Mlfqs` assumes that the timer keeps ticking.

Mutants. Definitions marked "Mutant" in the modules are plausible errors of the code (a
`push_back` for an ordered insert, an `if` for a `while`, a missing yield, an off-by-one in
the alarm); each property fails when the mutant named for it in `PROJECT.json` takes the
place of the real definition.

## 4. Proofs

`ThreadSched_proofs` proves, for every number of threads and semaphores, every range of
priorities and every bound, that `SchedInv` is an invariant, and from it `TypeOK`,
`ElemExclusive`, `ReadySorted`, `Preemptive`, `SleepSorted` and `NoOversleep`. The
assumptions are the named `ASSUME`s of `ThreadSched`: the initial and idle threads are
not workers, the default priority lies in the range, the bounds are naturals.

None of these is inductive alone. `ElemExclusive` needs to know where a thread may stand
when it has a given status (`Locations`: a thread that waits for a semaphore is in
`sema_down()`, the idle thread is nowhere but in its loop) and which threads are being
created by whom (`Construction`). `Preemptive` needs the same of the thread that takes the
CPU (`OneRunning`), that every timer interrupt ends in a yield (`YieldFlag`), and that the
test in `thread_set_priority()` compares either the thread's current priority or is taken
by a thread that has been given the CPU again as the highest (`TestIsFresh`).
`NoOversleep` needs `SleepSorted`.

The proof has one lemma per action. `ScheduleFacts` says what `schedule()` establishes
whatever it was called for; `YieldDispatches` and `BlockDispatches` specialise it;
`WaitersFrame`, `SleepFrame` and `StepFrame` carry the lists an action does not touch.
They rest on `KernelList_proofs`: an ordered insertion finds its place, keeps the list
sorted and adds exactly its element (`InsertOrdered`), the head of a sorted list is its
minimum (`PopFront`); `list_sort()` is defined by what it returns, a sorted stable permutation (`PtrList` has its code).

Three more theorems follow on `SchedInv`. `WaitersOrder` proves `WaitersSorted` when the MLFQS is off: `update_priority()` of the
MLFQS changes the priorities of waiting threads and sorts only the ready list, so with it the order is lost and `sema_up()` may
wake another than the highest (`~Mlfqs` is the hypothesis). A thread's priority changes otherwise only while it runs or is
ready, hence in no list of waiters. `NoLostWakeups` proves `NoLostWakeup` without a hypothesis: all but the actions of `SemaStep` leave alone
who waits, who was woken and the values (`QuietMove`, one lemma), so the argument is about `sema_down()` and `sema_up()` only; its part
about `tid_lock` counts threads inside `allocate_tid()`. `NobodyWakesEarly` proves the action property `NeverEarly` from `AlarmsHold`: the tick
stored for a sleeper is not before the one it was promised. It holds while ticks fit the `int` that stores them (`MaxTicks <= IntMax`):
beyond that the code stores a negative number and wakes the thread at the next tick.

`Process_proofs` proves, for every number of threads and pages, every set of exit codes and
every choice of calls, that `ProcessInv` is an invariant, and from it `TypeOK`,
`ChildLists`, `WaitedChildExists`, `FirstLoadHasParent` and `MutexExclusive`; and that `Process` implements
`WaitContract` (`ImplementsContract`). The assumption is `ProcessAssumption`: at least one
thread, a natural number of pages, integer exit codes. `ChildLists` needs `TidsInOrder` (a new tid
is nobody's parent or child yet) and `ExitFlags` (what the flags say of where a thread stands);
`WaitedChildExists` follows from `ChildLists`, `ExitFlags` and `WaitsForChild`; `MutexExclusive`
needs `WaitersBlocked`. There is one lemma per piece of code; calls that share one
(`exit()` and `page_fault()`, the two callers of `process_wait()`) share its lemma. For the
refinement a step lemma says of each what it is in the contract: `thread_create()` is
`Spawn`, entering the loop of `thread_exit()` is `Exit`, leaving that of `process_wait()` is
`Collect`, a search in vain is `Refuse`, and the rest are stutters. `PagesAreAccounted` proves `PagesAccounted` from `PagesInv`: it
needs that a thread has no page directory before `load()` (`PagedirsLoaded`) and that nobody collects the initial thread,
which is in its own child list and whose page is not from the pool (`MainStays`). The hypothesis is that the programs do not pass `exec` a bad
pointer (`"badexec" \notin Calls`): the fault in `strlcpy()` loses the copy of the command line, and each such call one page (Section 3).

`Console_proofs` proves, for rings of any size and any number of threads, that `ConsoleInv` is an invariant, and from it `SleeperStuck`, `IerFresh` and that
both rings implement `ByteQueue`. `ConsoleInv` has the types, that one thread at most is in `wait()` for a queue (`OneWaiter`, from the queue's lock), that there is room
when a handler puts a byte (`RoomToPrint`), and that what a thread has yet to print is what it has not put (`Unprinted`). `IerFresh` is inductive by itself.
`MessagesDoNotMix` proves `MessagesWhole`: leaving out what handlers print, each byte in the transmit queue goes on from the one before it or both are the
ends of messages. `MessagesInv` adds that the writer inside `putbuf()` has the console lock and nobody else has begun (`ConsoleOwned`), and that the last thread's byte
in the queue is the one the owner goes on from (`LastContinued`). The run's ring holds two bytes, so a handler's byte never stands between two of a message there; the
theorem covers rings of every size.

`MlfqsHeapInterp_proofs` proves of `Mlfqs`, for any number of threads, any tick rate divisible as the assumption says and any nice values in the range, that `MlfqsInv` is an invariant, and from it
`Within` and `RunsHighest`; and that no intermediate result of an update leaves an `int` while (2N + 1)(`TIMER_FREQ` + `MaxNice`) F fits in one
(`NothingOverflows`): with the code's numbers up to 545 threads. `Within` is the argument: the factor 2a/(2a + 1) by which `recent_cpu` decays is at most 2N/(2N + 1) when `load_avg` a is at
most N, so what is forgotten each second balances what is gathered at the bound (`Decay`, `Forgotten`). It rests on what the operations of `FixedPoint` return: the product in two halves is
the product, quotients truncate toward zero and are monotone; and on `KernelList`: sorting keeps a list's elements.

`LockCond_proofs` proves, for any finite set of threads, any priorities and any conditions, that `LockCondInv` is an invariant, and from it `LockAccounted`; and
that `LockCond` implements `Monitor` (`ImplementsMonitor`). `LockCondInv` says that the semaphore's unit is free or with the one thread in the lock (`OneInside`), that
`holder` follows (`HolderInside`), and who may be on the lists (`LockQueue`, `CondQueues`). The refinement needs `Calls`: a thread in the lock has no condition of an earlier
`cond_wait()` left, and who is on a list is still in it. `SleeperKept` is what a popped waiter needs: it is in `sema_down()` on its own semaphore, which the signaller will up, so that the
up finds 0 and the type of `sem` holds. `SetHolder` is `Enter` or `Return`, `LockRelease` is `Leave`, `CondWait` is `Wait`, `PopWaiter` is `Signal`; the rest are stutters. Which waiter `PopWaiter` takes plays no part.

`Ide_proofs` proves, for any number of threads, disks, partitions and sectors, that `IdeInv` is an invariant (`ChannelInvariant`), and from it
`WriteAcknowledged`, and that `Ide` implements `BlockStore` until `wait_until_idle()` gives up on a busy disk (`ImplementsBlockStore`). The lock gives `OneHolder`: one thread is past `lock_acquire()`, and `OneDisk`, `HolderServed` say
what the selected disk can be doing at each place of that thread (`Doing`), that the address registers hold its sector from `select_sector()` to the command, and that the disk took
over that sector with the command. With no stray interrupt so far, `UnitsOwed` adds that units of `completion_wait`, pending interrupts and commands under way together are at most the one the holder is owed: this is
why the up it returns from was its own. Each stray interrupt loosens the bound by one, which is all that `expecting_interrupt` leaves of it. In the refinement `BlockCall` is `Begin`, `DiskFills` is `Read` and `OutputSector` is `Write` for
the holder, `LockRelease` is `Return`; the rest are stutters. All this is claimed while no wait has timed out (`Served`); that a wait times out only after a stray interrupt is part of
`IdeInv`, from `UnitsOwed`: with no stray interrupt, and nothing owed to the thread that waits, no disk has a command under way. After a time-out only the types, the lock and the checks of the sectors (`OneHolder`, `Checked`) are left.

`FileSys_proofs` proves, for any number of processes, names, sectors, descriptors, structs and calls, that `FileSysInv` is an invariant (`FileSysInvariant`), and
from it `CountsOpeners` and `SectorsOwned`. There is no hypothesis on how calls interleave: the only condition is the one in the properties, that calls have not met yet where
nothing keeps them apart. The assumptions on constants are those of `FileSysAssumption` (memory for structs is finite, `create()` is given sizes of which one is the largest, the
executables have different names and fit on the disk) and that `None`, data and headers can be told apart. `FileSysInv` has three parts, each inductive given those before it.

- `Sound` holds in every run, also after calls have met (`FileSysSound`): types; what a call knows at each of its places (`Shapes`: an inode in `drop`, a sector and a name in
  `slot`, a file only in `loaded`); blocks inside the device (`Extents`); one owner at most of a struct file (`Descriptors`, so that `exit()` closes each once); one process in `open()`
  (`OneLocked`, from the semaphore); and that `clash` has noted every meeting. For each step there is a lemma on where it takes its process (`StepMoves`), so that what the other
  processes know is shown to be unchanged once.
- `Counted` adds, until two calls have met on the list: the list has each inode in use once and no two of one sector (`Listed`); the counts (`CountsMatch`), where a call that
  holds an inode counts as an opener from the step that finds or makes it to the step that closes it or gives it to a file; and `KnowsInode`: an inode a call knows is in use, an inode about to leave
  the list has no opener, and a call about to insert one finds none of its sector. The last is where the meeting matters: `ListApart` says that while one call is between its search and
  its insertion no other changes the list. Lemmas on counts (`HoldersCounted`, `OpenersCounted`) say what one process or file more or less does to a cardinality.
- `Owned` adds, until two calls have met anywhere: `SectorsOwned`, and what makes it inductive: entries have different sectors (`EntriesApart`), a removed inode has no name
  (`RemovedUnnamed`), one call removes at a time (`OneRemoving`), and `KnowsSectors`: what a call has scanned is still unmarked when it flips, the entry it has found is still the one it found,
  the slot is still free, the header it has written is still there. The map changes by whole claims (`FlipOwned`, `ReleaseOwned`); `ClosedOwned` to `InodesOwned` are the steps that change no owner,
  `InsertOwned`, `UnlistOwned`, `WriteEntryOwned` and `EraseEntryOwned` those that hand sectors from a call to a file, from a file to a call, or from one user of a file to another.

`StoreRefined` is model-checked only.

`MlfqsHeapInterp_proofs` proves of `Heap`, for any number of threads and pages, any page and header size (a header fits twice into a page) and any requests, that
`HeapInv` is an invariant (`HeapInvariant`), and from it that allocations do not overlap one another, free blocks or headers and lie in marked pages (`HeldDisjoint`), and
`ArenaCounts` (`ArenasCounted`). `HeldApart` says besides that an allocation has the bytes that were asked for, and holds unless a size wraps around `size_t`
(`HeldIsApart`, hypothesis `NoWrap`; Section 3 says what happens when one does). `HeapAssumption` says that the pool lies below 2^32.

None of these is inductive alone, since what a thread holds is apart from the rest only because of what calls under way own.
- *Who owns what.* `Owned(t)` is what thread t has allocated and what it is giving back, `Reserved(t)` the pages it has found and not yet made into anything,
  or is about to clear. `OwnedOK`: what is owned is a page, a big block or a block that is not on the free list, nobody else owns it, and regions of different owners share at most the
  page of an arena. `ReservedOK`: reserved pages are nobody else's; between `Scan` and `Flip` they are unmarked, and `Clear` without the pool's lock cannot disturb that, because it clears only what its thread owns or
  reserves, which is marked.
- *What the headers say.* `PagesOK`: there are headers in marked pages only, and none inside a big block. `FreeOK`: the free lists hold blocks of arenas of their size, each once. `HeldOK`
  and `BackOK`: the size a block has, which `free()` reads from the header, is still the one it was given with.
- *Where calls stand.* `LocksHeld`, `CallsOK`: who is in the code under a lock, and what a call has determined there. `FreshOK`: while a thread makes a new arena the free list stays empty,
  because it has the descriptor; so `Pop` takes a block of the arena just made.
- *Counting.* `CountsOK`: an arena counts its blocks on the free list, all others are owned, and one at least is, unless it is being popped for the first time. `UsedOK`: a marked page is an arena's, or reserved or owned.

There is one lemma per action, and one per change that actions share (a call ends, a region is handed out, `free()` begins). TLC has checked `HeapInv` on the instance of `Heap.cfg`; as it is a lemma
of the proofs, no run lists it. `NoWrap` adds a second invariant, `AskedOK`: a call that allocates will get what it was asked for.

`NobodyStuck` of the run is about ENABLED, which the prover does not know. `CallsGoOn` proves what it comes to: while a call is under way, some call has nothing in the way of its next step
(`CanStep`: the locks it needs are free, and `malloc()` finds a block where it takes one). TLC has compared the two on all states of `Heap.cfg`: `CanStep(t)` holds exactly when `Step(t)` is enabled.
Who has the pool's lock waits for nothing; if it is free, who has a descriptor waits for nothing. That a block is there (`ReadyToPop`) is an invariant of its own, since only the thread with the descriptor changes its free list.

`MlfqsHeapInterp_proofs` proves of `Interp`, for any names, slots, values and hash function, that `NamesLive` is an invariant (`NamesStayLive`). With the types of the slots it is inductive by itself: a hash command is given a
table in use (`TableCommand`), and `deleteHashtable()` empties the table that the next `createHashtable()` takes over.

Only model-checked: `NobodyStuck` as ENABLED; that hash tables are sets (`IsSet`) and bitmaps arrays (`ImplementsArray`), since `rehash()` and the loops of `bitmap.c` are folds over lists of any length, which would
need induction over data; `StoreRefined`; `Linked` and `ImplementsSequences`, whose pointer walks are RECURSIVE operators, which the prover cannot follow; and the liveness properties, which are outside its reach.

## 5. Plan

What would come next, in order of importance: a proof that `FileSys` implements `FileStore`; what two calls that have met can do to the disk, with the memory of a freed inode and
the file of the free map, so that a reboot can be followed; page directories and the segments that `load()` maps.

## 6. Not modelled

- Booting, paging set-up, device probing, VGA: they run once, before there are threads, or are pure output.
- The C library, user programs, tests and host utilities: formatting, string handling and drivers; no kernel state. They are
  more than half of the repository, which also holds most kernel files three times; the newest one is modelled.
- The IDE driver's search for disks and `IDENTIFY DEVICE`, partition tables and the registration of block devices: they run once at boot.
- `quit` of the interpreter, which frees everything and ends the program, and its parsing and printing.
- User virtual memory: `load()`, page tables and argument passing, beyond their success or failure.
