--------------------------------- MODULE Ide ---------------------------------
(***************************************************************************)
(* A channel of the IDE driver (devices/ide.c) between threads, disks and  *)
(* the interrupt handler, under the block layer (devices/block.c) and its  *)
(* partitions (devices/partition.c).                                       *)
(*                                                                         *)
(* A thread may be preempted, and the interrupt may come, anywhere: the    *)
(* driver needs interrupts on.  The disks are as the ATA standard has      *)
(* them.  Polling loops end when the disk is ready or they time out:       *)
(* wait_while_busy() with a panic, as if the disk had failed,              *)
(* wait_until_idle() as if the disk were idle.  A register that nobody     *)
(* reads again, and the request of a thread that has returned, are         *)
(* normalised.                                                             *)
(***************************************************************************)
EXTENDS Integers

CONSTANTS
  Thread, NoThread,
  Block,       \* the partitions (and disks) in use
  Disk,        \* the disks of the channel: dev_no
  Place,       \* disk, first sector and size of each block device
  DiskSize,    \* sectors of a disk
  Data, Blank, \* contents of a sector
  MaxSpurious  \* bound: interrupts that no disk asked for

ASSUME IdeAssumption ==
  /\ NoThread \notin Thread /\ Blank \in Data
  /\ NoThread \notin [op : {"read", "write"}, block : Block, sector : Nat, data : Data,
                      done : BOOLEAN]
  /\ MaxSpurious \in Nat /\ DiskSize \in Nat \ {0} /\ Block # {}
  /\ Place \in [Block -> [disk : Disk, start : Nat, size : Nat]]
  /\ \A b \in Block : Place[b].start + Place[b].size <= DiskSize
  /\ \A b, c \in Block :
       b # c /\ Place[b].disk = Place[c].disk =>
         \/ Place[b].start + Place[b].size <= Place[c].start
         \/ Place[c].start + Place[c].size <= Place[b].start

VARIABLES
  pc,                  \* where each thread stands
  req,                 \* the arguments of block_read() or block_write()
  holder,              \* the channel's lock
  expecting_interrupt,
  completion_wait,     \* value of the semaphore
  selected,            \* the channel's device register
  lba,                 \* the channel's sector registers
  state,               \* what each disk does
  latched,             \* the sector of each disk's command
  data,                \* the data register of each disk
  irq,                 \* disks whose interrupt is pending
  medium,              \* what is on each disk
  spurious,            \* interrupts that no disk asked for
  timed_out,           \* history: wait_until_idle() has given up on a busy disk
  panic                \* the kernel has stopped

threadVars == <<pc, req, holder>>
driverVars == <<expecting_interrupt, completion_wait>>
diskVars   == <<state, latched, data, irq, medium>>
vars == <<threadVars, driverVars, selected, lba, diskVars, spurious, timed_out, panic>>

\* One sector more than there are: a call may ask for it.
Request == UNION {[op : {"read", "write"}, block : {b}, sector : 0 .. Place[b].size,
                   data : Data] : b \in Block}
NoRequest == [op |-> "read", block |-> CHOOSE b \in Block : TRUE, sector |-> 0, data |-> Blank]

Location ==
  {"run",     \* not in a call
   "lock",    \* lock_acquire (&c->lock)
   "idle",    \* select_device_wait(): before the device is selected, and
   "ready",   \* after it
   "expect",  \* issue_pio_command(): before expecting_interrupt = true, and
   "command", \* before the command goes out
   "down",    \* sema_down (&c->completion_wait)
   "busy",    \* wait_while_busy()
   "release"} \* lock_release (&c->lock)

\* A disk has BSY set, has DRQ set, or is idle.
Busy  == {"reading", "accepting", "writing"}
Drq   == {"filled", "want"}

TypeOK ==
  /\ pc \in [Thread -> Location] /\ req \in [Thread -> Request]
  /\ holder \in Thread \cup {NoThread}
  /\ expecting_interrupt \in BOOLEAN /\ completion_wait \in Nat
  /\ selected \in Disk /\ lba \in 0 .. DiskSize - 1
  /\ state \in [Disk -> Busy \cup Drq \cup {"idle"}]
  /\ latched \in [Disk -> 0 .. DiskSize - 1] /\ data \in [Disk -> Data]
  /\ irq \subseteq Disk
  /\ medium \in [Disk -> [0 .. DiskSize - 1 -> Data]]
  /\ spurious \in 0 .. MaxSpurious /\ timed_out \in BOOLEAN /\ panic \in BOOLEAN

\* As ide_init() leaves the channel, with blank disks.
Init ==
  /\ pc = [t \in Thread |-> "run"] /\ req = [t \in Thread |-> NoRequest]
  /\ holder = NoThread
  /\ expecting_interrupt = FALSE /\ completion_wait = 0
  /\ selected \in Disk /\ lba = 0
  /\ state = [d \in Disk |-> "idle"] /\ latched = [d \in Disk |-> 0]
  /\ data = [d \in Disk |-> Blank] /\ irq = {}
  /\ medium = [d \in Disk |-> [s \in 0 .. DiskSize - 1 |-> Blank]]
  /\ spurious = 0 /\ timed_out = FALSE /\ panic = FALSE

-----------------------------------------------------------------------------
(* Threads *)

DiskOf(t)   == Place[req[t].block].disk
SectorOf(t) == Place[req[t].block].start + req[t].sector

Goto(t, l) == pc' = [pc EXCEPT ![t] = l]

\* check_sector()
CheckSector(r) == r.sector < Place[r.block].size

\* block_read(), block_write() on a disk or partition: the sector is checked,
\* partition_read() or partition_write() adds the start of the partition.
BlockCall(t) ==
  /\ pc[t] = "run"
  /\ \E r \in Request :
       /\ r.op = "read" => r.data = Blank
       /\ req' = [req EXCEPT ![t] = r]
       /\ IF CheckSector(r) THEN Goto(t, "lock") /\ UNCHANGED panic
          ELSE panic' = TRUE /\ UNCHANGED pc
  /\ UNCHANGED <<holder, driverVars, selected, lba, diskVars, spurious, timed_out>>

\* Mutant: ide_read() and ide_write() without the lock.
LockOpen(t) ==
  /\ pc[t] = "lock"
  /\ holder' = t /\ Goto(t, "idle")
  /\ UNCHANGED <<req, driverVars, selected, lba, diskVars, spurious, timed_out, panic>>

LockAcquire(t) ==
  /\ pc[t] = "lock" /\ holder = NoThread
  /\ holder' = t /\ Goto(t, "idle")
  /\ UNCHANGED <<req, driverVars, selected, lba, diskVars, spurious, timed_out, panic>>

\* wait_until_idle() of the disk that is selected, which may give up on it after
\* 1000 polls.  Reading the status register clears the disk's interrupt.
Idle ==
  /\ irq' = irq \ {selected}
  /\ timed_out' = (timed_out \/ state[selected] # "idle")

\* select_device_wait(), its first half: wait_until_idle(), select_device().
SelectDevice(t) ==
  /\ pc[t] = "idle" /\ Idle
  /\ selected' = DiskOf(t) /\ Goto(t, "ready")
  /\ UNCHANGED <<req, holder, driverVars, lba, state, latched, data, medium, spurious, panic>>

\* Its second half, and the rest of select_sector().
SelectSector(t) ==
  /\ pc[t] = "ready" /\ Idle
  /\ lba' = SectorOf(t) /\ selected' = DiskOf(t) /\ Goto(t, "expect")
  /\ UNCHANGED <<req, holder, driverVars, state, latched, data, medium, spurious, panic>>

\* Mutant: the interrupt comes unexpected.
ExpectNothing(t) ==
  /\ pc[t] = "expect" /\ Goto(t, "command")
  /\ UNCHANGED <<req, holder, driverVars, selected, lba, diskVars, spurious, timed_out, panic>>

\* issue_pio_command()
ExpectInterrupt(t) ==
  /\ pc[t] = "expect"
  /\ expecting_interrupt' = TRUE /\ Goto(t, "command")
  /\ UNCHANGED <<req, holder, completion_wait, selected, lba, diskVars, spurious, timed_out, panic>>

\* The command goes to the disk that is selected; a disk that is still busy may
\* drop what it does for it or take no notice.  ide_read() then waits for the
\* interrupt, ide_write() for the disk.
IssuePioCommand(t) ==
  LET reading == req[t].op = "read"
  IN  /\ pc[t] = "command"
      /\ \/ /\ state' = [state EXCEPT ![selected] = IF reading THEN "reading" ELSE "accepting"]
            /\ latched' = [latched EXCEPT ![selected] = lba]
         \/ state[selected] # "idle" /\ UNCHANGED <<state, latched>>
      /\ Goto(t, IF reading THEN "down" ELSE "busy")
      /\ UNCHANGED <<req, holder, driverVars, selected, lba, data, irq, medium, spurious,
                     timed_out, panic>>

\* Mutant: the interrupt of a command stays counted.
SemaDownKeeps(t) ==
  /\ pc[t] = "down" /\ completion_wait > 0
  /\ Goto(t, IF req[t].op = "read" THEN "busy" ELSE "release")
  /\ UNCHANGED <<req, holder, driverVars, selected, lba, diskVars, spurious, timed_out, panic>>

\* sema_down (&c->completion_wait)
SemaDown(t) ==
  /\ pc[t] = "down" /\ completion_wait > 0
  /\ completion_wait' = completion_wait - 1
  /\ Goto(t, IF req[t].op = "read" THEN "busy" ELSE "release")
  /\ UNCHANGED <<req, holder, expecting_interrupt, selected, lba, diskVars, spurious, timed_out,
                 panic>>

\* wait_while_busy() has found BSY clear.
NotBusy(t) == pc[t] = "busy" /\ state[selected] \notin Busy

\* ide_read(): input_sector().  What is read replaces the data of the request.
InputSector(t) ==
  /\ NotBusy(t) /\ req[t].op = "read" /\ state[selected] \in Drq
  /\ req' = [req EXCEPT ![t].data = data[selected]]
  /\ state' = [state EXCEPT ![selected] = "idle"] /\ Goto(t, "release")
  /\ data' = [data EXCEPT ![selected] = Blank]
  /\ UNCHANGED <<holder, driverVars, selected, lba, latched, irq, medium, spurious, timed_out,
                 panic>>

\* Mutant: the data is sent and nobody waits for the interrupt.
OutputAndGo(t) ==
  /\ NotBusy(t) /\ req[t].op = "write" /\ state[selected] \in Drq
  /\ data' = [data EXCEPT ![selected] = req[t].data]
  /\ state' = [state EXCEPT ![selected] = "writing"] /\ Goto(t, "release")
  /\ UNCHANGED <<req, holder, driverVars, selected, lba, latched, irq, medium, spurious,
                 timed_out, panic>>

\* ide_write(): output_sector().
OutputSector(t) ==
  /\ NotBusy(t) /\ req[t].op = "write" /\ state[selected] \in Drq
  /\ data' = [data EXCEPT ![selected] = req[t].data]
  /\ state' = [state EXCEPT ![selected] = "writing"] /\ Goto(t, "down")
  /\ UNCHANGED <<req, holder, driverVars, selected, lba, latched, irq, medium, spurious,
                 timed_out, panic>>

\* The disk has failed.
DiskFailed(t) ==
  /\ NotBusy(t) /\ state[selected] \notin Drq
  /\ panic' = TRUE
  /\ UNCHANGED <<threadVars, driverVars, selected, lba, diskVars, spurious, timed_out>>

LockRelease(t) ==
  /\ pc[t] = "release"
  /\ holder' = NoThread /\ Goto(t, "run") /\ req' = [req EXCEPT ![t] = NoRequest]
  /\ UNCHANGED <<driverVars, selected, lba, diskVars, spurious, timed_out, panic>>

-----------------------------------------------------------------------------
(* Interrupts and disks *)

\* interrupt_handler(): an interrupt that is expected is acknowledged and ups
\* the semaphore.
Handle ==
  IF expecting_interrupt
  THEN irq' = irq \ {selected} /\ completion_wait' = completion_wait + 1
  ELSE UNCHANGED <<completion_wait, irq>>

InterruptHandler ==
  /\ selected \in irq /\ Handle
  /\ UNCHANGED <<threadVars, expecting_interrupt, selected, lba, state, latched, data, medium,
                 spurious, timed_out, panic>>

\* An interrupt nobody asked for.
SpuriousInterrupt ==
  /\ spurious < MaxSpurious /\ spurious' = spurious + 1 /\ Handle
  /\ UNCHANGED <<threadVars, expecting_interrupt, selected, lba, state, latched, data, medium,
                 timed_out, panic>>

\* A disk has read its sector, wants the data of a write, has written them.
DiskFills(d) ==
  /\ state[d] = "reading"
  /\ state' = [state EXCEPT ![d] = "filled"] /\ irq' = irq \cup {d}
  /\ data' = [data EXCEPT ![d] = medium[d][latched[d]]]
  /\ latched' = [latched EXCEPT ![d] = 0]
  /\ UNCHANGED <<threadVars, driverVars, selected, lba, medium, spurious, timed_out, panic>>

DiskWants(d) ==
  /\ state[d] = "accepting"
  /\ state' = [state EXCEPT ![d] = "want"]
  /\ UNCHANGED <<threadVars, driverVars, selected, lba, latched, data, irq, medium, spurious,
                 timed_out, panic>>

DiskWrites(d) ==
  /\ state[d] = "writing"
  /\ state' = [state EXCEPT ![d] = "idle"] /\ irq' = irq \cup {d}
  /\ medium' = [medium EXCEPT ![d][latched[d]] = data[d]]
  /\ latched' = [latched EXCEPT ![d] = 0] /\ data' = [data EXCEPT ![d] = Blank]
  /\ UNCHANGED <<threadVars, driverVars, selected, lba, spurious, timed_out, panic>>

\* A command fails before data are moved: neither BSY nor DRQ.
DiskFails(d) ==
  /\ state[d] \in {"reading", "accepting"}
  /\ state' = [state EXCEPT ![d] = "idle"] /\ irq' = irq \cup {d}
  /\ latched' = [latched EXCEPT ![d] = 0]
  /\ UNCHANGED <<threadVars, driverVars, selected, lba, data, medium, spurious, timed_out, panic>>

Driver(t) ==
  \/ LockAcquire(t) \/ SelectDevice(t) \/ SelectSector(t) \/ ExpectInterrupt(t)
  \/ IssuePioCommand(t) \/ SemaDown(t) \/ InputSector(t) \/ OutputSector(t)
  \/ DiskFailed(t) \/ LockRelease(t)

DiskStep(d) == DiskFills(d) \/ DiskWants(d) \/ DiskWrites(d) \/ DiskFails(d)

Next ==
  /\ ~panic
  /\ \/ \E t \in Thread : BlockCall(t) \/ Driver(t)
     \/ InterruptHandler \/ SpuriousInterrupt
     \/ \E d \in Disk : DiskStep(d)

Spec == Init /\ [][Next]_vars

(***************************************************************************)
(* A thread inside the driver goes on when it can (round robin), a disk    *)
(* ends its command, the interrupt controller keeps a request until it is  *)
(* served.  Nobody has to call.                                            *)
(***************************************************************************)
FairSpec ==
  /\ Spec
  /\ \A t \in Thread : WF_vars(~panic /\ Driver(t))
  /\ \A d \in Disk : WF_vars(~panic /\ DiskStep(d))
  /\ WF_vars(~panic /\ InterruptHandler)

-----------------------------------------------------------------------------
(* Properties *)

\* What a call has come to, for BlockStore: a read is done when the disk has
\* read, a write when the disk has its data.
Filled(t) == pc[t] \in {"down", "busy"} /\ state[selected] = "filled"
Done(t)   == pc[t] = "release" \/ (IF req[t].op = "read" THEN Filled(t) ELSE pc[t] = "down")

CallOf(t) ==
  IF pc[t] = "run" THEN NoThread
  ELSE [op |-> req[t].op, block |-> req[t].block, sector |-> req[t].sector,
        data |-> IF req[t].op = "read" /\ Filled(t) THEN data[selected] ELSE req[t].data,
        done |-> Done(t)]

OnDisk(d, s) == IF state[d] = "writing" /\ latched[d] = s THEN data[d] ELSE medium[d][s]

Store == INSTANCE BlockStore WITH
  Size    <- [b \in Block |-> Place[b].size],
  NoCall  <- NoThread,
  content <- [b \in Block |-> [s \in 0 .. Place[b].size - 1 |->
                 OnDisk(Place[b].disk, Place[b].start + s)]],
  call    <- [t \in Thread |-> CallOf(t)]

\* Sectors of disks and partitions are read and written at one instant, through
\* one channel with one semaphore and one set of registers for two disks, also
\* when a stray interrupt lets a thread through before its command has ended; but
\* only as long as wait_until_idle() does not give up on the disk that is then
\* still writing.  Without a stray interrupt it never does.
BlocksAtomic ==
  /\ Store!Init /\ [][~timed_out' => [Store!Next]_(Store!vars)]_vars
  /\ [](timed_out => spurious > 0)

\* Who has the channel gives it back: no interrupt is lost between a command
\* and the semaphore, whatever clears the disk's request, and also after a
\* time-out.
CommandsEnd == holder # NoThread ~> holder = NoThread \/ panic

\* ide_write() "returns after the disk has acknowledged receiving the data": the
\* disk is done with them, as long as every interrupt is one of a disk.  (A stray
\* one is taken for it: expecting_interrupt is never cleared.)
WriteAcknowledged ==
  /\ TypeOK
  /\ spurious = 0 =>
       \A t \in Thread : pc[t] = "release" /\ req[t].op = "write" =>
         /\ state[DiskOf(t)] = "idle"
         /\ medium[DiskOf(t)][SectorOf(t)] = req[t].data

(***************************************************************************)
(* The inductive invariant of the proofs.  The lock's holder is the thread *)
(* that is inside the driver; a request that got in was checked; no disk   *)
(* but the selected one does anything; the holder's place says what that   *)
(* one can be doing.  The last two until a wait for the disk times out.    *)
(***************************************************************************)
OneHolder == \A t \in Thread : pc[t] \in {"run", "lock"} <=> holder # t

Checked == \A t \in Thread : pc[t] # "run" => CheckSector(req[t])

OneDisk == (\A d \in Disk : d # selected => state[d] = "idle") /\ irq \subseteq {selected}

\* A disk has a command that is to end in an interrupt.
Underway == {"reading", "accepting", "want", "writing"}

\* What the selected disk can be doing while a thread stands at a place.
Doing(t) ==
  CASE pc[t] = "idle"                                       -> {"idle", "writing"}
    [] pc[t] \in {"ready", "expect", "command"}             -> {"idle"}
    [] req[t].op = "read" /\ pc[t] \in {"down", "busy"}     -> {"reading", "filled", "idle"}
    [] req[t].op = "read" /\ pc[t] = "release"              -> {"idle"}
    [] req[t].op = "write" /\ pc[t] = "busy"                -> {"accepting", "want", "idle"}
    [] req[t].op = "write" /\ pc[t] \in {"down", "release"} -> {"writing", "idle"}

HolderServed ==
  /\ holder = NoThread => state[selected] \in {"idle", "writing"}
  /\ \A t \in Thread : holder = t =>
       /\ state[selected] \in Doing(t)
       /\ pc[t] # "idle" => selected = DiskOf(t)
       /\ pc[t] \in {"expect", "command"} => lba = SectorOf(t)
       /\ pc[t] \in {"down", "busy", "release"} /\ state[selected] \in Underway =>
            latched[selected] = SectorOf(t)
       /\ req[t].op = "write" /\ pc[t] \in {"down", "release"} =>
            OnDisk(selected, SectorOf(t)) = req[t].data

(***************************************************************************)
(* Every unit of the semaphore, every pending interrupt and every command  *)
(* that will end in one is matched by a stray interrupt or by the one      *)
(* command whose interrupt its thread has not waited for yet.              *)
(***************************************************************************)
One(p) == IF p THEN 1 ELSE 0
Owed == \E t \in Thread : pc[t] = "down" \/ (req[t].op = "write" /\ pc[t] = "busy")
UnitsOwed ==
  completion_wait + One(selected \in irq)
    + One(state[selected] \in Underway) <= spurious + One(Owed)

Served == OneDisk /\ HolderServed /\ UnitsOwed

IdeInv ==
  /\ TypeOK /\ OneHolder /\ Checked
  /\ ~timed_out => Served
  /\ timed_out => spurious > 0

=============================================================================
