------------------------------ MODULE Ide_proofs ------------------------------
(***************************************************************************)
(* Proofs about Ide: IdeInv is inductive, so a write that has returned is  *)
(* on the disk unless a stray interrupt came; and until a wait for the     *)
(* disk times out, which only a stray interrupt can bring about, the       *)
(* driver with its disks implements BlockStore, for any number of threads, *)
(* disks, partitions and sectors.                                          *)
(***************************************************************************)
EXTENDS Ide, TLAPS

-----------------------------------------------------------------------------
(* Requests and places *)

LEMMA RequestFacts ==
  \A r : r \in Request <=> /\ r \in [op : {"read", "write"}, block : Block, sector : Nat,
                                     data : Data]
                           /\ r.sector <= Place[r.block].size
<1>1. ASSUME NEW b \in Block
      PROVE  Place[b].size \in Nat
  BY IdeAssumption
<1>2. ASSUME NEW r, r \in Request
      PROVE  /\ r \in [op : {"read", "write"}, block : Block, sector : Nat, data : Data]
             /\ r.sector <= Place[r.block].size
  <2>1. PICK b \in Block : r \in [op : {"read", "write"}, block : {b},
                                  sector : 0 .. Place[b].size, data : Data]
    BY <1>2 DEF Request
  <2> QED
    BY <1>1, <2>1
<1>3. ASSUME NEW r \in [op : {"read", "write"}, block : Block, sector : Nat, data : Data],
             r.sector <= Place[r.block].size
      PROVE  r \in Request
  <2>1. r \in [op : {"read", "write"}, block : {r.block}, sector : 0 .. Place[r.block].size,
               data : Data]
    BY <1>1, <1>3
  <2> QED
    BY <2>1 DEF Request
<1> QED
  BY <1>2, <1>3

\* The request of a thread that got past check_sector() is for a sector of a
\* disk.
LEMMA PlaceFacts ==
  ASSUME TypeOK, NEW t \in Thread
  PROVE  /\ DiskOf(t) \in Disk
         /\ CheckSector(req[t]) => SectorOf(t) \in 0 .. DiskSize - 1
<1>1. req[t].block \in Block /\ req[t].sector \in Nat
  BY RequestFacts DEF TypeOK
<1>2. /\ Place[req[t].block] \in [disk : Disk, start : Nat, size : Nat]
      /\ Place[req[t].block].start + Place[req[t].block].size <= DiskSize /\ DiskSize \in Nat
  BY <1>1, IdeAssumption
<1> QED
  BY <1>1, <1>2 DEF DiskOf, SectorOf, CheckSector

LEMMA NoRequestFacts == NoRequest \in Request
<1> DEFINE b == CHOOSE c \in Block : TRUE
<1>1. b \in Block
  BY IdeAssumption
<1>2. NoRequest = [op |-> "read", block |-> b, sector |-> 0, data |-> Blank]
  BY DEF NoRequest
<1> HIDE DEF b
<1>3. Place[b].size \in Nat /\ Blank \in Data
  BY <1>1, IdeAssumption
<1> QED
  BY <1>1, <1>2, <1>3, RequestFacts

-----------------------------------------------------------------------------
(* One step of the thread that holds the lock *)

\* Whether thread t has yet to wait for the interrupt of its command.
Owes(t) == pc[t] = "down" \/ (req[t].op = "write" /\ pc[t] = "busy")

LEMMA OwedFacts ==
  OneHolder => /\ \A t \in Thread : holder = t => (Owed <=> Owes(t))
               /\ holder \notin Thread => ~Owed
BY DEF OneHolder, Owed, Owes

LEMMA OneFacts == \A p \in BOOLEAN : One(p) \in {0, 1} /\ (One(p) = 1 <=> p)
BY DEF One

\* The holder goes from one place inside the driver to another.
Inside == Location \ {"run", "lock"}

LEMMA HolderMoves ==
  ASSUME OneHolder, Checked, TypeOK, NEW t \in Thread, holder = t, NEW l \in Inside, Goto(t, l),
         UNCHANGED holder,
         req' \in [Thread -> Request], \A u \in Thread : u # t => req'[u] = req[u],
         req'[t].block = req[t].block, req'[t].sector = req[t].sector, req'[t].op = req[t].op
  PROVE  /\ OneHolder' /\ Checked' /\ pc' \in [Thread -> Location]
         /\ pc[t] \in Inside /\ pc'[t] = l /\ \A u \in Thread : u # t => pc'[u] = pc[u]
         /\ DiskOf(t)' = DiskOf(t) /\ SectorOf(t)' = SectorOf(t)
         /\ (Owed <=> Owes(t)) /\ (Owed' <=> Owes(t)')
<1>1. /\ pc' \in [Thread -> Location] /\ pc'[t] = l /\ \A u \in Thread : u # t => pc'[u] = pc[u]
      /\ pc[t] \in Inside
  BY DEF Goto, TypeOK, Inside, OneHolder
<1>2. OneHolder'
  BY <1>1 DEF OneHolder, Inside
<1>3. Checked'
  BY <1>1 DEF Checked, CheckSector, OneHolder
<1>4. OneHolder' => (Owed' <=> Owes(t)')
  BY <1>2 DEF OneHolder, Owed, Owes
<1> QED
  BY <1>1, <1>2, <1>3, <1>4, OwedFacts DEF DiskOf, SectorOf

\* The holder at its places.
LEMMA HolderAt ==
  ASSUME TypeOK, OneHolder, Checked, NEW t \in Thread, pc[t] \in Inside
  PROVE  /\ holder = t /\ CheckSector(req[t])
         /\ SectorOf(t) \in 0 .. DiskSize - 1 /\ DiskOf(t) \in Disk
         /\ req[t].op \in {"read", "write"} /\ req[t].data \in Data
         /\ (Owed <=> Owes(t))
         /\ Served => state[selected] \in Doing(t)
BY PlaceFacts, OwedFacts, RequestFacts
   DEF OneHolder, Checked, Served, HolderServed, Inside, TypeOK

\* input_sector() changes the data of the request only.
LEMMA InputRequest ==
  ASSUME TypeOK, NEW t \in Thread, InputSector(t)
  PROVE  /\ req' \in [Thread -> Request] /\ \A u \in Thread : u # t => req'[u] = req[u]
         /\ req'[t].block = req[t].block /\ req'[t].sector = req[t].sector
         /\ req'[t].op = req[t].op
<1>1. data[selected] \in Data /\ req[t] \in Request
  BY DEF TypeOK
<1>2. [req[t] EXCEPT !.data = data[selected]] \in Request
  BY <1>1, RequestFacts
<1>3. /\ req' = [req EXCEPT ![t] = [req[t] EXCEPT !.data = data[selected]]]
      /\ req'[t] = [req[t] EXCEPT !.data = data[selected]]
  BY DEF TypeOK, InputSector
<1> QED
  BY <1>1, <1>2, <1>3, RequestFacts DEF TypeOK

-----------------------------------------------------------------------------
(* Types, the lock and the checked requests, in every run *)

Safe == TypeOK /\ OneHolder /\ Checked

LEMMA InitSafe == Init => Safe
<1> SUFFICES ASSUME Init PROVE Safe
  OBVIOUS
<1>1. TypeOK
  <2>1. 0 \in 0 .. DiskSize - 1 /\ 0 \in 0 .. MaxSpurious /\ 0 \in Nat
    BY IdeAssumption
  <2>2. req \in [Thread -> Request]
    BY NoRequestFacts DEF Init
  <2>3. expecting_interrupt \in BOOLEAN /\ timed_out \in BOOLEAN /\ panic \in BOOLEAN
    BY Zenon DEF Init
  <2> QED
    BY <2>1, <2>2, <2>3, IdeAssumption DEF Init, TypeOK, Location
<1>2. OneHolder /\ Checked
  BY IdeAssumption DEF Init, OneHolder, Checked
<1> QED
  BY <1>1, <1>2 DEF Safe

LEMMA BlockCallSafe ==
  ASSUME Safe, NEW t \in Thread, BlockCall(t)
  PROVE  Safe'
<1> PICK r \in Request :
      /\ r.op = "read" => r.data = Blank
      /\ req' = [req EXCEPT ![t] = r]
      /\ IF CheckSector(r) THEN Goto(t, "lock") /\ UNCHANGED panic
         ELSE panic' = TRUE /\ UNCHANGED pc
  BY DEF BlockCall
<1>1. TypeOK /\ OneHolder /\ Checked
  BY DEF Safe
<1>2. pc[t] = "run" /\ UNCHANGED <<holder, driverVars, selected, lba, diskVars, spurious,
                                   timed_out>>
  BY DEF BlockCall
<1>3. /\ req' \in [Thread -> Request] /\ req'[t] = r
      /\ \A u \in Thread : u # t => req'[u] = req[u] /\ pc'[u] = pc[u]
      /\ pc' \in [Thread -> Location] /\ pc'[t] \in {"run", "lock"} /\ panic' \in BOOLEAN
      /\ pc'[t] # "run" => CheckSector(r)
  BY <1>1, <1>2 DEF TypeOK, Goto, Location
<1>4. TypeOK'
  BY <1>1, <1>2, <1>3 DEF TypeOK, driverVars, diskVars
<1>5. OneHolder' /\ Checked'
  BY <1>1, <1>2, <1>3 DEF OneHolder, Checked, CheckSector
<1> QED
  BY <1>4, <1>5 DEF Safe

LEMMA LockSafe ==
  ASSUME Safe, NEW t \in Thread, LockAcquire(t) \/ LockRelease(t)
  PROVE  Safe'
<1>1. TypeOK /\ OneHolder /\ Checked
  BY DEF Safe
<1>2. UNCHANGED <<driverVars, selected, lba, diskVars, spurious, timed_out, panic>>
  BY DEF LockAcquire, LockRelease
<1>3. CASE LockAcquire(t)
  <2>1. /\ pc[t] = "lock" /\ holder = NoThread /\ holder' = t /\ req' = req
        /\ pc' \in [Thread -> Location] /\ pc'[t] = "idle"
        /\ \A u \in Thread : u # t => pc'[u] = pc[u]
    BY <1>1, <1>3 DEF LockAcquire, Goto, TypeOK, Location
  <2>2. TypeOK'
    BY <1>1, <1>2, <2>1 DEF TypeOK, driverVars, diskVars
  <2>3. OneHolder' /\ Checked'
    BY <1>1, <2>1, IdeAssumption DEF OneHolder, Checked, CheckSector
  <2> QED
    BY <2>2, <2>3 DEF Safe
<1>4. CASE LockRelease(t)
  <2>1. /\ pc[t] = "release" /\ holder' = NoThread
        /\ pc' \in [Thread -> Location] /\ pc'[t] = "run" /\ req' \in [Thread -> Request]
        /\ \A u \in Thread : u # t => pc'[u] = pc[u] /\ req'[u] = req[u]
    BY <1>1, <1>4, NoRequestFacts DEF LockRelease, Goto, TypeOK, Location
  <2>2. TypeOK'
    BY <1>1, <1>2, <2>1 DEF TypeOK, driverVars, diskVars
  <2>3. OneHolder' /\ Checked'
    BY <1>1, <2>1, IdeAssumption DEF OneHolder, Checked, CheckSector
  <2> QED
    BY <2>2, <2>3 DEF Safe
<1> QED
  BY <1>3, <1>4

\* The holder's steps inside the driver.
LEMMA HolderSafe ==
  ASSUME Safe, NEW t \in Thread,
         \/ SelectDevice(t) \/ SelectSector(t) \/ ExpectInterrupt(t) \/ IssuePioCommand(t)
         \/ SemaDown(t) \/ InputSector(t) \/ OutputSector(t)
  PROVE  Safe'
<1>1. TypeOK /\ OneHolder /\ Checked
  BY DEF Safe
<1>2. pc[t] \in Inside
  BY DEF Inside, Location, SelectDevice, SelectSector, ExpectInterrupt, IssuePioCommand, SemaDown,
     InputSector, OutputSector, NotBusy
<1>3. /\ holder = t /\ DiskOf(t) \in Disk /\ SectorOf(t) \in 0 .. DiskSize - 1
      /\ req[t].data \in Data
  BY <1>1, <1>2, HolderAt DEF Safe
<1>4. /\ UNCHANGED <<holder, medium, spurious, panic>>
      /\ expecting_interrupt' \in BOOLEAN
      /\ timed_out' \in BOOLEAN
  <2>1. UNCHANGED <<holder, medium, spurious, panic>>
    BY DEF SelectDevice, SelectSector, ExpectInterrupt, IssuePioCommand, SemaDown, InputSector,
       OutputSector, diskVars
  <2>2. timed_out' = timed_out \/ timed_out' = (timed_out \/ state[selected] # "idle")
    BY Zenon DEF SelectDevice, SelectSector, ExpectInterrupt, IssuePioCommand, SemaDown,
       InputSector,
       OutputSector, Idle
  <2>3. timed_out \in BOOLEAN /\ expecting_interrupt \in BOOLEAN
    BY <1>1 DEF TypeOK
  <2>4. expecting_interrupt' = expecting_interrupt \/ expecting_interrupt' = TRUE
    BY Zenon DEF SelectDevice, SelectSector, ExpectInterrupt, IssuePioCommand, SemaDown,
       InputSector,
       OutputSector, driverVars
  <2> QED
    BY Zenon, <2>1, <2>2, <2>3, <2>4
<1>5. completion_wait' \in Nat
  <2>1. CASE UNCHANGED completion_wait
    BY <1>1, <2>1 DEF TypeOK
  <2>2. CASE SemaDown(t)
    BY <1>1, <2>2 DEF SemaDown, TypeOK
  <2> QED
    BY <2>1, <2>2 DEF SelectDevice, SelectSector, ExpectInterrupt, IssuePioCommand, InputSector,
       OutputSector, driverVars
<1>6. selected' \in Disk /\ lba' \in 0 .. DiskSize - 1 /\ irq' \subseteq Disk
  BY <1>1, <1>3 DEF TypeOK, SelectDevice, SelectSector, ExpectInterrupt, IssuePioCommand, SemaDown,
     InputSector, OutputSector, Idle, diskVars
<1>7. /\ state' \in [Disk -> Busy \cup Drq \cup {"idle"}]
      /\ latched' \in [Disk -> 0 .. DiskSize - 1] /\ data' \in [Disk -> Data]
  <2>1. /\ selected \in Disk /\ lba \in 0 .. DiskSize - 1 /\ Blank \in Data
        /\ state \in [Disk -> Busy \cup Drq \cup {"idle"}]
        /\ latched \in [Disk -> 0 .. DiskSize - 1] /\ data \in [Disk -> Data]
    BY <1>1, IdeAssumption DEF TypeOK
  <2>2. CASE UNCHANGED <<state, latched, data>>
    BY <2>1, <2>2
  <2>3. CASE IssuePioCommand(t)
    BY <2>1, <2>3 DEF IssuePioCommand, Busy
  <2>4. CASE InputSector(t)
    BY <2>1, <2>4 DEF InputSector
  <2>5. CASE OutputSector(t)
    BY <1>3, <2>1, <2>5 DEF OutputSector, Busy
  <2> QED
    BY <2>2, <2>3, <2>4, <2>5 DEF SelectDevice, SelectSector, ExpectInterrupt, SemaDown, diskVars
<1>8. /\ req' \in [Thread -> Request] /\ \A u \in Thread : u # t => req'[u] = req[u]
      /\ req'[t].block = req[t].block /\ req'[t].sector = req[t].sector
      /\ req'[t].op = req[t].op
  <2>1. CASE UNCHANGED req
    BY <1>1, <2>1 DEF TypeOK
  <2>2. CASE InputSector(t)
    BY <1>1, <2>2, InputRequest
  <2> QED
    BY <2>1, <2>2 DEF SelectDevice, SelectSector, ExpectInterrupt, IssuePioCommand, SemaDown,
       OutputSector
<1>9. \E l \in Inside : Goto(t, l)
  <2>1. ASSUME NEW l \in {"ready", "expect", "command", "down", "busy", "release"}, Goto(t, l)
        PROVE  \E m \in Inside : Goto(t, m)
    BY <2>1 DEF Inside, Location
  <2> QED
    BY <2>1 DEF SelectDevice, SelectSector, ExpectInterrupt, IssuePioCommand, SemaDown,
       InputSector, OutputSector
<1>10. OneHolder' /\ Checked' /\ pc' \in [Thread -> Location]
  BY <1>1, <1>3, <1>4, <1>8, <1>9, HolderMoves
<1>11. TypeOK'
  BY <1>1, <1>4, <1>5, <1>6, <1>7, <1>8, <1>10 DEF TypeOK
<1> QED
  BY <1>10, <1>11 DEF Safe

\* A step of the interrupt handler or of a disk moves no thread.
LEMMA ThreadsStay ==
  ASSUME OneHolder, Checked, UNCHANGED threadVars
  PROVE  /\ OneHolder' /\ Checked' /\ (Owed' <=> Owed) /\ Owed' \in BOOLEAN
         /\ \A t \in Thread : /\ DiskOf(t)' = DiskOf(t) /\ SectorOf(t)' = SectorOf(t)
                              /\ Doing(t)' = Doing(t)
BY DEF OneHolder, Checked, CheckSector, Owed, DiskOf, SectorOf, Doing, threadVars

LEMMA DisksSafe ==
  ASSUME Safe,
         \/ InterruptHandler \/ SpuriousInterrupt \/ \E d \in Disk : DiskStep(d)
         \/ \E t \in Thread : DiskFailed(t)
         \/ UNCHANGED vars
  PROVE  Safe'
<1>1. TypeOK /\ OneHolder /\ Checked
  BY DEF Safe
<1>2. /\ UNCHANGED <<threadVars, expecting_interrupt, selected, lba, timed_out>>
      /\ UNCHANGED panic \/ panic' = TRUE
  BY DEF InterruptHandler, SpuriousInterrupt, DiskStep, DiskFills, DiskWants, DiskWrites, DiskFails,
     DiskFailed, driverVars, vars
<1>3. OneHolder' /\ Checked'
  BY <1>1, <1>2, ThreadsStay
<1>4. spurious' \in 0 .. MaxSpurious /\ completion_wait' \in Nat /\ irq' \subseteq Disk
  <2>1. spurious \in 0 .. MaxSpurious /\ completion_wait \in Nat /\ irq \subseteq Disk
        /\ MaxSpurious \in Nat
    BY <1>1, IdeAssumption DEF TypeOK
  <2>2. CASE InterruptHandler \/ SpuriousInterrupt
    BY <2>1, <2>2 DEF InterruptHandler, SpuriousInterrupt, Handle
  <2>3. CASE \E d \in Disk : DiskStep(d)
    BY <2>1, <2>3 DEF DiskStep, DiskFills, DiskWants, DiskWrites, DiskFails, driverVars
  <2>4. CASE UNCHANGED <<spurious, completion_wait, irq>>
    BY <2>1, <2>4
  <2> QED
    BY <2>2, <2>3, <2>4 DEF DiskFailed, driverVars, diskVars, vars
<1>5. /\ state' \in [Disk -> Busy \cup Drq \cup {"idle"}]
      /\ latched' \in [Disk -> 0 .. DiskSize - 1] /\ data' \in [Disk -> Data]
      /\ medium' \in [Disk -> [0 .. DiskSize - 1 -> Data]]
  <2>1. /\ Blank \in Data /\ 0 \in 0 .. DiskSize - 1
        /\ state \in [Disk -> Busy \cup Drq \cup {"idle"}]
        /\ latched \in [Disk -> 0 .. DiskSize - 1] /\ data \in [Disk -> Data]
        /\ medium \in [Disk -> [0 .. DiskSize - 1 -> Data]]
    BY <1>1, IdeAssumption DEF TypeOK
  <2>2. CASE UNCHANGED <<state, latched, data, medium>>
    BY <2>1, <2>2
  <2>3. ASSUME NEW d \in Disk, DiskFills(d) \/ DiskWants(d) \/ DiskFails(d)
        PROVE  /\ state' \in [Disk -> Busy \cup Drq \cup {"idle"}] /\ medium' = medium
               /\ latched' \in [Disk -> 0 .. DiskSize - 1] /\ data' \in [Disk -> Data]
    <3>1. CASE DiskFills(d)
      BY <2>1, <3>1 DEF DiskFills, Drq
    <3>2. CASE DiskWants(d)
      BY <2>1, <3>2 DEF DiskWants, Drq
    <3>3. CASE DiskFails(d)
      BY <2>1, <3>3 DEF DiskFails
    <3> QED
      BY <2>3, <3>1, <3>2, <3>3
  <2>4. ASSUME NEW d \in Disk, DiskWrites(d)
        PROVE  /\ state' \in [Disk -> Busy \cup Drq \cup {"idle"}]
               /\ latched' \in [Disk -> 0 .. DiskSize - 1] /\ data' \in [Disk -> Data]
               /\ medium' \in [Disk -> [0 .. DiskSize - 1 -> Data]]
    BY <2>1, <2>4 DEF DiskWrites
  <2> QED
    BY <2>1, <2>2, <2>3, <2>4
       DEF InterruptHandler, SpuriousInterrupt, DiskStep, DiskFailed, diskVars, vars
<1>6. panic' \in BOOLEAN
  BY <1>1, <1>2 DEF TypeOK
<1>7. TypeOK'
  BY <1>1, <1>2, <1>4, <1>5, <1>6 DEF TypeOK, threadVars
<1> QED
  BY <1>3, <1>7 DEF Safe

LEMMA NextSafe == Safe /\ [Next]_vars => Safe'
<1> SUFFICES ASSUME Safe, [Next]_vars PROVE Safe'
  OBVIOUS
<1>1. ASSUME NEW t \in Thread, BlockCall(t) \/ Driver(t)
      PROVE  Safe'
  BY <1>1, BlockCallSafe, LockSafe, HolderSafe, DisksSafe DEF Driver
<1> QED
  BY <1>1, DisksSafe DEF Next

-----------------------------------------------------------------------------
(* What the disks do, until a wait for them times out *)

Calm == Safe /\ Served

LEMMA ServedNext ==
  ASSUME NEW t \in Thread, holder' = t,
         (state[selected] \in Doing(t))',
         pc'[t] # "idle" => selected' = DiskOf(t)',
         pc'[t] \in {"expect", "command"} => lba' = SectorOf(t)',
         pc'[t] \in {"down", "busy", "release"} /\ state'[selected'] \in Underway =>
            latched'[selected'] = SectorOf(t)',
         req'[t].op = "write" /\ pc'[t] \in {"down", "release"} =>
            OnDisk(selected, SectorOf(t))' = req'[t].data
  PROVE  HolderServed'
BY IdeAssumption DEF HolderServed

\* UnitsOwed as it is used: what is owed grows by no more than a step adds to it.
LEMMA UnitsNext ==
  ASSUME TypeOK, TypeOK', UnitsOwed,
         NEW i \in {0, 1}, i = One(selected' \in irq'),
         NEW f \in {0, 1}, f = One(state'[selected'] \in Underway),
         NEW o \in {0, 1}, o = One(Owed'),
         NEW i0 \in {0, 1}, i0 = One(selected \in irq),
         NEW f0 \in {0, 1}, f0 = One(state[selected] \in Underway),
         NEW o0 \in {0, 1}, o0 = One(Owed),
         completion_wait' + i + f - spurious' - o <= completion_wait + i0 + f0 - spurious - o0
  PROVE  UnitsOwed'
<1>1. /\ completion_wait \in Int /\ spurious \in Int /\ completion_wait' \in Int
      /\ spurious' \in Int
  BY DEF TypeOK
<1>2. completion_wait + i0 + f0 <= spurious + o0
  BY DEF UnitsOwed
<1>3. completion_wait' + i + f <= spurious' + o
  BY <1>1, <1>2
<1> QED
  BY <1>3 DEF UnitsOwed, One

-----------------------------------------------------------------------------
(* One lemma per action *)

LEMMA InitCalm == Init => Calm
<1> SUFFICES ASSUME Init PROVE Calm
  OBVIOUS
<1>1. OneDisk /\ HolderServed
  BY IdeAssumption DEF Init, OneDisk, HolderServed
<1>2. UnitsOwed
  BY IdeAssumption DEF Init, UnitsOwed, Underway, One
<1> QED
  BY <1>1, <1>2, InitSafe DEF Calm, Served

LEMMA BlockCallCalm ==
  ASSUME Calm, NEW t \in Thread, BlockCall(t)
  PROVE  Calm'
<1> PICK r \in Request :
      /\ r.op = "read" => r.data = Blank
      /\ req' = [req EXCEPT ![t] = r]
      /\ IF CheckSector(r) THEN Goto(t, "lock") /\ UNCHANGED panic
         ELSE panic' = TRUE /\ UNCHANGED pc
  BY DEF BlockCall
<1>1. TypeOK /\ OneHolder /\ Checked /\ OneDisk /\ HolderServed /\ UnitsOwed
  BY DEF Calm, Safe, Served
<1>2. pc[t] = "run" /\ UNCHANGED <<holder, driverVars, selected, lba, diskVars, spurious,
                                   timed_out>>
  BY DEF BlockCall
<1>3. /\ req' \in [Thread -> Request] /\ req'[t] = r
      /\ \A u \in Thread : u # t => req'[u] = req[u] /\ pc'[u] = pc[u]
      /\ pc' \in [Thread -> Location] /\ pc'[t] \in {"run", "lock"} /\ panic' \in BOOLEAN
      /\ pc'[t] # "run" => CheckSector(r)
  BY <1>1, <1>2 DEF TypeOK, Goto, Location
<1>4. holder # t
  BY <1>1, <1>2 DEF OneHolder
<1>5. TypeOK'
  BY BlockCallSafe DEF Calm, Safe
<1>6. OneHolder' /\ Checked'
  BY <1>1, <1>2, <1>3 DEF OneHolder, Checked, CheckSector
<1>7. OneDisk'
  BY <1>1, <1>2 DEF OneDisk, diskVars
<1>8. HolderServed'
  <2>1. CASE holder = NoThread
    BY <1>1, <1>2, <2>1, IdeAssumption DEF HolderServed, diskVars
  <2>2. CASE holder \in Thread
    <3> DEFINE u == holder
    <3>1. /\ u \in Thread /\ holder' = u /\ req'[u] = req[u] /\ pc'[u] = pc[u]
          /\ UNCHANGED <<selected, lba, state, latched, data, medium>>
      BY <1>2, <1>3, <1>4, <2>2 DEF diskVars
    <3>2. /\ DiskOf(u)' = DiskOf(u) /\ SectorOf(u)' = SectorOf(u) /\ Doing(u)' = Doing(u)
          /\ OnDisk(selected, SectorOf(u))' = OnDisk(selected, SectorOf(u))
      BY <3>1 DEF DiskOf, SectorOf, Doing, OnDisk
    <3> HIDE DEF u
    <3> QED
      BY <1>1, <1>2, <3>1, <3>2, ServedNext DEF HolderServed, u
  <2> QED
    BY <1>1, <2>1, <2>2 DEF TypeOK
<1>9. Owed' <=> Owed
  BY <1>2, <1>3 DEF Owed
<1>10. UnitsOwed'
  BY <1>1, <1>2, <1>9 DEF UnitsOwed, driverVars, diskVars, One
<1> QED
  BY <1>5, <1>6, <1>7, <1>8, <1>10 DEF Calm, Safe, Served

LEMMA LockAcquireCalm ==
  ASSUME Calm, NEW t \in Thread, LockAcquire(t)
  PROVE  Calm'
<1>1. TypeOK /\ OneHolder /\ Checked /\ OneDisk /\ HolderServed /\ UnitsOwed
  BY DEF Calm, Safe, Served
<1>2. /\ pc[t] = "lock" /\ holder = NoThread /\ holder' = t
      /\ UNCHANGED <<req, driverVars, selected, lba, diskVars, spurious, timed_out, panic>>
  BY DEF LockAcquire
<1>3. /\ pc' \in [Thread -> Location] /\ pc'[t] = "idle"
      /\ \A u \in Thread : u # t => pc'[u] = pc[u]
  BY <1>1 DEF LockAcquire, Goto, TypeOK, Location
<1>4. TypeOK'
  BY LockSafe DEF Calm, Safe
<1>5. OneHolder' /\ Checked'
  BY <1>1, <1>2, <1>3, IdeAssumption DEF OneHolder, Checked, CheckSector
<1>6. OneDisk'
  BY <1>1, <1>2 DEF OneDisk, diskVars
<1>7. HolderServed'
  BY <1>1, <1>2, <1>3, IdeAssumption DEF HolderServed, Doing, diskVars
<1>8. ~Owed /\ ~Owed'
  BY <1>1, <1>2, <1>3, IdeAssumption DEF OneHolder, Owed
<1>9. UnitsOwed'
  BY <1>1, <1>2, <1>8 DEF UnitsOwed, driverVars, diskVars, One
<1> QED
  BY <1>4, <1>5, <1>6, <1>7, <1>9 DEF Calm, Safe, Served

LEMMA LockReleaseCalm ==
  ASSUME Calm, NEW t \in Thread, LockRelease(t)
  PROVE  Calm'
<1>1. TypeOK /\ OneHolder /\ Checked /\ OneDisk /\ HolderServed /\ UnitsOwed
  BY DEF Calm, Safe, Served
<1>2. /\ pc[t] = "release" /\ holder' = NoThread
      /\ UNCHANGED <<driverVars, selected, lba, diskVars, spurious, timed_out, panic>>
  BY DEF LockRelease
<1>3. /\ pc' \in [Thread -> Location] /\ pc'[t] = "run" /\ req' \in [Thread -> Request]
      /\ \A u \in Thread : u # t => pc'[u] = pc[u] /\ req'[u] = req[u]
  BY <1>1, NoRequestFacts DEF LockRelease, Goto, TypeOK, Location
<1>4. holder = t /\ state[selected] \in Doing(t) /\ req[t].op \in {"read", "write"} /\ ~Owed
  BY <1>1, <1>2, HolderAt DEF Inside, Location, Served, Owes
<1>5. TypeOK'
  BY LockSafe DEF Calm, Safe
<1>6. OneHolder' /\ Checked'
  BY <1>1, <1>2, <1>3, <1>4, IdeAssumption DEF OneHolder, Checked, CheckSector
<1>7. OneDisk'
  BY <1>1, <1>2 DEF OneDisk, diskVars
<1>8. state[selected] \in {"idle", "writing"}
  BY <1>2, <1>4 DEF Doing
<1>9. HolderServed'
  BY <1>2, <1>8, IdeAssumption DEF HolderServed, diskVars
<1>10. ~Owed'
  BY <1>6, <1>2, IdeAssumption DEF OneHolder, Owed
<1>11. UnitsOwed'
  BY <1>1, <1>2, <1>4, <1>10 DEF UnitsOwed, driverVars, diskVars, One
<1> QED
  BY <1>5, <1>6, <1>7, <1>9, <1>11 DEF Calm, Safe, Served

LEMMA SelectDeviceCalm ==
  ASSUME Calm, NEW t \in Thread, SelectDevice(t), state[selected] = "idle"
  PROVE  Calm'
<1>1. TypeOK /\ OneHolder /\ Checked /\ OneDisk /\ HolderServed /\ UnitsOwed
  BY DEF Calm, Safe, Served
<1>2. /\ pc[t] = "idle" /\ state[selected] = "idle" /\ irq' = irq \ {selected}
      /\ selected' = DiskOf(t) /\ Goto(t, "ready")
      /\ UNCHANGED <<req, holder, driverVars, lba, state, latched, data, medium, spurious, panic>>
  BY DEF SelectDevice, Idle
<1>3. holder = t /\ CheckSector(req[t]) /\ DiskOf(t) \in Disk
  BY <1>1, <1>2, HolderAt DEF Inside, Location, Served
<1>4. /\ OneHolder' /\ Checked' /\ pc' \in [Thread -> Location] /\ pc'[t] = "ready"
      /\ DiskOf(t)' = DiskOf(t) /\ (Owed <=> Owes(t)) /\ (Owed' <=> Owes(t)')
  <2>1. "ready" \in Inside /\ req' \in [Thread -> Request] /\ req' = req /\ UNCHANGED holder
    BY <1>1, <1>2 DEF Inside, Location, TypeOK
  <2> QED
    BY <1>1, <1>2, <1>3, <2>1, HolderMoves
<1>5. TypeOK'
  BY HolderSafe DEF Calm, Safe
<1>6. /\ \A d \in Disk : state[d] = "idle"
      /\ irq' = {}
  BY <1>1, <1>2 DEF OneDisk
<1>7. OneDisk'
  BY <1>2, <1>6 DEF OneDisk
<1>8. HolderServed'
  BY <1>2, <1>3, <1>4, <1>6, ServedNext DEF Doing
<1>9. UnitsOwed'
  BY <1>1, <1>2, <1>3, <1>4, <1>6 DEF UnitsOwed, driverVars, Owes, One, Underway, TypeOK
<1> QED
  BY <1>4, <1>5, <1>7, <1>8, <1>9 DEF Calm, Safe, Served

LEMMA SelectSectorCalm ==
  ASSUME Calm, NEW t \in Thread, SelectSector(t), state[selected] = "idle"
  PROVE  Calm'
<1>1. TypeOK /\ OneHolder /\ Checked /\ OneDisk /\ HolderServed /\ UnitsOwed
  BY DEF Calm, Safe, Served
<1>2. /\ pc[t] = "ready" /\ state[selected] = "idle" /\ irq' = irq \ {selected}
      /\ selected' = DiskOf(t) /\ lba' = SectorOf(t) /\ Goto(t, "expect")
      /\ UNCHANGED <<req, holder, driverVars, state, latched, data, medium, spurious, panic>>
  BY DEF SelectSector, Idle
<1>3. holder = t /\ DiskOf(t) \in Disk /\ SectorOf(t) \in 0 .. DiskSize - 1
  BY <1>1, <1>2, HolderAt DEF Inside, Location, Served
<1>4. /\ OneHolder' /\ Checked' /\ pc' \in [Thread -> Location] /\ pc'[t] = "expect"
      /\ DiskOf(t)' = DiskOf(t) /\ SectorOf(t)' = SectorOf(t)
      /\ (Owed <=> Owes(t)) /\ (Owed' <=> Owes(t)')
  <2>1. "expect" \in Inside /\ req' \in [Thread -> Request] /\ req' = req /\ UNCHANGED holder
    BY <1>1, <1>2 DEF Inside, Location, TypeOK
  <2> QED
    BY <1>1, <1>2, <1>3, <2>1, HolderMoves
<1>5. TypeOK'
  BY HolderSafe DEF Calm, Safe
<1>6. selected = DiskOf(t) /\ irq' = {}
  BY <1>1, <1>2, <1>3 DEF OneDisk, HolderServed
<1>7. OneDisk'
  BY <1>1, <1>2, <1>6 DEF OneDisk
<1>8. HolderServed'
  BY <1>2, <1>3, <1>4, <1>6, ServedNext DEF Doing
<1>9. UnitsOwed'
  BY <1>1, <1>2, <1>3, <1>4, <1>6 DEF UnitsOwed, driverVars, Owes, One, Underway, TypeOK
<1> QED
  BY <1>4, <1>5, <1>7, <1>8, <1>9 DEF Calm, Safe, Served

LEMMA ExpectInterruptCalm ==
  ASSUME Calm, NEW t \in Thread, ExpectInterrupt(t)
  PROVE  Calm'
<1>1. TypeOK /\ OneHolder /\ Checked /\ OneDisk /\ HolderServed /\ UnitsOwed
  BY DEF Calm, Safe, Served
<1>2. /\ pc[t] = "expect" /\ expecting_interrupt' = TRUE /\ Goto(t, "command")
      /\ UNCHANGED <<req, holder, completion_wait, selected, lba, diskVars, spurious, timed_out,
                     panic>>
  BY DEF ExpectInterrupt
<1>3. holder = t /\ state[selected] \in Doing(t)
  BY <1>1, <1>2, HolderAt DEF Inside, Location, Served
<1>4. /\ OneHolder' /\ Checked' /\ pc' \in [Thread -> Location] /\ pc'[t] = "command"
      /\ DiskOf(t)' = DiskOf(t) /\ SectorOf(t)' = SectorOf(t)
      /\ (Owed <=> Owes(t)) /\ (Owed' <=> Owes(t)')
  <2>1. "command" \in Inside /\ req' \in [Thread -> Request] /\ req' = req /\ UNCHANGED holder
    BY <1>1, <1>2 DEF Inside, Location, TypeOK
  <2> QED
    BY <1>1, <1>2, <1>3, <2>1, HolderMoves
<1>5. TypeOK'
  BY HolderSafe DEF Calm, Safe
<1>6. selected = DiskOf(t) /\ lba = SectorOf(t) /\ state[selected] = "idle"
  BY <1>1, <1>2, <1>3 DEF HolderServed, Doing
<1>7. OneDisk'
  BY <1>1, <1>2 DEF OneDisk, diskVars
<1>8. HolderServed'
  BY <1>2, <1>3, <1>4, <1>6, ServedNext DEF Doing, diskVars
<1>9. Owed' <=> Owed
  BY <1>2, <1>4 DEF Owes
<1>10. UnitsOwed'
  BY <1>1, <1>2, <1>9 DEF UnitsOwed, diskVars, One
<1> QED
  BY <1>4, <1>5, <1>7, <1>8, <1>10 DEF Calm, Safe, Served

LEMMA IssuePioCommandCalm ==
  ASSUME Calm, NEW t \in Thread, IssuePioCommand(t)
  PROVE  Calm'
<1> DEFINE reading == req[t].op = "read"
           l       == IF reading THEN "down" ELSE "busy"
           s       == IF reading THEN "reading" ELSE "accepting"
<1>1. TypeOK /\ OneHolder /\ Checked /\ OneDisk /\ HolderServed /\ UnitsOwed
  BY DEF Calm, Safe, Served
<1>2. /\ pc[t] = "command" /\ holder = t /\ state[selected] = "idle"
      /\ req[t].op \in {"read", "write"}
  BY <1>1, HolderAt DEF IssuePioCommand, Inside, Location, Served, Doing
<1>3. /\ pc[t] = "command" /\ state' = [state EXCEPT ![selected] = s]
      /\ latched' = [latched EXCEPT ![selected] = lba] /\ Goto(t, l)
      /\ UNCHANGED <<req, holder, driverVars, selected, lba, data, irq, medium, spurious,
                     timed_out, panic>>
  BY <1>2 DEF IssuePioCommand
<1>4. /\ OneHolder' /\ Checked' /\ pc' \in [Thread -> Location] /\ pc'[t] = l
      /\ DiskOf(t)' = DiskOf(t) /\ SectorOf(t)' = SectorOf(t)
      /\ (Owed <=> Owes(t)) /\ (Owed' <=> Owes(t)')
  <2>1. l \in Inside /\ req' \in [Thread -> Request] /\ req' = req /\ UNCHANGED holder
    BY <1>1, <1>3 DEF Inside, Location, TypeOK
  <2> HIDE DEF l, s
  <2> QED
    BY <1>1, <1>3, <1>2, <2>1, HolderMoves
<1>5. state' \in [Disk -> Busy \cup Drq \cup {"idle"}] /\ state'[selected] = s
  BY <1>1, <1>3 DEF TypeOK, Busy, Drq
<1>6. latched' \in [Disk -> 0 .. DiskSize - 1] /\ latched'[selected] = lba
  BY <1>1, <1>3 DEF TypeOK
<1>7. TypeOK'
  BY HolderSafe DEF Calm, Safe
<1>8. selected = DiskOf(t) /\ lba = SectorOf(t) /\ state[selected] = "idle"
  BY <1>1, <1>3, <1>2 DEF HolderServed, Doing
<1>9. OneDisk'
  BY <1>1, <1>3 DEF OneDisk, TypeOK
<1>10. HolderServed'
  BY <1>3, <1>2, <1>4, <1>5, <1>6, <1>8, ServedNext DEF Doing
<1>11. ~Owed /\ Owed'
  BY <1>3, <1>2, <1>4 DEF Owes
<1>12. UnitsOwed'
  BY <1>1, <1>3, <1>5, <1>8, <1>11 DEF UnitsOwed, driverVars, One, Underway, TypeOK
<1> QED
  BY <1>4, <1>7, <1>9, <1>10, <1>12 DEF Calm, Safe, Served

LEMMA SemaDownCalm ==
  ASSUME Calm, NEW t \in Thread, SemaDown(t)
  PROVE  Calm'
<1> DEFINE l == IF req[t].op = "read" THEN "busy" ELSE "release"
<1>1. TypeOK /\ OneHolder /\ Checked /\ OneDisk /\ HolderServed /\ UnitsOwed
  BY DEF Calm, Safe, Served
<1>2. /\ pc[t] = "down" /\ completion_wait > 0 /\ completion_wait' = completion_wait - 1
      /\ Goto(t, l)
      /\ UNCHANGED <<req, holder, expecting_interrupt, selected, lba, diskVars, spurious,
                     timed_out, panic>>
  BY DEF SemaDown
<1>3. holder = t /\ state[selected] \in Doing(t) /\ req[t].op \in {"read", "write"}
  BY <1>1, <1>2, HolderAt DEF Inside, Location, Served
<1>4. /\ OneHolder' /\ Checked' /\ pc' \in [Thread -> Location] /\ pc'[t] = l
      /\ DiskOf(t)' = DiskOf(t) /\ SectorOf(t)' = SectorOf(t)
      /\ (Owed <=> Owes(t)) /\ (Owed' <=> Owes(t)')
  <2>1. l \in Inside /\ req' \in [Thread -> Request] /\ req' = req /\ UNCHANGED holder
    BY <1>1, <1>2 DEF Inside, Location, TypeOK
  <2> HIDE DEF l
  <2> QED
    BY <1>1, <1>2, <1>3, <2>1, HolderMoves
<1>5. TypeOK'
  BY HolderSafe DEF Calm, Safe
<1>6. OneDisk'
  BY <1>1, <1>2 DEF OneDisk, diskVars
<1>7. HolderServed'
  <2>1. OnDisk(selected, SectorOf(t))' = OnDisk(selected, SectorOf(t))
    BY <1>2, <1>4 DEF OnDisk, diskVars
  <2> QED
    BY <1>1, <1>2, <1>3, <1>4, <2>1, ServedNext DEF HolderServed, Doing, diskVars
<1>8. Owed /\ ~Owed'
  BY <1>2, <1>3, <1>4 DEF Owes
<1>9. UnitsOwed'
  BY <1>1, <1>2, <1>8 DEF UnitsOwed, diskVars, One, TypeOK
<1> QED
  BY <1>4, <1>5, <1>6, <1>7, <1>9 DEF Calm, Safe, Served

LEMMA InputSectorCalm ==
  ASSUME Calm, NEW t \in Thread, InputSector(t)
  PROVE  Calm'
<1>1. TypeOK /\ OneHolder /\ Checked /\ OneDisk /\ HolderServed /\ UnitsOwed
  BY DEF Calm, Safe, Served
<1>2. /\ pc[t] = "busy" /\ state[selected] \in Drq /\ req[t].op = "read"
      /\ req' = [req EXCEPT ![t].data = data[selected]]
      /\ state' = [state EXCEPT ![selected] = "idle"] /\ Goto(t, "release")
      /\ data' = [data EXCEPT ![selected] = Blank]
      /\ UNCHANGED <<holder, driverVars, selected, lba, latched, irq, medium, spurious,
                     timed_out, panic>>
  BY DEF InputSector, NotBusy
<1>3. holder = t /\ state[selected] \in Doing(t)
  BY <1>1, <1>2, HolderAt DEF Inside, Location, Served
<1>4. /\ req' \in [Thread -> Request] /\ \A u \in Thread : u # t => req'[u] = req[u]
      /\ req'[t].block = req[t].block /\ req'[t].sector = req[t].sector
      /\ req'[t].op = req[t].op
  <2>1. data[selected] \in Data /\ req[t] \in Request
    BY <1>1 DEF TypeOK
  <2>2. [req[t] EXCEPT !.data = data[selected]] \in Request
    BY <2>1, RequestFacts
  <2>3. req'[t] = [req[t] EXCEPT !.data = data[selected]]
    BY <1>1, <1>2 DEF TypeOK
  <2> QED
    BY <1>1, <1>2, <2>1, <2>2, <2>3, RequestFacts DEF TypeOK
<1>5. /\ OneHolder' /\ Checked' /\ pc' \in [Thread -> Location] /\ pc'[t] = "release"
      /\ DiskOf(t)' = DiskOf(t) /\ SectorOf(t)' = SectorOf(t)
      /\ (Owed <=> Owes(t)) /\ (Owed' <=> Owes(t)')
  <2>1. "release" \in Inside /\ UNCHANGED holder
    BY <1>2 DEF Inside, Location
  <2> QED
    BY <1>1, <1>2, <1>3, <1>4, <2>1, HolderMoves
<1>6. /\ state' \in [Disk -> Busy \cup Drq \cup {"idle"}] /\ state'[selected] = "idle"
      /\ data' \in [Disk -> Data]
  BY <1>1, <1>2, IdeAssumption DEF TypeOK
<1>7. TypeOK'
  BY HolderSafe DEF Calm, Safe
<1>8. OneDisk'
  BY <1>1, <1>2 DEF OneDisk, TypeOK
<1>9. HolderServed'
  <2>1. selected = DiskOf(t)
    BY <1>1, <1>2, <1>3 DEF HolderServed
  <2> QED
    BY <1>2, <1>3, <1>4, <1>5, <1>6, <2>1, ServedNext DEF Doing, Underway
<1>10. ~Owed /\ ~Owed' /\ state[selected] \notin Underway
  BY <1>2, <1>3, <1>4, <1>5 DEF Owes, Doing, Drq, Underway
<1>11. UnitsOwed'
  BY <1>1, <1>2, <1>6, <1>10 DEF UnitsOwed, driverVars, One, Underway, TypeOK
<1> QED
  BY <1>5, <1>7, <1>8, <1>9, <1>11 DEF Calm, Safe, Served

LEMMA OutputSectorCalm ==
  ASSUME Calm, NEW t \in Thread, OutputSector(t)
  PROVE  Calm'
<1>1. TypeOK /\ OneHolder /\ Checked /\ OneDisk /\ HolderServed /\ UnitsOwed
  BY DEF Calm, Safe, Served
<1>2. /\ pc[t] = "busy" /\ state[selected] \in Drq /\ req[t].op = "write"
      /\ data' = [data EXCEPT ![selected] = req[t].data]
      /\ state' = [state EXCEPT ![selected] = "writing"] /\ Goto(t, "down")
      /\ UNCHANGED <<req, holder, driverVars, selected, lba, latched, irq, medium, spurious,
                     timed_out, panic>>
  BY DEF OutputSector, NotBusy
<1>3. holder = t /\ state[selected] \in Doing(t) /\ req[t].data \in Data
  BY <1>1, <1>2, HolderAt DEF Inside, Location, Served
<1>4. /\ OneHolder' /\ Checked' /\ pc' \in [Thread -> Location] /\ pc'[t] = "down"
      /\ DiskOf(t)' = DiskOf(t) /\ SectorOf(t)' = SectorOf(t)
      /\ (Owed <=> Owes(t)) /\ (Owed' <=> Owes(t)')
  <2>1. "down" \in Inside /\ req' \in [Thread -> Request] /\ req' = req /\ UNCHANGED holder
    BY <1>1, <1>2 DEF Inside, Location, TypeOK
  <2> QED
    BY <1>1, <1>2, <1>3, <2>1, HolderMoves
<1>5. /\ state' \in [Disk -> Busy \cup Drq \cup {"idle"}] /\ state'[selected] = "writing"
      /\ data' \in [Disk -> Data] /\ data'[selected] = req[t].data
  BY <1>1, <1>2, <1>3 DEF TypeOK, Busy
<1>6. TypeOK'
  BY HolderSafe DEF Calm, Safe
<1>7. OneDisk'
  BY <1>1, <1>2 DEF OneDisk, TypeOK
<1>8. state[selected] = "want" /\ selected = DiskOf(t) /\ latched[selected] = SectorOf(t)
  BY <1>1, <1>2, <1>3 DEF HolderServed, Doing, Drq, Underway
<1>9. HolderServed'
  <2>1. OnDisk(selected, SectorOf(t))' = req[t].data
    BY <1>2, <1>4, <1>5, <1>8 DEF OnDisk
  <2> QED
    BY <1>2, <1>3, <1>4, <1>5, <1>8, <2>1, ServedNext DEF Doing
<1>10. Owed /\ Owed'
  BY <1>2, <1>3, <1>4 DEF Owes
<1>11. UnitsOwed'
  BY <1>1, <1>2, <1>5, <1>8, <1>10 DEF UnitsOwed, driverVars, One, Underway, TypeOK
<1> QED
  BY <1>4, <1>6, <1>7, <1>9, <1>11 DEF Calm, Safe, Served

LEMMA DiskFailedCalm ==
  ASSUME Calm, NEW t \in Thread, DiskFailed(t)
  PROVE  Calm'
<1>1. UNCHANGED <<threadVars, driverVars, selected, lba, diskVars, spurious,
                  timed_out>> /\ panic' = TRUE
  BY DEF DiskFailed
<1> QED
  BY ZenonT(60), <1>1
     DEF Calm, Safe, Served, TypeOK, OneHolder, Checked, CheckSector, OneDisk, HolderServed, Doing, DiskOf,
     SectorOf, OnDisk, UnitsOwed, Owed, One, threadVars, driverVars, diskVars

\* interrupt_handler(): a unit for an interrupt.
LEMMA HandleCalm ==
  ASSUME Calm, Safe', Handle, spurious' \in spurious .. MaxSpurious,
         selected \notin irq => spurious' = spurious + 1,
         UNCHANGED <<threadVars, expecting_interrupt, selected, lba, state, latched, data, medium,
                     timed_out, panic>>
  PROVE  Calm'
<1>1. TypeOK /\ OneHolder /\ Checked /\ OneDisk /\ HolderServed /\ UnitsOwed
  BY DEF Calm, Safe, Served
<1>2. irq' \subseteq irq /\ completion_wait' \in {completion_wait, completion_wait + 1}
      /\ (completion_wait' # completion_wait => irq' = irq \ {selected})
  BY <1>1 DEF Handle, TypeOK
<1>3. OneHolder' /\ Checked' /\ (Owed' <=> Owed)
  BY <1>1, ThreadsStay
<1>4. /\ completion_wait \in Nat /\ spurious \in Nat /\ spurious' \in Nat /\ MaxSpurious \in Nat
  BY <1>1, <1>2, IdeAssumption DEF TypeOK, UnitsOwed, One
<1>6. TypeOK'
  BY DEF Safe
<1>7. OneDisk'
  BY <1>1, <1>2 DEF OneDisk
<1>8. HolderServed'
  BY ZenonT(60), <1>1 DEF HolderServed, Doing, DiskOf, SectorOf, OnDisk, threadVars
<1>9. UnitsOwed'
  <2> DEFINE f == One(state[selected] \in Underway)
             o == One(Owed)
             i == One(selected \in irq)
             j == One(selected \in irq')
  <2>1. f \in {0, 1} /\ o \in {0, 1}
    BY DEF One
  <2>2. completion_wait + i + f <= spurious + o
    BY <1>1 DEF UnitsOwed
  <2>3. UnitsOwed' <=> completion_wait' + j + f <= spurious' + o
    BY <1>3 DEF UnitsOwed, One
  <2>4. \/ completion_wait' = completion_wait /\ i \in {0, 1} /\ j \in {0, 1} /\ j <= i
        \/ completion_wait' = completion_wait + 1 /\ i = 1 /\ j = 0
        \/ completion_wait' = completion_wait + 1 /\ i = 0 /\ j = 0 /\ spurious' = spurious + 1
    BY <1>2, <1>4 DEF One
  <2> HIDE DEF f, o, i, j
  <2>5. spurious <= spurious'
    BY <1>4
  <2>6. completion_wait' + j + f <= spurious' + o
    BY <1>4, <2>1, <2>2, <2>4, <2>5
  <2> QED
    BY <2>3, <2>6
<1> QED
  BY <1>3, <1>6, <1>7, <1>8, <1>9 DEF Calm, Safe, Served

LEMMA InterruptCalm ==
  ASSUME Calm, InterruptHandler \/ SpuriousInterrupt
  PROVE  Calm'
<1>1. spurious \in 0 .. MaxSpurious /\ MaxSpurious \in Nat
  BY IdeAssumption DEF Calm, Safe, TypeOK
<1>2. CASE InterruptHandler
  BY <1>1, <1>2, HandleCalm, DisksSafe DEF InterruptHandler, Calm
<1>3. CASE SpuriousInterrupt
  BY <1>1, <1>3, HandleCalm, DisksSafe DEF SpuriousInterrupt, Calm
<1> QED
  BY <1>2, <1>3

\* The disk that does something is the selected one; when it has a command and
\* is not writing, its command is that of the thread inside the driver.
LEMMA DiskAt ==
  ASSUME Calm, NEW d \in Disk, state[d] # "idle"
  PROVE  /\ d = selected
         /\ state[d] # "writing" =>
              \E t \in Thread :
                /\ holder = t /\ pc[t] \in {"down", "busy"} /\ selected = DiskOf(t)
                /\ state[d] \in {"reading", "filled"} => req[t].op = "read"
                /\ state[d] \in {"accepting", "want"} => req[t].op = "write" /\ pc[t] = "busy"
                /\ state[d] \in Underway => latched[d] = SectorOf(t)
<1>1. d = selected
  BY DEF Calm, Safe, Served, OneDisk
<1>2. ASSUME state[d] # "writing"
      PROVE  \E t \in Thread : holder = t
  BY <1>1, <1>2 DEF Calm, Safe, Served, HolderServed, TypeOK
<1>3. ASSUME NEW t \in Thread, holder = t, state[d] # "writing"
      PROVE  /\ pc[t] \in {"down", "busy"} /\ selected = DiskOf(t)
             /\ state[d] \in {"reading", "filled"} => req[t].op = "read"
             /\ state[d] \in {"accepting", "want"} => req[t].op = "write" /\ pc[t] = "busy"
             /\ state[d] \in Underway => latched[d] = SectorOf(t)
  <2>1. pc[t] \in Inside
    BY <1>3 DEF Calm, Safe, Served, OneHolder, Inside, TypeOK
  <2>2. state[d] \in Doing(t) /\ req[t].op \in {"read", "write"}
    BY <1>1, <2>1, HolderAt DEF Calm, Safe
  <2>3. pc[t] \in {"down", "busy"}
    BY <1>3, <2>1, <2>2 DEF Doing, Inside, Location
  <2> QED
    BY <1>1, <1>3, <2>2, <2>3 DEF Doing, Calm, Safe, Served, HolderServed
<1> QED
  BY <1>1, <1>2, <1>3

LEMMA DiskFillsCalm ==
  ASSUME Calm, NEW d \in Disk, DiskFills(d)
  PROVE  Calm'
<1>1. TypeOK /\ OneHolder /\ Checked /\ OneDisk /\ HolderServed /\ UnitsOwed
  BY DEF Calm, Safe, Served
<1>2. /\ state[d] = "reading" /\ state' = [state EXCEPT ![d] = "filled"]
      /\ irq' = irq \cup {d} /\ data' = [data EXCEPT ![d] = medium[d][latched[d]]]
      /\ latched' = [latched EXCEPT ![d] = 0]
      /\ UNCHANGED <<threadVars, driverVars, selected, lba, medium, spurious, timed_out, panic>>
  BY DEF DiskFills
<1>3. d = selected
  BY <1>2, DiskAt
<1>4. PICK t \in Thread : holder = t /\ pc[t] \in {"down", "busy"} /\ req[t].op = "read"
                          /\ selected = DiskOf(t)
  BY <1>2, DiskAt
<1>5. /\ OneHolder' /\ Checked' /\ (Owed' <=> Owed) /\ Doing(t)' = Doing(t)
      /\ DiskOf(t)' = DiskOf(t)
  BY <1>1, <1>2, ThreadsStay
<1>6. /\ state' \in [Disk -> Busy \cup Drq \cup {"idle"}] /\ state'[d] = "filled"
      /\ latched' \in [Disk -> 0 .. DiskSize - 1] /\ data' \in [Disk -> Data]
  BY <1>1, <1>2, IdeAssumption DEF TypeOK, Drq
<1>7. TypeOK'
  BY DisksSafe DEF DiskStep, Calm, Safe
<1>8. OneDisk'
  BY <1>1, <1>2, <1>3 DEF OneDisk, TypeOK
<1>9. HolderServed'
  <2>1. "filled" \in Doing(t)
    BY <1>4 DEF Doing
  <2> QED
    BY <1>2, <1>3, <1>4, <1>5, <1>6, <2>1, ServedNext DEF Underway, threadVars
<1>10. UnitsOwed'
  BY <1>1, <1>2, <1>3, <1>5, <1>6 DEF UnitsOwed, One, Underway, driverVars, TypeOK
<1> QED
  BY <1>5, <1>7, <1>8, <1>9, <1>10 DEF Calm, Safe, Served

LEMMA DiskWantsCalm ==
  ASSUME Calm, NEW d \in Disk, DiskWants(d)
  PROVE  Calm'
<1>1. TypeOK /\ OneHolder /\ Checked /\ OneDisk /\ HolderServed /\ UnitsOwed
  BY DEF Calm, Safe, Served
<1>2. /\ state[d] = "accepting" /\ state' = [state EXCEPT ![d] = "want"]
      /\ UNCHANGED <<threadVars, driverVars, selected, lba, latched, data, irq, medium,
                     spurious, timed_out,
                     panic>>
  BY DEF DiskWants
<1>3. d = selected
  BY <1>2, DiskAt
<1>4. PICK t \in Thread : holder = t /\ pc[t] = "busy" /\ req[t].op = "write"
                          /\ selected = DiskOf(t) /\ latched[d] = SectorOf(t)
  BY <1>2, DiskAt DEF Underway
<1>5. /\ OneHolder' /\ Checked' /\ (Owed' <=> Owed) /\ Doing(t)' = Doing(t)
      /\ DiskOf(t)' = DiskOf(t) /\ SectorOf(t)' = SectorOf(t)
  BY <1>1, <1>2, ThreadsStay
<1>6. state' \in [Disk -> Busy \cup Drq \cup {"idle"}] /\ state'[d] = "want"
  BY <1>1, <1>2 DEF TypeOK, Drq
<1>7. TypeOK'
  BY DisksSafe DEF DiskStep, Calm, Safe
<1>8. OneDisk'
  BY <1>1, <1>2, <1>3 DEF OneDisk, TypeOK
<1>9. HolderServed'
  <2>1. "want" \in Doing(t)
    BY <1>4 DEF Doing
  <2> QED
    BY <1>2, <1>3, <1>4, <1>5, <1>6, <2>1, ServedNext DEF threadVars
<1>10. UnitsOwed'
  BY <1>1, <1>2, <1>3, <1>5, <1>6 DEF UnitsOwed, One, Underway, driverVars
<1> QED
  BY <1>5, <1>7, <1>8, <1>9, <1>10 DEF Calm, Safe, Served

LEMMA DiskFailsCalm ==
  ASSUME Calm, NEW d \in Disk, DiskFails(d)
  PROVE  Calm'
<1>1. TypeOK /\ OneHolder /\ Checked /\ OneDisk /\ HolderServed /\ UnitsOwed
  BY DEF Calm, Safe, Served
<1>2. /\ state[d] \in {"reading", "accepting"} /\ state' = [state EXCEPT ![d] = "idle"]
      /\ irq' = irq \cup {d} /\ latched' = [latched EXCEPT ![d] = 0]
      /\ UNCHANGED <<threadVars, driverVars, selected, lba, data, medium, spurious, timed_out,
                     panic>>
  BY DEF DiskFails
<1>3. d = selected
  BY <1>2, DiskAt
<1>4. PICK t \in Thread : /\ holder = t /\ pc[t] \in {"down", "busy"} /\ selected = DiskOf(t)
                          /\ req[t].op = "read" \/ (req[t].op = "write" /\ pc[t] = "busy")
  BY <1>2, DiskAt
<1>5. /\ OneHolder' /\ Checked' /\ (Owed' <=> Owed) /\ Doing(t)' = Doing(t)
      /\ DiskOf(t)' = DiskOf(t)
  BY <1>1, <1>2, ThreadsStay
<1>6. /\ state' \in [Disk -> Busy \cup Drq \cup {"idle"}] /\ state'[d] = "idle"
      /\ latched' \in [Disk -> 0 .. DiskSize - 1]
  BY <1>1, <1>2, IdeAssumption DEF TypeOK
<1>7. TypeOK'
  BY DisksSafe DEF DiskStep, Calm, Safe
<1>8. OneDisk'
  BY <1>1, <1>2, <1>3 DEF OneDisk, TypeOK
<1>9. HolderServed'
  <2>1. "idle" \in Doing(t)
    BY <1>4 DEF Doing
  <2> QED
    BY <1>2, <1>3, <1>4, <1>5, <1>6, <2>1, ServedNext DEF Underway, threadVars
<1>10. UnitsOwed'
  BY <1>1, <1>2, <1>3, <1>5, <1>6 DEF UnitsOwed, One, Underway, driverVars, TypeOK
<1> QED
  BY <1>5, <1>7, <1>8, <1>9, <1>10 DEF Calm, Safe, Served

\* What the disk had accepted is what it has now: its sectors do not change.
LEMMA WrittenSame ==
  ASSUME TypeOK, NEW d \in Disk, DiskWrites(d), NEW e \in Disk, NEW s \in 0 .. DiskSize - 1
  PROVE  OnDisk(e, s)' = OnDisk(e, s)
BY DEF TypeOK, DiskWrites, OnDisk

LEMMA DiskWritesCalm ==
  ASSUME Calm, NEW d \in Disk, DiskWrites(d)
  PROVE  Calm'
<1>1. TypeOK /\ OneHolder /\ Checked /\ OneDisk /\ HolderServed /\ UnitsOwed
  BY DEF Calm, Safe, Served
<1>2. /\ state[d] = "writing" /\ state' = [state EXCEPT ![d] = "idle"]
      /\ irq' = irq \cup {d} /\ medium' = [medium EXCEPT ![d][latched[d]] = data[d]]
      /\ latched' = [latched EXCEPT ![d] = 0] /\ data' = [data EXCEPT ![d] = Blank]
      /\ UNCHANGED <<threadVars, driverVars, selected, lba, spurious, timed_out, panic>>
  BY DEF DiskWrites
<1>3. d = selected
  BY <1>2, DiskAt
<1>4. /\ OneHolder' /\ Checked' /\ (Owed' <=> Owed)
      /\ \A t \in Thread : /\ DiskOf(t)' = DiskOf(t) /\ SectorOf(t)' = SectorOf(t)
                           /\ Doing(t)' = Doing(t)
  BY <1>1, <1>2, ThreadsStay
<1>5. /\ state' \in [Disk -> Busy \cup Drq \cup {"idle"}] /\ state'[d] = "idle"
      /\ latched' \in [Disk -> 0 .. DiskSize - 1] /\ data' \in [Disk -> Data]
      /\ medium' \in [Disk -> [0 .. DiskSize - 1 -> Data]]
  BY <1>1, <1>2, IdeAssumption DEF TypeOK
<1>6. TypeOK'
  BY DisksSafe DEF DiskStep, Calm, Safe
<1>7. OneDisk'
  BY <1>1, <1>2, <1>3 DEF OneDisk, TypeOK
<1>8. HolderServed'
  <2>1. CASE holder = NoThread
    BY <1>2, <1>3, <1>5, <2>1, IdeAssumption DEF HolderServed, threadVars
  <2>2. ASSUME NEW t \in Thread, holder = t
        PROVE  HolderServed'
    <3>1. pc[t] \in Inside
      BY <1>1, <2>2 DEF OneHolder, Inside, TypeOK
    <3>2. /\ state[selected] \in Doing(t) /\ req[t].op \in {"read", "write"}
          /\ SectorOf(t) \in 0 .. DiskSize - 1
      BY <1>1, <3>1, HolderAt DEF Served
    <3>3. pc[t] = "idle" \/ (req[t].op = "write" /\ pc[t] \in {"down", "release"})
      BY <1>2, <1>3, <3>1, <3>2 DEF Doing, Inside, Location
    <3>4. "idle" \in Doing(t)
      BY <3>3 DEF Doing
    <3>5. OnDisk(selected, SectorOf(t))' = OnDisk(selected, SectorOf(t))
      <4>1. OnDisk(d, SectorOf(t))' = OnDisk(d, SectorOf(t))
        BY <1>1, <1>2, <1>4, <1>5, <3>2 DEF OnDisk, TypeOK
      <4> QED
        BY <1>2, <1>3, <4>1 DEF OnDisk
    <3> QED
      BY <1>1, <1>2, <1>3, <1>4, <1>5, <2>2, <3>3, <3>4, <3>5, ServedNext
         DEF HolderServed, Underway, threadVars
  <2> QED
    BY <1>1, <2>1, <2>2 DEF TypeOK
<1>9. UnitsOwed'
  BY <1>1, <1>2, <1>3, <1>4, <1>5 DEF UnitsOwed, One, Underway, driverVars, TypeOK
<1> QED
  BY <1>4, <1>6, <1>7, <1>8, <1>9 DEF Calm, Safe, Served

LEMMA NextCalm == Calm /\ [Next]_vars /\ ~timed_out' => Calm'
<1> SUFFICES ASSUME Calm, [Next]_vars, ~timed_out' PROVE Calm'
  OBVIOUS
<1>1. ASSUME NEW t \in Thread, SelectDevice(t) \/ SelectSector(t)
      PROVE  Calm'
  BY <1>1, SelectDeviceCalm, SelectSectorCalm DEF SelectDevice, SelectSector, Idle
<1>2. ASSUME NEW t \in Thread, BlockCall(t) \/ Driver(t)
      PROVE  Calm'
  BY <1>1, <1>2, BlockCallCalm, LockAcquireCalm, ExpectInterruptCalm, IssuePioCommandCalm,
     SemaDownCalm, InputSectorCalm, OutputSectorCalm, DiskFailedCalm, LockReleaseCalm DEF Driver
<1>3. ASSUME InterruptHandler \/ SpuriousInterrupt
      PROVE  Calm'
  BY <1>3, InterruptCalm
<1>4. ASSUME NEW d \in Disk, DiskStep(d)
      PROVE  Calm'
  BY <1>4, DiskFillsCalm, DiskWantsCalm, DiskWritesCalm, DiskFailsCalm DEF DiskStep
<1>5. CASE UNCHANGED vars
  BY ZenonT(60), <1>5
     DEF vars, Calm, Safe, Served, TypeOK, OneHolder, Checked, CheckSector, OneDisk, HolderServed,
     Doing, DiskOf, SectorOf, OnDisk, UnitsOwed, Owed, One, threadVars, driverVars, diskVars
<1> QED
  BY <1>2, <1>3, <1>4, <1>5 DEF Next

\* A time-out is not taken back.
LEMMA TimedOutStays == [Next]_vars => (timed_out => timed_out')
BY DEF Next, BlockCall, Driver, LockAcquire, SelectDevice, SelectSector, ExpectInterrupt,
   IssuePioCommand, SemaDown, InputSector, OutputSector, DiskFailed, LockRelease,
   InterruptHandler, SpuriousInterrupt, DiskStep, DiskFills, DiskWants, DiskWrites, DiskFails,
   Idle, vars

\* A wait times out on a disk that still writes although a unit of the semaphore
\* has said that it was done: a stray interrupt's.
LEMMA TimeOut ==
  ASSUME Safe, timed_out \/ Served, timed_out => spurious > 0, [Next]_vars, timed_out'
  PROVE  spurious' > 0
<1>1. TypeOK /\ OneHolder /\ Checked
  BY DEF Safe
<1>2. spurious \in Nat /\ MaxSpurious \in Nat
  BY <1>1, IdeAssumption DEF TypeOK
<1>3. spurious' = spurious \/ spurious' = spurious + 1
  BY DEF Next, BlockCall, Driver, LockAcquire, SelectDevice, SelectSector, ExpectInterrupt,
     IssuePioCommand, SemaDown, InputSector, OutputSector, DiskFailed, LockRelease,
     InterruptHandler, SpuriousInterrupt, DiskStep, DiskFills, DiskWants, DiskWrites, DiskFails,
     vars
<1>4. CASE timed_out
  BY <1>2, <1>3, <1>4
<1>5. CASE ~timed_out
  <2>1. PICK t \in Thread : /\ pc[t] \in {"idle", "ready"} /\ state[selected] # "idle"
    BY <1>5 DEF Next, BlockCall, Driver, LockAcquire, SelectDevice, SelectSector, ExpectInterrupt,
       IssuePioCommand, SemaDown, InputSector, OutputSector, DiskFailed, LockRelease,
       InterruptHandler, SpuriousInterrupt, DiskStep, DiskFills, DiskWants, DiskWrites, DiskFails,
       Idle, vars
  <2>2. Served
    BY <1>5
  <2>3. pc[t] \in Inside
    BY <2>1 DEF Inside, Location
  <2>4. state[selected] \in Doing(t) /\ ~Owed
    BY <1>1, <2>1, <2>2, <2>3, HolderAt DEF Owes
  <2>5. state[selected] \in Underway
    BY <2>1, <2>4 DEF Doing, Underway
  <2>6. completion_wait + One(selected \in irq) + 1 <= spurious
    BY <1>1, <1>2, <2>2, <2>4, <2>5 DEF Served, UnitsOwed, One, TypeOK
  <2>7. completion_wait \in Nat /\ One(selected \in irq) \in {0, 1}
    BY <1>1 DEF TypeOK, One
  <2> QED
    BY <1>2, <1>3, <2>6, <2>7
<1> QED
  BY <1>4, <1>5

(***************************************************************************)
(* IdeInv holds of the channel whatever threads, disks and stray           *)
(* interrupts do: the lock lets one thread at a time into ide_read() or    *)
(* ide_write(), with a sector of its device; that thread finds its disk    *)
(* doing what its place in the code expects, until wait_until_idle() times *)
(* out; and it times out only after a stray interrupt.                     *)
(***************************************************************************)
THEOREM ChannelInvariant == Spec => []IdeInv
<1>1. Init => IdeInv
  BY InitCalm DEF IdeInv, Calm, Safe, Init
<1>2. IdeInv /\ [Next]_vars => IdeInv'
  <2> SUFFICES ASSUME IdeInv, [Next]_vars PROVE IdeInv'
    OBVIOUS
  <2>1. Safe /\ (timed_out \/ Served) /\ (timed_out => spurious > 0)
    BY DEF IdeInv, Safe
  <2>2. Safe'
    BY <2>1, NextSafe
  <2>3. timed_out' => spurious' > 0
    BY <2>1, TimeOut
  <2>4. ~timed_out' => ~timed_out
    BY TimedOutStays
  <2>5. ~timed_out' => Served'
    BY <2>1, <2>4, NextCalm DEF Calm
  <2> QED
    BY <2>2, <2>3, <2>5 DEF IdeInv, Safe
<1> QED
  BY <1>1, <1>2, PTL DEF Spec

(***************************************************************************)
(* When ide_write() is over, the disk has written the sector, as its       *)
(* comment promises, if every interrupt so far was one of a disk's.        *)
(***************************************************************************)
THEOREM WritesAreAcknowledged == Spec => []WriteAcknowledged
<1>1. IdeInv => WriteAcknowledged
  <2> SUFFICES ASSUME IdeInv, spurious = 0, NEW t \in Thread, pc[t] = "release",
                      req[t].op = "write"
               PROVE  /\ state[DiskOf(t)] = "idle"
                      /\ medium[DiskOf(t)][SectorOf(t)] = req[t].data
    BY DEF WriteAcknowledged, IdeInv
  <2>1. TypeOK /\ OneHolder /\ Checked /\ Served
    BY DEF IdeInv
  <2>2. /\ holder = t /\ state[selected] \in Doing(t) /\ ~Owed
        /\ SectorOf(t) \in 0 .. DiskSize - 1
    BY <2>1, HolderAt DEF Inside, Location, Owes
  <2>3. selected = DiskOf(t) /\ OnDisk(selected, SectorOf(t)) = req[t].data
    BY <2>1, <2>2 DEF Served, HolderServed
  <2>4. state[selected] \notin Underway
    BY <2>1, <2>2 DEF Served, UnitsOwed, One, TypeOK
  <2>5. state[selected] = "idle"
    BY <2>2, <2>4 DEF Doing, Underway
  <2> QED
    BY <2>3, <2>5 DEF OnDisk
<1> QED
  BY <1>1, ChannelInvariant, PTL

-----------------------------------------------------------------------------
(* The block store *)

\* What the refinement reads BlockStore's variables from.
Content == [b \in Block |-> [s \in 0 .. Place[b].size - 1 |->
              OnDisk(Place[b].disk, Place[b].start + s)]]
Calling == [t \in Thread |-> CallOf(t)]

\* A sector of a block device is a sector of its disk, and of no other device.
LEMMA SectorsApart ==
  ASSUME NEW b \in Block, NEW s \in 0 .. Place[b].size - 1,
         NEW c \in Block, NEW r \in 0 .. Place[c].size - 1
  PROVE  /\ Place[b].disk \in Disk /\ Place[b].start + s \in 0 .. DiskSize - 1
         /\ Place[b].disk = Place[c].disk /\ Place[b].start + s = Place[c].start + r =>
              b = c /\ s = r
<1>1. /\ Place[b] \in [disk : Disk, start : Nat, size : Nat]
      /\ Place[c] \in [disk : Disk, start : Nat, size : Nat]
      /\ Place[b].start + Place[b].size <= DiskSize /\ DiskSize \in Nat
      /\ b # c /\ Place[b].disk = Place[c].disk =>
           \/ Place[b].start + Place[b].size <= Place[c].start
           \/ Place[c].start + Place[c].size <= Place[b].start
  BY IdeAssumption
<1> QED
  BY <1>1

LEMMA SameContent ==
  ASSUME \A d \in Disk, s \in 0 .. DiskSize - 1 : OnDisk(d, s)' = OnDisk(d, s)
  PROVE  Content' = Content
<1>1. ASSUME NEW b \in Block, NEW s \in 0 .. Place[b].size - 1
      PROVE  OnDisk(Place[b].disk, Place[b].start + s)' = OnDisk(Place[b].disk, Place[b].start + s)
  BY SectorsApart
<1> QED
  BY <1>1 DEF Content

\* What a call has come to.
DataOf(t) == IF req[t].op = "read" /\ Filled(t) THEN data[selected] ELSE req[t].data

LEMMA CallIs ==
  ASSUME NEW t, pc[t] # "run", NEW yes \in BOOLEAN, Done(t) <=> yes
  PROVE  CallOf(t) = [op |-> req[t].op, block |-> req[t].block, sector |-> req[t].sector,
                      data |-> DataOf(t), done |-> yes]
<1>1. Done(t) = yes
  BY DEF Done
<1> QED
  BY <1>1 DEF CallOf, DataOf

LEMMA CallIsNext ==
  ASSUME NEW t, pc'[t] # "run", NEW yes \in BOOLEAN, Done(t)' <=> yes
  PROVE  CallOf(t)' = [op |-> req'[t].op, block |-> req'[t].block, sector |-> req'[t].sector,
                       data |-> DataOf(t)', done |-> yes]
<1>1. Done(t)' = yes
  BY DEF Done
<1> QED
  BY <1>1 DEF CallOf, DataOf

LEMMA SameCall ==
  ASSUME NEW t, pc'[t] = pc[t], req'[t] = req[t], Filled(t)' <=> Filled(t),
         Filled(t) => data'[selected'] = data[selected]
  PROVE  CallOf(t)' = CallOf(t)
<1>1. CASE pc[t] = "run"
  BY <1>1 DEF CallOf
<1>2. CASE pc[t] # "run"
  <2>1. DataOf(t)' = DataOf(t) /\ (Done(t)' <=> Done(t))
    BY DEF DataOf, Done
  <2> DEFINE yes == Done(t)
  <2>2. yes \in BOOLEAN /\ (Done(t)' <=> yes) /\ (Done(t) <=> yes)
    BY <2>1 DEF Done
  <2> HIDE DEF yes
  <2> QED
    BY <1>2, <2>1, <2>2, CallIs, CallIsNext
<1> QED
  BY <1>1, <1>2

\* A thread that is not waiting for its disk is not touched by what others do.
LEMMA OtherCalls ==
  ASSUME OneHolder, OneHolder', NEW t \in Thread, holder = t,
         \A u \in Thread : u # t => pc'[u] = pc[u] /\ req'[u] = req[u]
  PROVE  \A u \in Thread : u # t => CallOf(u)' = CallOf(u)
<1> SUFFICES ASSUME NEW u \in Thread, u # t PROVE CallOf(u)' = CallOf(u)
  OBVIOUS
<1>1. pc[u] \in {"run", "lock"} /\ pc'[u] = pc[u] /\ req'[u] = req[u]
  BY DEF OneHolder
<1>2. ~Filled(u) /\ ~Filled(u)'
  BY <1>1 DEF Filled
<1> QED
  BY <1>1, <1>2, SameCall

\* A step that BlockStore does not see.
Unseen == Content' = Content /\ \A t \in Thread : CallOf(t)' = CallOf(t)

\* The disks' data stay, and so do what each thread asks and whether a sector
\* has been read for it.
LEMMA DisksSame ==
  ASSUME UNCHANGED <<state, latched, data, medium>>
  PROVE  Content' = Content
<1>1. \A d \in Disk, s \in 0 .. DiskSize - 1 : OnDisk(d, s)' = OnDisk(d, s)
  BY DEF OnDisk
<1> QED
  BY <1>1, SameContent

\* Steps of the holder that leave its call as it was.
LEMMA HolderUnseen ==
  ASSUME Calm, Calm', NEW t \in Thread,
         \/ SelectDevice(t) \/ SelectSector(t) \/ ExpectInterrupt(t) \/ IssuePioCommand(t)
         \/ SemaDown(t) \/ InputSector(t)
  PROVE  Unseen
<1>1. OneHolder /\ OneHolder' /\ TypeOK
  BY DEF Calm, Safe
<1>2. pc[t] \in Inside
  BY DEF Inside, Location, SelectDevice, SelectSector, ExpectInterrupt, IssuePioCommand, SemaDown,
     InputSector, NotBusy
<1>3. holder = t /\ state[selected] \in Doing(t) /\ req[t].op \in {"read", "write"}
  BY <1>1, <1>2, HolderAt DEF Calm, Safe
<1>4. \A u \in Thread : u # t => pc'[u] = pc[u] /\ req'[u] = req[u]
  BY <1>1 DEF TypeOK, SelectDevice, SelectSector, ExpectInterrupt, IssuePioCommand, SemaDown,
     InputSector, Goto
<1>5. \A u \in Thread : u # t => CallOf(u)' = CallOf(u)
  BY <1>1, <1>3, <1>4, OtherCalls
<1>6. CASE SelectDevice(t) \/ SelectSector(t) \/ ExpectInterrupt(t)
  <2>1. /\ pc[t] # "run" /\ pc'[t] # "run" /\ req' = req
        /\ ~Done(t) /\ ~Done(t)' /\ ~Filled(t) /\ ~Filled(t)'
    BY <1>1, <1>6 DEF SelectDevice, SelectSector, ExpectInterrupt, Goto, TypeOK, Done, Filled
  <2>2. DataOf(t)' = DataOf(t)
    BY <2>1 DEF DataOf
  <2>3. CallOf(t)' = CallOf(t)
    BY <2>1, <2>2, CallIs, CallIsNext
  <2>4. Content' = Content
    BY <1>6, DisksSame DEF SelectDevice, SelectSector, ExpectInterrupt, diskVars
  <2> QED
    BY <1>5, <2>3, <2>4 DEF Unseen
<1>7. CASE IssuePioCommand(t)
  <2>1. state[selected] = "idle"
    BY <1>3, <1>7 DEF IssuePioCommand, Doing
  <2>2. /\ pc[t] = "command" /\ req' = req /\ selected' = selected /\ UNCHANGED <<data, medium>>
        /\ pc'[t] \in {"down", "busy"} /\ (pc'[t] = "down" <=> req[t].op = "read")
        /\ state'[selected] \in {"reading", "accepting"}
        /\ \A d \in Disk : d # selected => state'[d] = state[d] /\ latched'[d] = latched[d]
    BY <1>1, <1>7, <2>1 DEF IssuePioCommand, Goto, TypeOK
  <2>3. ~Done(t) /\ ~Done(t)' /\ ~Filled(t) /\ ~Filled(t)'
    BY <1>3, <2>2 DEF Done, Filled
  <2>4. DataOf(t)' = DataOf(t)
    BY <2>2, <2>3 DEF DataOf
  <2>5. CallOf(t)' = CallOf(t)
    BY <2>2, <2>3, <2>4, CallIs, CallIsNext
  <2>6. \A d \in Disk, s \in 0 .. DiskSize - 1 : OnDisk(d, s)' = OnDisk(d, s)
    BY <2>1, <2>2 DEF OnDisk
  <2>7. Content' = Content
    BY <2>6, SameContent
  <2> QED
    BY <1>5, <2>5, <2>7 DEF Unseen
<1>8. CASE SemaDown(t)
  <2>1. /\ pc[t] = "down" /\ req' = req /\ UNCHANGED <<selected, state, latched, data, medium>>
        /\ pc'[t] = IF req[t].op = "read" THEN "busy" ELSE "release"
    BY <1>1, <1>8 DEF SemaDown, Goto, TypeOK, diskVars
  <2>2. /\ Done(t)' <=> Done(t)
        /\ req[t].op = "read" => (Filled(t)' <=> Filled(t))
    BY <1>3, <2>1 DEF Done, Filled
  <2>3. DataOf(t)' = DataOf(t)
    BY <2>1, <2>2 DEF DataOf
  <2>4. CallOf(t)' = CallOf(t)
    <3> DEFINE yes == Done(t)
    <3>1. yes \in BOOLEAN /\ (Done(t)' <=> yes) /\ (Done(t) <=> yes)
      BY <2>2 DEF Done
    <3> HIDE DEF yes
    <3> QED
      BY <2>1, <2>3, <3>1, CallIs, CallIsNext
  <2> QED
    BY <1>5, <2>1, <2>4, DisksSame DEF Unseen
<1>9. CASE InputSector(t)
  <2>1. /\ pc[t] = "busy" /\ pc'[t] = "release" /\ req[t].op = "read" /\ selected' = selected
        /\ state[selected] \in Drq /\ state'[selected] = "idle"
        /\ UNCHANGED <<latched, medium>>
        /\ \A d \in Disk : d # selected => state'[d] = state[d] /\ data'[d] = data[d]
    BY <1>1, <1>9 DEF InputSector, NotBusy, Goto, TypeOK
  <2>2. state[selected] = "filled"
    BY <1>3, <2>1 DEF Doing, Drq
  <2>3. /\ req'[t].op = "read" /\ req'[t].block = req[t].block /\ req'[t].sector = req[t].sector
        /\ req'[t].data = data[selected]
    <3>1. req'[t] = [req[t] EXCEPT !.data = data[selected]]
      BY <1>1, <1>9 DEF InputSector, TypeOK
    <3>2. req[t] \in [op : {"read", "write"}, block : Block, sector : Nat, data : Data]
      BY <1>1, RequestFacts DEF TypeOK
    <3> QED
      BY <2>1, <3>1, <3>2
  <2>4. Filled(t) /\ ~Filled(t)' /\ Done(t) /\ Done(t)'
    BY <2>1, <2>2 DEF Filled, Done
  <2>5. DataOf(t)' = DataOf(t)
    BY <2>1, <2>3, <2>4 DEF DataOf
  <2>6. CallOf(t)' = CallOf(t)
    BY ZenonT(60), <2>1, <2>3, <2>4, <2>5, CallIs, CallIsNext
  <2>7. \A d \in Disk, s \in 0 .. DiskSize - 1 : OnDisk(d, s)' = OnDisk(d, s)
    BY <2>1, <2>2 DEF OnDisk
  <2>8. Content' = Content
    BY <2>7, SameContent
  <2> QED
    BY <1>5, <2>6, <2>8 DEF Unseen
<1> QED
  BY <1>6, <1>7, <1>8, <1>9

\* So do taking the lock, the interrupt handler, and a disk that does not fill
\* its register.
LEMMA OthersUnseen ==
  ASSUME Calm, Calm',
         \/ \E t \in Thread : LockAcquire(t) \/ DiskFailed(t)
         \/ InterruptHandler \/ SpuriousInterrupt
         \/ \E d \in Disk : DiskWants(d) \/ DiskWrites(d) \/ DiskFails(d)
         \/ UNCHANGED vars
  PROVE  Unseen
<1>1. TypeOK
  BY DEF Calm, Safe
<1>2. CASE \E t \in Thread : LockAcquire(t)
  <2> PICK t \in Thread : LockAcquire(t)
    BY <1>2
  <2>1. /\ pc[t] = "lock" /\ pc'[t] = "idle" /\ req' = req
        /\ UNCHANGED <<selected, state, latched, data, medium>>
        /\ \A u \in Thread : u # t => pc'[u] = pc[u]
    BY <1>1 DEF LockAcquire, Goto, TypeOK, diskVars
  <2>2. ~Done(t) /\ ~Done(t)' /\ ~Filled(t) /\ ~Filled(t)'
    BY <2>1 DEF Done, Filled
  <2>3. DataOf(t)' = DataOf(t)
    BY <2>1, <2>2 DEF DataOf
  <2>4. CallOf(t)' = CallOf(t)
    BY ZenonT(60), <2>1, <2>2, <2>3, CallIs, CallIsNext
  <2>5. ASSUME NEW u \in Thread, u # t
        PROVE  CallOf(u)' = CallOf(u)
    BY <2>1, <2>5, SameCall DEF Filled
  <2> QED
    BY <2>1, <2>4, <2>5, DisksSame DEF Unseen
<1>3. CASE UNCHANGED <<threadVars, selected, state, latched, data, medium>>
  <2>1. ASSUME NEW u \in Thread
        PROVE  CallOf(u)' = CallOf(u)
    BY <1>3, SameCall DEF Filled, threadVars
  <2> QED
    BY <1>3, <2>1, DisksSame DEF Unseen
<1>4. ASSUME NEW d \in Disk, DiskWants(d) \/ DiskWrites(d) \/ DiskFails(d)
      PROVE  Unseen
  <2>1. /\ UNCHANGED <<threadVars, selected>>
        /\ state[d] \in {"accepting", "writing", "reading"} /\ state'[d] \in {"want", "idle"}
    BY <1>1, <1>4 DEF DiskWants, DiskWrites, DiskFails, TypeOK
  <2>2. d = selected
    BY <2>1, DiskAt
  <2>3. ASSUME NEW u \in Thread
        PROVE  CallOf(u)' = CallOf(u)
    BY <2>1, <2>2, SameCall DEF Filled, threadVars
  <2>4. ASSUME NEW e \in Disk, NEW s \in 0 .. DiskSize - 1
        PROVE  OnDisk(e, s)' = OnDisk(e, s)
    <3>1. CASE DiskWrites(d)
      BY <1>1, <3>1, WrittenSame
    <3>2. CASE DiskWants(d) \/ DiskFails(d)
      BY <1>1, <3>2 DEF DiskWants, DiskFails, OnDisk, TypeOK
    <3> QED
      BY <1>4, <3>1, <3>2
  <2> QED
    BY <2>3, <2>4, SameContent DEF Unseen
<1>5. CASE \E t \in Thread : DiskFailed(t)
  BY <1>3, <1>5 DEF DiskFailed, diskVars
<1>6. CASE InterruptHandler \/ SpuriousInterrupt \/ UNCHANGED vars
  BY <1>3, <1>6 DEF InterruptHandler, SpuriousInterrupt, vars, diskVars
<1> QED
  BY <1>2, <1>4, <1>5, <1>6

\* A call is not taken for none.
CallRecord == [op : {"read", "write"}, block : Block, sector : Nat, data : Data, done : BOOLEAN]

LEMMA CallNotNone == NoThread \notin CallRecord
BY IdeAssumption DEF CallRecord

LEMMA RequestOf ==
  ASSUME TypeOK, Checked, NEW t \in Thread, pc[t] # "run"
  PROVE  /\ req[t].op \in {"read", "write"} /\ req[t].block \in Block /\ req[t].data \in Data
         /\ req[t].sector \in 0 .. Place[req[t].block].size - 1 /\ req[t].sector \in Nat
<1>1. /\ req[t] \in [op : {"read", "write"}, block : Block, sector : Nat, data : Data]
      /\ req[t].sector < Place[req[t].block].size
  BY RequestFacts DEF TypeOK, Checked, CheckSector
<1>2. Place[req[t].block].size \in Nat
  BY <1>1, IdeAssumption
<1> QED
  BY <1>1, <1>2

\* block_read() or block_write() is called.
LEMMA BlockCallBegins ==
  ASSUME Calm, Calm', NEW t \in Thread, BlockCall(t)
  PROVE  Unseen \/ Store!Begin(t)
<1>1. TypeOK
  BY DEF Calm, Safe
<1> PICK r \in Request :
      /\ req' = [req EXCEPT ![t] = r]
      /\ IF CheckSector(r) THEN Goto(t, "lock") /\ UNCHANGED panic
         ELSE panic' = TRUE /\ UNCHANGED pc
  BY DEF BlockCall
<1>2. /\ pc[t] = "run" /\ UNCHANGED <<selected, state, latched, data, medium>>
      /\ req'[t] = r /\ \A u \in Thread : u # t => req'[u] = req[u] /\ pc'[u] = pc[u]
  BY <1>1 DEF BlockCall, TypeOK, diskVars, Goto
<1>3. Content' = Content
  BY <1>2, DisksSame
<1>4. ASSUME NEW u \in Thread, u # t
      PROVE  CallOf(u)' = CallOf(u)
  BY <1>2, <1>4, SameCall DEF Filled
<1>5. CallOf(t) = NoThread
  BY <1>2 DEF CallOf
<1>6. CASE ~CheckSector(r)
  <2>1. CallOf(t)' = NoThread
    BY <1>2, <1>6 DEF CallOf
  <2> QED
    BY <1>3, <1>4, <1>5, <2>1 DEF Unseen
<1>7. CASE CheckSector(r)
  <2> DEFINE c == [op |-> r.op, block |-> r.block, sector |-> r.sector, data |-> r.data,
                   done |-> FALSE]
  <2>1. pc'[t] = "lock"
    BY <1>1, <1>7 DEF Goto, TypeOK
  <2>2. ~Done(t)' /\ ~Filled(t)'
    BY <2>1 DEF Done, Filled
  <2>3. DataOf(t)' = r.data
    BY <1>2, <2>2 DEF DataOf
  <2>4. CallOf(t)' = c
    BY ZenonT(60), <1>2, <2>1, <2>2, <2>3, CallIsNext
  <2>5. c \in Store!Calls /\ c.done = FALSE
    <3>1. /\ r.op \in {"read", "write"} /\ r.block \in Block /\ r.data \in Data
          /\ r.sector \in 0 .. Place[r.block].size - 1 /\ Place[r.block].size \in Nat
      BY <1>7, RequestFacts, IdeAssumption DEF CheckSector
    <3>2. c \in [op : {"read", "write"}, block : {r.block}, sector : 0 .. Place[r.block].size - 1,
                 data : Data, done : BOOLEAN]
      BY <3>1
    <3> QED
      BY <3>1, <3>2 DEF Store!Calls
  <2> HIDE DEF c
  <2>6. Calling' = [Calling EXCEPT ![t] = c]
    BY <1>4, <2>4 DEF Calling
  <2> QED
    BY <1>3, <1>5, <2>5, <2>6 DEF Store!Begin, Content, Calling
<1> QED
  BY <1>6, <1>7

\* The disk reads the sector of the call that waits for it.
LEMMA DiskFillsReads ==
  ASSUME Calm, Calm', NEW d \in Disk, DiskFills(d)
  PROVE  \E t \in Thread : Store!Read(t)
<1>1. TypeOK /\ OneHolder /\ OneHolder' /\ Checked
  BY DEF Calm, Safe
<1>2. /\ state[d] = "reading" /\ state' = [state EXCEPT ![d] = "filled"]
      /\ data' = [data EXCEPT ![d] = medium[d][latched[d]]]
      /\ latched' = [latched EXCEPT ![d] = 0]
      /\ UNCHANGED <<threadVars, selected, medium>>
  BY DEF DiskFills
<1>3. d = selected
  BY <1>2, DiskAt
<1>4. PICK t \in Thread : /\ holder = t /\ pc[t] \in {"down", "busy"} /\ req[t].op = "read"
                          /\ selected = DiskOf(t) /\ latched[d] = SectorOf(t)
  BY <1>2, DiskAt DEF Underway
<1>5. /\ state'[d] = "filled" /\ data'[d] = medium[d][latched[d]]
      /\ \A e \in Disk : e # d => state'[e] = state[e] /\ data'[e] = data[e]
                                  /\ latched'[e] = latched[e]
  BY <1>1, <1>2, <1>3 DEF TypeOK
<1>6. \A e \in Disk, s \in 0 .. DiskSize - 1 : OnDisk(e, s)' = OnDisk(e, s)
  BY <1>2, <1>5 DEF OnDisk
<1>7. Content' = Content
  BY <1>6, SameContent
<1>8. \A u \in Thread : u # t => CallOf(u)' = CallOf(u)
  BY <1>1, <1>2, <1>4, OtherCalls DEF threadVars
<1>9. ~Filled(t) /\ ~Done(t) /\ Filled(t)' /\ Done(t)' /\ pc'[t] = pc[t] /\ req'[t] = req[t]
  BY <1>2, <1>3, <1>4, <1>5 DEF Filled, Done, threadVars
<1> DEFINE r == req[t]
           v == Content[r.block][r.sector]
<1>10. /\ CallOf(t) = [op |-> "read", block |-> r.block, sector |-> r.sector, data |-> r.data,
                       done |-> FALSE]
       /\ r.block \in Block /\ r.sector \in 0 .. Place[r.block].size - 1 /\ r.data \in Data
       /\ r.sector \in Nat
  <2>1. DataOf(t) = r.data
    BY <1>9 DEF DataOf
  <2>2. r.block \in Block /\ r.sector \in 0 .. Place[r.block].size - 1 /\ r.data \in Data
        /\ r.sector \in Nat
    BY <1>1, <1>4, RequestOf
  <2> QED
    BY <1>4, <1>9, <2>1, <2>2, CallIs
<1>11. v = medium[d][latched[d]]
  BY <1>2, <1>3, <1>4, <1>10 DEF Content, OnDisk, DiskOf, SectorOf
<1>12. CallOf(t)' = [op |-> "read", block |-> r.block, sector |-> r.sector, data |-> v,
                     done |-> TRUE]
  <2>1. DataOf(t)' = v
    BY <1>2, <1>3, <1>4, <1>5, <1>9, <1>11 DEF DataOf
  <2> QED
    BY <1>4, <1>9, <2>1, CallIsNext
<1> HIDE DEF r, v
<1> DEFINE c == CallOf(t)
<1>13. c = [op |-> "read", block |-> r.block, sector |-> r.sector, data |-> r.data, done |-> FALSE]
  BY <1>10
<1> HIDE DEF c
<1>14. /\ c # NoThread
       /\ c.op = "read" /\ c.done = FALSE /\ c.block = r.block /\ c.sector = r.sector
       /\ CallOf(t)' = [c EXCEPT !.done = TRUE, !.data = v]
  <2>1. c \in CallRecord
    BY <1>10, <1>13 DEF CallRecord
  <2>2. c # NoThread
    BY <2>1, CallNotNone
  <2>3. c.op = "read" /\ c.block = r.block /\ c.sector = r.sector
    BY <1>13
  <2>4. c.done = FALSE
    BY <1>13
  <2>5. CallOf(t)' = [c EXCEPT !.done = TRUE, !.data = v]
    <3> DEFINE yes == TRUE
               no  == FALSE
    <3>1. /\ CallOf(t)' = [op |-> "read", block |-> r.block, sector |-> r.sector, data |-> v,
                           done |-> yes]
          /\ c = [op |-> "read", block |-> r.block, sector |-> r.sector, data |-> r.data,
                  done |-> no]
      BY <1>12, <1>13
    <3> HIDE DEF yes, no
    <3> DEFINE e == [c EXCEPT !.done = yes]
    <3>2. e = [op |-> "read", block |-> r.block, sector |-> r.sector, data |-> r.data,
               done |-> yes]
      BY <3>1
    <3>3. CallOf(t)' = [e EXCEPT !.data = v]
      <4> HIDE DEF e
      <4> QED
        BY <3>1, <3>2
    <3> QED
      BY <3>3 DEF yes
  <2> QED
    BY <2>2, <2>3, <2>4, <2>5
<1>15. /\ Calling[t] = c /\ Content[c.block][c.sector] = v
       /\ Calling' = [Calling EXCEPT ![t] = [c EXCEPT !.done = TRUE, !.data = v]]
  BY <1>8, <1>14 DEF Calling, c, v
<1>16. Calling' = [Calling EXCEPT ![t].done = TRUE, ![t].data = v]
  BY <1>15 DEF Calling
<1>17. Store!Read(t)
  BY <1>7, <1>14, <1>15, <1>16 DEF Store!Read, Content, Calling
<1> QED
  BY <1>17

\* The disk has the data of a write.
LEMMA OutputSectorWrites ==
  ASSUME Calm, Calm', NEW t \in Thread, OutputSector(t)
  PROVE  Store!Write(t)
<1>1. TypeOK /\ OneHolder /\ OneHolder' /\ Checked
  BY DEF Calm, Safe
<1> DEFINE r == req[t]
<1>2. /\ pc[t] = "busy" /\ pc'[t] = "down" /\ r.op = "write" /\ state[selected] \in Drq
      /\ data' = [data EXCEPT ![selected] = r.data]
      /\ state' = [state EXCEPT ![selected] = "writing"]
      /\ UNCHANGED <<req, holder, selected, latched, medium>>
      /\ \A u \in Thread : u # t => pc'[u] = pc[u]
  BY <1>1 DEF OutputSector, NotBusy, Goto, TypeOK
<1>3. /\ holder = t /\ state[selected] = "want" /\ selected = DiskOf(t)
      /\ latched[selected] = SectorOf(t)
  <2>1. holder = t /\ state[selected] \in Doing(t)
    BY <1>1, <1>2, HolderAt DEF Calm, Safe, Inside, Location
  <2>2. state[selected] = "want"
    BY <1>2, <2>1 DEF Doing, Drq
  <2> QED
    BY <1>2, <2>1, <2>2 DEF Calm, Served, HolderServed, Underway
<1>4. /\ state'[selected] = "writing" /\ data'[selected] = r.data
      /\ \A e \in Disk : e # selected => state'[e] = state[e] /\ data'[e] = data[e]
  BY <1>1, <1>2 DEF TypeOK
<1>5. /\ r.block \in Block /\ r.sector \in 0 .. Place[r.block].size - 1 /\ r.data \in Data
      /\ r.sector \in Nat
  BY <1>1, <1>2, RequestOf
<1>6. ASSUME NEW e \in Disk, NEW s \in 0 .. DiskSize - 1
      PROVE  OnDisk(e, s)' = IF e = DiskOf(t) /\ s = SectorOf(t) THEN r.data ELSE OnDisk(e, s)
  BY <1>2, <1>3, <1>4 DEF OnDisk
<1>7. Content' = [Content EXCEPT ![r.block][r.sector] = r.data]
  <2>1. ASSUME NEW b \in Block, NEW s \in 0 .. Place[b].size - 1
        PROVE  OnDisk(Place[b].disk, Place[b].start + s)' =
                 IF b = r.block /\ s = r.sector THEN r.data
                 ELSE OnDisk(Place[b].disk, Place[b].start + s)
    <3>1. /\ Place[b].disk \in Disk /\ Place[b].start + s \in 0 .. DiskSize - 1
          /\ (Place[b].disk = DiskOf(t) /\ Place[b].start + s = SectorOf(t)) <=>
             (b = r.block /\ s = r.sector)
      BY <1>5, SectorsApart DEF DiskOf, SectorOf
    <3> QED
      BY <1>6, <3>1
  <2> HIDE DEF r
  <2> QED
    BY ZenonT(60), <1>5, <2>1 DEF Content
<1>8. \A u \in Thread : u # t => CallOf(u)' = CallOf(u)
  BY <1>1, <1>2, <1>3, OtherCalls
<1>9. ~Done(t) /\ Done(t)' /\ req'[t] = r
  BY <1>2 DEF Done, Filled
<1>10. /\ CallOf(t) = [op |-> "write", block |-> r.block, sector |-> r.sector, data |-> r.data,
                       done |-> FALSE]
       /\ CallOf(t)' = [op |-> "write", block |-> r.block, sector |-> r.sector, data |-> r.data,
                        done |-> TRUE]
  <2>1. DataOf(t) = r.data /\ DataOf(t)' = r.data
    BY <1>2, <1>9 DEF DataOf
  <2> QED
    BY <1>2, <1>9, <2>1, CallIs, CallIsNext
<1> HIDE DEF r
<1> DEFINE c == CallOf(t)
<1>11. c = [op |-> "write", block |-> r.block, sector |-> r.sector, data |-> r.data, done |-> FALSE]
  BY <1>10
<1> HIDE DEF c
<1>12. /\ c # NoThread
       /\ c.op = "write" /\ c.done = FALSE /\ c.block = r.block /\ c.sector = r.sector
       /\ c.data = r.data /\ CallOf(t)' = [c EXCEPT !.done = TRUE]
  <2>1. c \in CallRecord
    BY <1>5, <1>11 DEF CallRecord
  <2>2. c # NoThread
    BY <2>1, CallNotNone
  <2>3. c.op = "write" /\ c.block = r.block /\ c.sector = r.sector /\ c.data = r.data
    BY <1>11
  <2>4. c.done = FALSE
    BY <1>11
  <2>5. CallOf(t)' = [c EXCEPT !.done = TRUE]
    <3> DEFINE yes == TRUE
               no  == FALSE
    <3>1. /\ CallOf(t)' = [op |-> "write", block |-> r.block, sector |-> r.sector,
                           data |-> r.data, done |-> yes]
          /\ c = [op |-> "write", block |-> r.block, sector |-> r.sector, data |-> r.data,
                  done |-> no]
      BY <1>10, <1>11
    <3> HIDE DEF yes, no
    <3>2. CallOf(t)' = [c EXCEPT !.done = yes]
      BY <3>1
    <3> QED
      BY <3>2 DEF yes
  <2> QED
    BY <2>2, <2>3, <2>4, <2>5
<1>13. Calling[t] = c /\ Calling' = [Calling EXCEPT ![t] = [c EXCEPT !.done = TRUE]]
  BY <1>8, <1>12 DEF Calling, c
<1>14. Calling' = [Calling EXCEPT ![t].done = TRUE]
  BY <1>13 DEF Calling
<1> QED
  BY <1>7, <1>12, <1>13, <1>14 DEF Store!Write, Content, Calling

\* The call returns.
LEMMA LockReleaseReturns ==
  ASSUME Calm, Calm', NEW t \in Thread, LockRelease(t)
  PROVE  Store!Return(t)
<1>1. TypeOK /\ OneHolder /\ OneHolder'
  BY DEF Calm, Safe
<1>2. /\ pc[t] = "release" /\ pc'[t] = "run"
      /\ UNCHANGED <<selected, state, latched, data, medium>>
      /\ \A u \in Thread : u # t => pc'[u] = pc[u] /\ req'[u] = req[u]
  BY <1>1 DEF LockRelease, Goto, TypeOK, diskVars
<1>3. holder = t
  BY <1>1, <1>2, HolderAt DEF Calm, Safe, Inside, Location
<1>4. \A u \in Thread : u # t => CallOf(u)' = CallOf(u)
  BY <1>1, <1>2, <1>3, OtherCalls
<1>5. Done(t) /\ ~Filled(t)
  BY <1>2 DEF Done, Filled
<1>6. CallOf(t) = [op |-> req[t].op, block |-> req[t].block, sector |-> req[t].sector,
                   data |-> req[t].data, done |-> TRUE]
  <2>1. DataOf(t) = req[t].data
    BY <1>5 DEF DataOf
  <2> QED
    BY <1>2, <1>5, <2>1, CallIs
<1>7. CallOf(t) # NoThread /\ CallOf(t).done = TRUE
  <2>1. Checked
    BY DEF Calm, Safe
  <2>2. /\ req[t].op \in {"read", "write"} /\ req[t].block \in Block /\ req[t].data \in Data
        /\ req[t].sector \in Nat
    BY <1>1, <1>2, <2>1, RequestOf
  <2>3. CallOf(t) \in CallRecord
    BY <1>6, <2>2 DEF CallRecord
  <2>4. CallOf(t) # NoThread
    BY <2>3, CallNotNone
  <2> QED
    BY <1>6, <2>4
<1>8. CallOf(t)' = NoThread
  BY <1>2 DEF CallOf
<1>9. Calling[t] = CallOf(t) /\ Calling' = [Calling EXCEPT ![t] = NoThread]
  BY <1>4, <1>8 DEF Calling
<1> QED
  BY <1>2, <1>7, <1>9, DisksSame DEF Store!Return, Content, Calling

LEMMA NextStore == Calm /\ Calm' /\ [Next]_vars => [Store!Next]_(Store!vars)
<1> SUFFICES ASSUME Calm, Calm', [Next]_vars PROVE [Store!Next]_(Store!vars)
  OBVIOUS
<1>1. Unseen => UNCHANGED Store!vars
  <2>1. Unseen => Content' = Content /\ Calling' = Calling
    BY DEF Unseen, Calling
  <2> QED
    BY <2>1 DEF Store!vars, Content, Calling
<1>2. ASSUME NEW t \in Thread, BlockCall(t) \/ Driver(t)
      PROVE  Unseen \/ Store!Next
  BY <1>2, BlockCallBegins, HolderUnseen, OthersUnseen, OutputSectorWrites, LockReleaseReturns
     DEF Driver, Store!Next
<1>3. ASSUME NEW d \in Disk, DiskStep(d)
      PROVE  Unseen \/ Store!Next
  BY <1>3, DiskFillsReads, OthersUnseen DEF DiskStep, Store!Next
<1>4. CASE InterruptHandler \/ SpuriousInterrupt \/ UNCHANGED vars
  BY <1>1, <1>4, OthersUnseen
<1> QED
  BY <1>1, <1>2, <1>3, <1>4 DEF Next

LEMMA InitStore == Init => Store!Init
<1> SUFFICES ASSUME Init PROVE Store!Init
  OBVIOUS
<1>1. ASSUME NEW b \in Block, NEW s \in 0 .. Place[b].size - 1
      PROVE  OnDisk(Place[b].disk, Place[b].start + s) = Blank
  BY SectorsApart DEF Init, OnDisk
<1>2. \A t \in Thread : CallOf(t) = NoThread
  BY DEF Init, CallOf
<1> QED
  BY <1>1, <1>2 DEF Store!Init

(***************************************************************************)
(* The block layer's promise: with any number of threads, disks and        *)
(* partitions, every block_read() and block_write() takes effect at one    *)
(* instant of its call, on its own device only, until wait_until_idle()    *)
(* times out on a disk that is still writing; and that takes a stray       *)
(* interrupt.                                                              *)
(***************************************************************************)
THEOREM ImplementsBlockStore == Spec => BlocksAtomic
<1>1. Init => Store!Init
  BY InitStore
<1>2. IdeInv /\ IdeInv' /\ [Next]_vars => (~timed_out' => [Store!Next]_(Store!vars))
  <2> SUFFICES ASSUME IdeInv, IdeInv', [Next]_vars, ~timed_out' PROVE [Store!Next]_(Store!vars)
    OBVIOUS
  <2>1. Calm /\ Calm'
    BY TimedOutStays DEF IdeInv, Calm, Safe
  <2> QED
    BY <2>1, NextStore
<1>3. IdeInv => (timed_out => spurious > 0)
  BY DEF IdeInv
<1> QED
  BY <1>1, <1>2, <1>3, ChannelInvariant, PTL DEF Spec, BlocksAtomic

=============================================================================
