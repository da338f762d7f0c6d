---------------------------- MODULE Console_proofs ----------------------------
(***************************************************************************)
(* Proofs about Console: ConsoleInv is inductive, so no thread sleeps      *)
(* through its wake-up; the port's enable bits follow the queues; both     *)
(* rings implement ByteQueue; and messages do not mix, for every size of   *)
(* queue and message and any number of threads.                            *)
(***************************************************************************)
EXTENDS Console, TLAPS, SequenceTheorems

\* The successor of a cell of the ring is another cell.
LEMMA NextPosFacts ==
  ASSUME NEW pos \in 0 .. BufSize - 1
  PROVE  NextPos(pos) \in 0 .. BufSize - 1 /\ NextPos(pos) # pos
<1>1. CASE pos + 1 < BufSize
  BY <1>1, ConsoleAssumption DEF NextPos
<1>2. CASE pos + 1 = BufSize
  BY <1>2, ConsoleAssumption DEF NextPos
<1> QED
  BY <1>1, <1>2, ConsoleAssumption

-----------------------------------------------------------------------------
(* Types *)

\* TypeOK in parts: the queues, the locks, the rest.
RingTypes ==
  /\ DOMAIN buf = Queue
  /\ \A q \in Queue : buf[q] \in [0 .. BufSize - 1 -> ByteOf(q) \cup {NoByte}]
  /\ head \in [Queue -> 0 .. BufSize - 1]
  /\ tail \in [Queue -> 0 .. BufSize - 1]

QueueTypes ==
  /\ RingTypes
  /\ not_full \in [Queue -> Thread \cup {NoThread}]
  /\ not_empty \in [Queue -> Thread \cup {NoThread}]
  /\ blocked \subseteq Thread

LockTypes ==
  /\ lock_value \in [Lock -> {0, 1}]
  /\ lock_waiters \in [Lock -> Seq(Thread)]

RestTypes ==
  /\ pc \in [Thread -> Location]
  /\ printed \in [Writer -> 0 .. MsgLen]
  /\ xmit_ier \in BOOLEAN /\ recv_ier \in BOOLEAN
  /\ thre \in BOOLEAN /\ rbr \in Key \cup {NoByte}
  /\ handler \in {"none", "receive", "transmit", "poll", "print"}
  /\ prints \in 0 .. MaxPrints
  /\ panic \in BOOLEAN

LEMMA Types == TypeOK <=> QueueTypes /\ LockTypes /\ RestTypes
BY DEF TypeOK, QueueTypes, RingTypes, LockTypes, RestTypes

LEMMA PutByteTypes ==
  ASSUME QueueTypes, NEW q \in Queue, NEW b \in ByteOf(q), NEW sleeping \in SUBSET Thread,
         PutByte(q, b, sleeping)
  PROVE  QueueTypes'
<1>1. DOMAIN buf' = Queue /\ UNCHANGED <<tail, not_full>>
  BY DEF QueueTypes, RingTypes, PutByte
<1>2. ASSUME NEW r \in Queue
      PROVE  buf'[r] \in [0 .. BufSize - 1 -> ByteOf(r) \cup {NoByte}]
  BY <1>2 DEF QueueTypes, RingTypes, PutByte
<1>3. head' \in [Queue -> 0 .. BufSize - 1]
  <2>1. NextPos(head[q]) \in 0 .. BufSize - 1
    BY NextPosFacts DEF QueueTypes, RingTypes
  <2> QED
    BY <2>1 DEF QueueTypes, RingTypes, PutByte
<1>4. not_empty' \in [Queue -> Thread \cup {NoThread}] /\ blocked' \subseteq Thread
  BY DEF QueueTypes, PutByte, Unblock
<1> QED
  BY <1>1, <1>2, <1>3, <1>4 DEF QueueTypes, RingTypes, ByteOf, TxByte

LEMMA GetByteTypes ==
  ASSUME QueueTypes, NEW q \in Queue, NEW sleeping \in SUBSET Thread, GetByte(q, sleeping)
  PROVE  QueueTypes'
<1>1. DOMAIN buf' = Queue /\ UNCHANGED <<head, not_empty>>
  BY DEF QueueTypes, RingTypes, GetByte
<1>2. ASSUME NEW r \in Queue
      PROVE  buf'[r] \in [0 .. BufSize - 1 -> ByteOf(r) \cup {NoByte}]
  BY <1>2 DEF QueueTypes, RingTypes, GetByte
<1>3. tail' \in [Queue -> 0 .. BufSize - 1]
  <2>1. NextPos(tail[q]) \in 0 .. BufSize - 1
    BY NextPosFacts DEF QueueTypes, RingTypes
  <2> QED
    BY <2>1 DEF QueueTypes, RingTypes, GetByte
<1>4. not_full' \in [Queue -> Thread \cup {NoThread}] /\ blocked' \subseteq Thread
  BY DEF QueueTypes, GetByte, Unblock
<1> QED
  BY <1>1, <1>2, <1>3, <1>4 DEF QueueTypes, RingTypes, ByteOf, TxByte

LEMMA JoinWaitersTypes ==
  ASSUME LockTypes, blocked \subseteq Thread, NEW l \in Lock, NEW t \in Thread, JoinWaiters(t, l)
  PROVE  LockTypes' /\ blocked' \subseteq Thread /\ blocked' = blocked \cup {t}
<1>1. Append(lock_waiters[l], t) \in Seq(Thread)
  BY AppendProperties DEF LockTypes
<1> QED
  BY <1>1 DEF LockTypes, JoinWaiters

LEMMA LeaveWaitersTypes ==
  ASSUME LockTypes, NEW l \in Lock, LeaveWaiters(l)
  PROVE  lock_waiters' \in [Lock -> Seq(Thread)]
<1>1. CASE lock_waiters[l] = <<>>
  BY <1>1 DEF LockTypes, LeaveWaiters
<1>2. CASE lock_waiters[l] # <<>>
  <2>1. Tail(lock_waiters[l]) \in Seq(Thread)
    BY <1>2, HeadTailProperties DEF LockTypes
  <2> QED
    BY <1>2, <2>1 DEF LockTypes, LeaveWaiters
<1> QED
  BY <1>1, <1>2

-----------------------------------------------------------------------------
(* Waiting *)

\* SleeperStuck without the types.
Sleepers ==
  \A t \in blocked : pc[t] = "wait" =>
    /\ Stuck(t)
    /\ t = IF t \in Reader THEN not_empty["buffer"] ELSE not_full["txq"]

Parts == /\ QueueTypes /\ LockTypes /\ RestTypes
         /\ Sleepers /\ OneWaiter /\ RoomToPrint /\ Unprinted

LEMMA InvParts == (ConsoleInv <=> Parts) /\ (ConsoleInv' <=> Parts')
<1>1. ConsoleInv <=> Parts
  BY Types DEF ConsoleInv, SleeperStuck, Sleepers, Parts
<1>2. TypeOK' <=> QueueTypes' /\ LockTypes' /\ RestTypes'
  BY Types, PTL
<1>3. ConsoleInv' <=> Parts'
  BY <1>2 DEF ConsoleInv, SleeperStuck, Sleepers, Parts
<1> QED
  BY <1>1, <1>3

\* Storing a byte in the input buffer wakes its reader, and in the transmit
\* queue is only done where no writer sleeps for want of room.
LEMMA PutByteSleepers ==
  ASSUME QueueTypes, Sleepers, NEW q \in Queue, NEW b, NEW sleeping \in SUBSET blocked,
         ~IntqFull(q), PutByte(q, b, sleeping), \A t \in Thread : pc'[t] = "wait" => pc[t] = "wait"
  PROVE  Sleepers'
<1> SUFFICES ASSUME NEW t \in blocked', pc'[t] = "wait"
             PROVE  Stuck(t)' /\ t = IF t \in Reader THEN not_empty'["buffer"] ELSE not_full'["txq"]
  BY DEF Sleepers
<1>1. t \in blocked /\ t # not_empty[q] /\ t \in Thread /\ pc[t] = "wait"
  BY DEF PutByte, Unblock, QueueTypes
<1>2. Stuck(t) /\ t = IF t \in Reader THEN not_empty["buffer"] ELSE not_full["txq"]
  BY <1>1 DEF Sleepers
<1>3. CASE q = "txq"
  <2>1. t \in Reader
    BY <1>2, <1>3 DEF Stuck
  <2> QED
    BY <1>2, <1>3, <2>1 DEF PutByte, Stuck, IntqEmpty, QueueTypes, RingTypes, Queue
<1>4. CASE q = "buffer"
  <2>1. t \notin Reader
    BY <1>1, <1>2, <1>4
  <2> QED
    BY <1>2, <1>4, <2>1 DEF PutByte, Stuck, IntqFull, QueueTypes, RingTypes, Queue
<1> QED
  BY <1>3, <1>4 DEF Queue

\* The same for taking a byte.
LEMMA GetByteSleepers ==
  ASSUME QueueTypes, Sleepers, NEW q \in Queue, NEW sleeping \in SUBSET blocked,
         ~IntqEmpty(q), GetByte(q, sleeping), \A t \in Thread : pc'[t] = "wait" => pc[t] = "wait"
  PROVE  Sleepers'
<1> SUFFICES ASSUME NEW t \in blocked', pc'[t] = "wait"
             PROVE  Stuck(t)' /\ t = IF t \in Reader THEN not_empty'["buffer"] ELSE not_full'["txq"]
  BY DEF Sleepers
<1>1. t \in blocked /\ t # not_full[q] /\ t \in Thread /\ pc[t] = "wait"
  BY DEF GetByte, Unblock, QueueTypes
<1>2. Stuck(t) /\ t = IF t \in Reader THEN not_empty["buffer"] ELSE not_full["txq"]
  BY <1>1 DEF Sleepers
<1>3. CASE q = "buffer"
  <2>1. t \notin Reader
    BY <1>2, <1>3 DEF Stuck
  <2> QED
    BY <1>2, <1>3, <2>1 DEF GetByte, Stuck, IntqFull, QueueTypes, RingTypes, Queue
<1>4. CASE q = "txq"
  <2>1. t \in Reader
    BY <1>1, <1>2, <1>4
  <2> QED
    BY <1>2, <1>4, <2>1 DEF GetByte, Stuck, IntqEmpty, QueueTypes, RingTypes, Queue
<1> QED
  BY <1>3, <1>4 DEF Queue

\* wait() is only entered when no other thread of the queue is in it.
LEMMA WaitSleepers ==
  ASSUME QueueTypes, RestTypes, Sleepers, NEW t \in Thread, NEW sleeping \in SUBSET blocked,
         Stuck(t), Wait(t, sleeping),
         \A u \in Thread : pc[u] = "wait" /\ QueueOf(u) = QueueOf(t) => u = t
  PROVE  QueueTypes' /\ Sleepers' /\ UNCHANGED <<buf, head, tail, printed, ierVars>>
         /\ pc' = [pc EXCEPT ![t] = "wait"]
<1>1. UNCHANGED <<buf, head, tail, printed, ierVars>> /\ pc' = [pc EXCEPT ![t] = "wait"]
  BY DEF Wait, Goto
<1>2. QueueTypes'
  BY <1>1 DEF Wait, QueueTypes, RingTypes, Queue, ByteOf, TxByte
<1>3. ASSUME NEW u \in blocked', pc'[u] = "wait"
      PROVE  Stuck(u)' /\ u = IF u \in Reader THEN not_empty'["buffer"] ELSE not_full'["txq"]
  <2>1. u \in Thread
    BY <1>2, <1>3 DEF QueueTypes
  <2>2. CASE u = t
    BY <1>1, <2>1, <2>2 DEF Wait, Stuck, IntqEmpty, IntqFull, NextPos, QueueTypes, Queue
  <2>3. CASE u # t
    <3>1. u \in blocked /\ pc[u] = "wait"
      BY <1>1, <1>3, <2>1, <2>3 DEF Wait, RestTypes
    <3>2. QueueOf(u) # QueueOf(t)
      BY <2>1, <2>3, <3>1
    <3> QED
      BY <1>1, <3>1, <3>2 DEF Wait, Sleepers, QueueOf, Stuck, IntqEmpty, IntqFull, NextPos,
         QueueTypes, Queue
  <2> QED
    BY <2>2, <2>3
<1> QED
  BY <1>1, <1>2, <1>3 DEF Sleepers

\* A step that leaves the queues alone and puts nobody into wait().
LEMMA QuietSleepers ==
  ASSUME QueueTypes, Sleepers, UNCHANGED queueVars,
         \A t \in blocked' : pc'[t] = "wait" => t \in blocked /\ pc[t] = "wait"
  PROVE  Sleepers'
BY DEF Sleepers, queueVars, Stuck, IntqEmpty, IntqFull, NextPos

-----------------------------------------------------------------------------
(* One lemma per action *)


LEMMA InitInv == Init => ConsoleInv
<1> SUFFICES ASSUME Init PROVE ConsoleInv
  OBVIOUS
<1>1. QueueTypes
  BY ConsoleAssumption DEF Init, QueueTypes, RingTypes, Queue, ByteOf
<1>2. LockTypes
  BY DEF Init, LockTypes, Lock
<1>3. RestTypes
  <2>1. 0 \in 0 .. MsgLen /\ 0 \in 0 .. MaxPrints
    BY ConsoleAssumption
  <2>2. pc \in [Thread -> Location] /\ printed \in [Writer -> 0 .. MsgLen]
    BY <2>1 DEF Init, Location
  <2>3. xmit_ier \in BOOLEAN /\ recv_ier \in BOOLEAN /\ thre \in BOOLEAN /\ panic \in BOOLEAN
    BY ZenonT(20) DEF Init
  <2> QED
    BY <2>1, <2>2, <2>3 DEF Init, RestTypes
<1>4. Sleepers /\ OneWaiter /\ RoomToPrint /\ Unprinted
  BY DEF Init, Sleepers, OneWaiter, RoomToPrint, Unprinted, Thread
<1> QED
  BY <1>1, <1>2, <1>3, <1>4, InvParts DEF Parts

LEMMA SerialInterruptInv ==
  ASSUME ConsoleInv, SerialInterrupt
  PROVE  ConsoleInv'
<1> USE DEF SerialInterrupt, queueVars, lockVars, threadVars, ierVars, uartVars
<1>1. QueueTypes /\ LockTypes /\ RestTypes /\ Sleepers /\ OneWaiter /\ RoomToPrint /\ Unprinted
  BY InvParts DEF Parts
<1>2. QueueTypes' /\ LockTypes'
  BY <1>1 DEF QueueTypes, RingTypes, LockTypes
<1>3. RestTypes'
  BY <1>1, ConsoleAssumption DEF RestTypes
<1>4. Sleepers' /\ OneWaiter' /\ Unprinted'
  BY <1>1, QuietSleepers DEF OneWaiter, Unprinted
<1>5. RoomToPrint'
  BY <1>1 DEF RoomToPrint, IntqFull, NextPos
<1> QED
  BY <1>2, <1>3, <1>4, <1>5, InvParts DEF Parts

LEMMA ReceiveDoneInv ==
  ASSUME ConsoleInv, ReceiveDone
  PROVE  ConsoleInv'
<1> USE DEF ReceiveDone, queueVars, lockVars, threadVars, ierVars, uartVars
<1>1. QueueTypes /\ LockTypes /\ RestTypes /\ Sleepers /\ OneWaiter /\ RoomToPrint /\ Unprinted
  BY InvParts DEF Parts
<1>2. QueueTypes' /\ LockTypes'
  BY <1>1 DEF QueueTypes, RingTypes, LockTypes
<1>3. RestTypes'
  BY <1>1, ConsoleAssumption DEF RestTypes
<1>4. Sleepers' /\ OneWaiter' /\ Unprinted'
  BY <1>1, QuietSleepers DEF OneWaiter, Unprinted
<1>5. RoomToPrint'
  BY <1>1 DEF RoomToPrint, IntqFull, NextPos
<1> QED
  BY <1>2, <1>3, <1>4, <1>5, InvParts DEF Parts

LEMMA UnexpectedInterruptInv ==
  ASSUME ConsoleInv, UnexpectedInterrupt
  PROVE  ConsoleInv'
<1> USE DEF UnexpectedInterrupt, queueVars, lockVars, threadVars, ierVars, uartVars
<1>1. QueueTypes /\ LockTypes /\ RestTypes /\ Sleepers /\ OneWaiter /\ RoomToPrint /\ Unprinted
  BY InvParts DEF Parts
<1>2. QueueTypes' /\ LockTypes'
  BY <1>1 DEF QueueTypes, RingTypes, LockTypes
<1>3. RestTypes'
  BY <1>1, ConsoleAssumption DEF RestTypes
<1>4. Sleepers' /\ OneWaiter' /\ Unprinted'
  BY <1>1, QuietSleepers DEF OneWaiter, Unprinted
<1>5. RoomToPrint'
  BY <1>1 DEF RoomToPrint, IntqFull, NextPos
<1> QED
  BY <1>2, <1>3, <1>4, <1>5, InvParts DEF Parts

LEMMA TransmitDoneInv ==
  ASSUME ConsoleInv, TransmitDone
  PROVE  ConsoleInv'
<1> USE DEF TransmitDone, WriteIer, queueVars, lockVars, threadVars, ierVars, uartVars
<1>1. QueueTypes /\ LockTypes /\ RestTypes /\ Sleepers /\ OneWaiter /\ RoomToPrint /\ Unprinted
  BY InvParts DEF Parts
<1>2. QueueTypes' /\ LockTypes'
  BY <1>1 DEF QueueTypes, RingTypes, LockTypes
<1>3. RestTypes'
  BY <1>1, ConsoleAssumption DEF RestTypes
<1>4. Sleepers' /\ OneWaiter' /\ Unprinted'
  BY <1>1, QuietSleepers DEF OneWaiter, Unprinted
<1>5. RoomToPrint'
  BY <1>1 DEF RoomToPrint, IntqFull, NextPos
<1> QED
  BY <1>2, <1>3, <1>4, <1>5, InvParts DEF Parts

LEMMA ShiftedInv ==
  ASSUME ConsoleInv, Shifted
  PROVE  ConsoleInv'
<1> USE DEF Shifted, queueVars, lockVars, threadVars, ierVars, uartVars
<1>1. QueueTypes /\ LockTypes /\ RestTypes /\ Sleepers /\ OneWaiter /\ RoomToPrint /\ Unprinted
  BY InvParts DEF Parts
<1>2. QueueTypes' /\ LockTypes'
  BY <1>1 DEF QueueTypes, RingTypes, LockTypes
<1>3. RestTypes'
  BY <1>1, ConsoleAssumption DEF RestTypes
<1>4. Sleepers' /\ OneWaiter' /\ Unprinted'
  BY <1>1, QuietSleepers DEF OneWaiter, Unprinted
<1>5. RoomToPrint'
  BY <1>1 DEF RoomToPrint, IntqFull, NextPos
<1> QED
  BY <1>2, <1>3, <1>4, <1>5, InvParts DEF Parts

LEMMA ArriveInv ==
  ASSUME ConsoleInv, Arrive
  PROVE  ConsoleInv'
<1> USE DEF Arrive, queueVars, lockVars, threadVars, ierVars, uartVars
<1>1. QueueTypes /\ LockTypes /\ RestTypes /\ Sleepers /\ OneWaiter /\ RoomToPrint /\ Unprinted
  BY InvParts DEF Parts
<1>2. QueueTypes' /\ LockTypes'
  BY <1>1 DEF QueueTypes, RingTypes, LockTypes
<1>3. RestTypes'
  BY <1>1, ConsoleAssumption DEF RestTypes
<1>4. Sleepers' /\ OneWaiter' /\ Unprinted'
  BY <1>1, QuietSleepers DEF OneWaiter, Unprinted
<1>5. RoomToPrint'
  BY <1>1 DEF RoomToPrint, IntqFull, NextPos
<1> QED
  BY <1>2, <1>3, <1>4, <1>5, InvParts DEF Parts

LEMMA ReceiveInv ==
  ASSUME ConsoleInv, Receive
  PROVE  ConsoleInv'
<1> USE DEF Receive, lockVars, uartVars
<1>1. QueueTypes /\ LockTypes /\ RestTypes /\ Sleepers /\ OneWaiter /\ RoomToPrint /\ Unprinted
  BY InvParts DEF Parts
<1>2. QueueTypes'
  BY <1>1, PutByteTypes DEF Queue, QueueTypes, ByteOf, RestTypes, TxByte
<1>3. Sleepers'
  <2>1. ~IntqFull("buffer")
    BY <1>1
  <2> QED
    BY <1>1, <2>1, PutByteSleepers DEF Queue
<1>4. LockTypes' /\ RestTypes'
  BY <1>1 DEF LockTypes, RestTypes, WriteIer, ierVars
<1>5. OneWaiter' /\ Unprinted'
  BY <1>1 DEF OneWaiter, Unprinted
<1>6. RoomToPrint'
  BY <1>1 DEF RoomToPrint
<1> QED
  BY <1>2, <1>3, <1>4, <1>5, <1>6, InvParts DEF Parts

LEMMA KeyboardInterruptInv ==
  ASSUME ConsoleInv, KeyboardInterrupt
  PROVE  ConsoleInv'
<1> USE DEF KeyboardInterrupt, lockVars, uartVars
<1>1. QueueTypes /\ LockTypes /\ RestTypes /\ Sleepers /\ OneWaiter /\ RoomToPrint /\ Unprinted
  BY InvParts DEF Parts
<1>2. QueueTypes'
  BY <1>1, PutByteTypes DEF Queue, QueueTypes, ByteOf, RestTypes, TxByte
<1>3. Sleepers'
  <2>1. ~IntqFull("buffer")
    BY <1>1
  <2> QED
    BY <1>1, <2>1, PutByteSleepers DEF Queue
<1>4. LockTypes' /\ RestTypes'
  BY <1>1 DEF LockTypes, RestTypes, WriteIer, ierVars
<1>5. OneWaiter' /\ Unprinted'
  BY <1>1 DEF OneWaiter, Unprinted
<1>6. RoomToPrint'
  BY <1>1 DEF RoomToPrint
<1> QED
  BY <1>2, <1>3, <1>4, <1>5, <1>6, InvParts DEF Parts

LEMMA PutcIntrInv ==
  ASSUME ConsoleInv, PutcIntr
  PROVE  ConsoleInv'
<1> USE DEF PutcIntr, lockVars, uartVars
<1>1. QueueTypes /\ LockTypes /\ RestTypes /\ Sleepers /\ OneWaiter /\ RoomToPrint /\ Unprinted
  BY InvParts DEF Parts
<1>2. QueueTypes'
  BY <1>1, PutByteTypes DEF Queue, QueueTypes, ByteOf, RestTypes, TxByte
<1>3. Sleepers'
  <2>1. ~IntqFull("txq")
    BY <1>1 DEF RoomToPrint
  <2> QED
    BY <1>1, <2>1, PutByteSleepers DEF Queue
<1>4. LockTypes' /\ RestTypes'
  BY <1>1 DEF LockTypes, RestTypes, WriteIer, ierVars
<1>5. OneWaiter' /\ Unprinted'
  BY <1>1 DEF OneWaiter, Unprinted
<1>6. RoomToPrint'
  BY <1>1 DEF RoomToPrint
<1> QED
  BY <1>2, <1>3, <1>4, <1>5, <1>6, InvParts DEF Parts

LEMMA TransmitInv ==
  ASSUME ConsoleInv, Transmit
  PROVE  ConsoleInv'
<1> USE DEF Transmit, lockVars, uartVars
<1>1. QueueTypes /\ LockTypes /\ RestTypes /\ Sleepers /\ OneWaiter /\ RoomToPrint /\ Unprinted
  BY InvParts DEF Parts
<1>2. QueueTypes'
  BY <1>1, GetByteTypes DEF Queue, QueueTypes
<1>3. Sleepers'
  <2>1. ~IntqEmpty("txq")
    BY <1>1
  <2> QED
    BY <1>1, <2>1, GetByteSleepers DEF Queue
<1>4. LockTypes' /\ RestTypes'
  BY <1>1 DEF LockTypes, RestTypes, WriteIer, ierVars
<1>5. OneWaiter' /\ Unprinted'
  BY <1>1 DEF OneWaiter, Unprinted
<1>6. RoomToPrint'
  BY <1>1 DEF RoomToPrint
<1> QED
  BY <1>2, <1>3, <1>4, <1>5, <1>6, InvParts DEF Parts

LEMMA PutcPollInv ==
  ASSUME ConsoleInv, PutcPoll
  PROVE  ConsoleInv'
<1> USE DEF PutcPoll, lockVars, uartVars
<1>1. QueueTypes /\ LockTypes /\ RestTypes /\ Sleepers /\ OneWaiter /\ RoomToPrint /\ Unprinted
  BY InvParts DEF Parts
<1>2. QueueTypes'
  BY <1>1, GetByteTypes DEF Queue, QueueTypes
<1>3. Sleepers'
  <2>1. ~IntqEmpty("txq")
    <3>1. head["txq"] \in 0 .. BufSize - 1 /\ IntqFull("txq")
      BY <1>1 DEF QueueTypes, RingTypes, Queue, RoomToPrint
    <3> QED
      BY <3>1, NextPosFacts DEF IntqFull, IntqEmpty
  <2> QED
    BY <1>1, <2>1, GetByteSleepers DEF Queue
<1>4. LockTypes' /\ RestTypes'
  BY <1>1 DEF LockTypes, RestTypes, WriteIer, ierVars
<1>5. OneWaiter' /\ Unprinted'
  BY <1>1 DEF OneWaiter, Unprinted
<1>6. RoomToPrint'
  <2>1. IntqFull("txq") /\ tail["txq"] \in 0 .. BufSize - 1
    BY <1>1 DEF RoomToPrint, QueueTypes, RingTypes, Queue
  <2>2. head' = head /\ tail'["txq"] = NextPos(tail["txq"])
    BY <1>1 DEF GetByte, QueueTypes, RingTypes, Queue
  <2>3. NextPos(tail["txq"]) # tail["txq"]
    BY <2>1, NextPosFacts
  <2>4. NextPos(head'["txq"]) = NextPos(head["txq"])
    BY <2>2
  <2> QED
    BY <2>1, <2>2, <2>3, <2>4 DEF RoomToPrint, IntqFull
<1> QED
  BY <1>2, <1>3, <1>4, <1>5, <1>6, InvParts DEF Parts

\* The byte that a thread waited for or found at once: what Finish() and the
\* last branch of WaitAgain() do to the queues.
LEMMA FinishFacts ==
  ASSUME ConsoleInv, NEW t \in Thread, ~Stuck(t), NEW sleeping \in SUBSET blocked,
         Finish(t, sleeping), t \in Writer => printed[t] < MsgLen
  PROVE  /\ QueueTypes' /\ Sleepers'
         /\ pc' \in {pc, [pc EXCEPT ![t] = "run"]}
         /\ t \in Writer => pc' = pc
         /\ printed' \in [Writer -> 0 .. MsgLen]
         /\ \A w \in Writer : w # t => printed'[w] = printed[w]
         /\ xmit_ier' \in BOOLEAN /\ recv_ier' \in BOOLEAN
<1>1. Parts
  BY InvParts
<1>2. sleeping \in SUBSET Thread
  BY <1>1 DEF Parts, QueueTypes
<1>3. xmit_ier' \in BOOLEAN /\ recv_ier' \in BOOLEAN
  BY DEF Finish, WriteIer
<1>4. CASE t \in Reader
  <2>1. t \notin Writer /\ GetByte("buffer", sleeping) /\ pc' = [pc EXCEPT ![t] = "run"]
        /\ UNCHANGED printed /\ ~IntqEmpty("buffer")
    BY <1>4, ConsoleAssumption DEF Finish, Goto, Stuck
  <2>2. \A u \in Thread : pc'[u] = "wait" => pc[u] = "wait"
    BY <1>1, <2>1 DEF Parts, RestTypes
  <2>3. QueueTypes' /\ Sleepers'
    BY <1>1, <1>2, <2>1, <2>2, GetByteTypes, GetByteSleepers DEF Parts, Queue
  <2> QED
    BY <1>1, <1>3, <2>1, <2>3 DEF Parts, RestTypes
<1>5. CASE t \in Writer
  <2>1. t \notin Reader /\ PutByte("txq", <<t, printed[t] + 1>>, sleeping) /\ pc' = pc
        /\ printed' = [printed EXCEPT ![t] = @ + 1] /\ ~IntqFull("txq")
    BY <1>5, ConsoleAssumption DEF Finish, Goto, Stuck
  <2>2. printed[t] \in 0 .. MsgLen /\ printed[t] < MsgLen
    BY <1>1, <1>5 DEF Parts, RestTypes
  <2>3. <<t, printed[t] + 1>> \in ByteOf("txq")
    BY <1>5, <2>2, ConsoleAssumption DEF ByteOf, TxByte
  <2>4. QueueTypes' /\ Sleepers'
    BY <1>1, <1>2, <2>1, <2>3, PutByteTypes, PutByteSleepers DEF Parts, Queue
  <2>5. printed' \in [Writer -> 0 .. MsgLen] /\ \A w \in Writer : w # t => printed'[w] = printed[w]
    BY <1>1, <1>5, <2>1, <2>2, ConsoleAssumption DEF Parts, RestTypes
  <2> QED
    BY <1>3, <1>5, <2>1, <2>4, <2>5
<1> QED
  BY <1>4, <1>5 DEF Thread

\* What is left to show of a thread's step.
LEMMA ThreadFrame ==
  ASSUME Parts, QueueTypes', LockTypes', Sleepers', OneWaiter', Unprinted',
         pc' \in [Thread -> Location], printed' \in [Writer -> 0 .. MsgLen],
         xmit_ier' \in BOOLEAN, recv_ier' \in BOOLEAN, panic' \in BOOLEAN,
         handler = "none", UNCHANGED <<uartVars, handler, prints>>
  PROVE  ConsoleInv'
<1>1. RestTypes'
  BY DEF Parts, RestTypes, uartVars
<1>2. RoomToPrint'
  BY DEF RoomToPrint
<1> QED
  BY <1>1, <1>2, InvParts DEF Parts

\* A step that puts nobody into wait() and leaves the locks of those who are.
LEMMA KeepWaiters ==
  ASSUME OneWaiter,
         \A u \in Thread : pc'[u] = "wait" =>
           pc[u] = "wait" /\ lock_value'[QueueOf(u)] = lock_value[QueueOf(u)]
  PROVE  OneWaiter'
BY DEF OneWaiter, QueueOf

\* The queue's lock was free: nobody is in wait() of the queue.
LEMMA StartWaiting ==
  ASSUME ConsoleInv, NEW t \in Thread, handler = "none", pc[t] # "wait",
         t \in Writer => printed[t] < MsgLen,
         Stuck(t), lock_value[QueueOf(t)] = 1,
         lock_value' = [lock_value EXCEPT ![QueueOf(t)] = 0], Wait(t, blocked),
         UNCHANGED <<lock_waiters, uartVars, handler, prints, panic>>
  PROVE  ConsoleInv'
<1>1. Parts /\ QueueOf(t) \in Lock
  BY InvParts DEF QueueOf, Queue, Lock
<1>2. \A u \in Thread : pc[u] = "wait" => QueueOf(u) # QueueOf(t) /\ lock_value[QueueOf(u)] = 0
  BY <1>1 DEF Parts, OneWaiter
<1>3. QueueTypes' /\ Sleepers' /\ UNCHANGED <<buf, head, tail, printed, ierVars>>
      /\ pc' = [pc EXCEPT ![t] = "wait"]
  BY <1>1, <1>2, WaitSleepers DEF Parts
<1>4. LockTypes'
  BY <1>1 DEF Parts, LockTypes
<1>5. pc' \in [Thread -> Location] /\ \A u \in Thread : u # t => pc'[u] = pc[u]
  BY <1>1, <1>3 DEF Parts, RestTypes, Location
<1>6. lock_value'[QueueOf(t)] = 0 /\ \A l \in Lock : l # QueueOf(t) => lock_value'[l] = lock_value[l]
  BY <1>1 DEF Parts, LockTypes
<1>7. OneWaiter'
  <2> SUFFICES ASSUME NEW u \in Thread, pc'[u] = "wait"
               PROVE  /\ lock_value'[QueueOf(u)] = 0
                      /\ \A v \in Thread : pc'[v] = "wait" /\ QueueOf(v) = QueueOf(u) => v = u
    BY DEF OneWaiter, QueueOf
  <2>1. QueueOf(u) \in Lock
    BY DEF QueueOf, Queue, Lock
  <2>2. CASE u = t
    BY <1>2, <1>5, <1>6, <2>2
  <2>3. CASE u # t
    BY <1>1, <1>2, <1>5, <1>6, <2>1, <2>3 DEF Parts, OneWaiter
  <2> QED
    BY <2>2, <2>3
<1>8. Unprinted'
  BY <1>1, <1>3, <1>5 DEF Parts, Unprinted, Thread
<1> QED
  BY <1>1, <1>3, <1>4, <1>5, <1>7, <1>8, ThreadFrame DEF Parts, RestTypes, ierVars

\* A thread joins the waiters of a lock, or goes on to wait for it.
LEMMA JoinInv ==
  ASSUME ConsoleInv, NEW t \in Thread, handler = "none", pc[t] # "wait",
         t \in Writer => (pc'[t] = "lock" => printed[t] < MsgLen),
         NEW l \in Lock, JoinWaiters(t, l), NEW p \in {"lock", "console"},
         pc' \in {pc, [pc EXCEPT ![t] = p]},
         UNCHANGED <<queueVars, printed, ierVars, uartVars, handler, prints, panic>>
  PROVE  ConsoleInv'
<1>1. Parts
  BY InvParts
<1>2. LockTypes' /\ blocked' \subseteq Thread /\ blocked' = blocked \cup {t}
  BY <1>1, JoinWaitersTypes DEF Parts, QueueTypes
<1>3. QueueTypes'
  BY <1>1, <1>2 DEF Parts, QueueTypes, RingTypes, queueVars
<1>4. pc' \in [Thread -> Location] /\ pc'[t] # "wait"
      /\ \A u \in Thread : u # t => pc'[u] = pc[u]
  BY <1>1 DEF Parts, RestTypes, Location
<1>5. Sleepers'
  <2>1. \A u \in blocked' : pc'[u] = "wait" => u \in blocked /\ pc[u] = "wait"
    BY <1>2, <1>4
  <2> QED
    BY <1>1, <2>1, QuietSleepers DEF Parts
<1>6. OneWaiter'
  BY <1>1, <1>4, KeepWaiters DEF Parts, JoinWaiters
<1>7. Unprinted'
  BY <1>1, <1>4 DEF Parts, Unprinted, Thread
<1> QED
  BY <1>1, <1>2, <1>3, <1>4, <1>5, <1>6, <1>7, ThreadFrame DEF Parts, RestTypes, ierVars

LEMMA CallQueueInv ==
  ASSUME ConsoleInv, NEW t \in Thread, CallQueue(t)
  PROVE  ConsoleInv'
<1> DEFINE q == QueueOf(t)
<1>1. Parts /\ q \in Lock
  BY InvParts DEF QueueOf, Queue, Lock
<1>2. /\ UNCHANGED <<uartVars, handler, prints, panic>> /\ handler = "none"
      /\ t \in Writer => pc[t] = "put" /\ printed[t] < MsgLen
      /\ pc[t] # "wait"
  BY ConsoleAssumption DEF CallQueue, Runs, Thread
<1>3. CASE ~Stuck(t) /\ Finish(t, blocked) /\ UNCHANGED lockVars
  <2>1. /\ QueueTypes' /\ Sleepers'
        /\ pc' \in {pc, [pc EXCEPT ![t] = "run"]}
        /\ printed' \in [Writer -> 0 .. MsgLen]
        /\ \A w \in Writer : w # t => printed'[w] = printed[w]
        /\ xmit_ier' \in BOOLEAN /\ recv_ier' \in BOOLEAN
    BY <1>2, <1>3, FinishFacts
  <2>2. pc' \in [Thread -> Location]
    BY <1>1, <2>1 DEF Parts, RestTypes, Location
  <2>3. \A u \in Thread : pc'[u] \in {"lock", "wait"} => pc'[u] = pc[u]
    BY <1>1, <2>1 DEF Parts, RestTypes
  <2>4. OneWaiter'
    BY <1>1, <1>3, <2>3, KeepWaiters DEF Parts, lockVars
  <2>5. Unprinted'
    BY <1>1, <1>2, <2>1, <2>3 DEF Parts, Unprinted, Thread
  <2>6. LockTypes'
    BY <1>1, <1>3 DEF Parts, LockTypes, lockVars
  <2> QED
    BY <1>1, <1>2, <2>1, <2>2, <2>4, <2>5, <2>6, ThreadFrame DEF Parts, RestTypes
<1>4. CASE Stuck(t) /\ lock_value[q] = 1 /\ lock_value' = [lock_value EXCEPT ![q] = 0]
           /\ Wait(t, blocked) /\ UNCHANGED lock_waiters
  BY <1>2, <1>4, StartWaiting
<1>5. CASE Stuck(t) /\ lock_value[q] = 0 /\ JoinWaiters(t, q) /\ Goto(t, "lock")
           /\ UNCHANGED <<queueVars, printed, ierVars>>
  BY <1>1, <1>2, <1>5, JoinInv DEF Goto
<1> QED
  BY <1>3, <1>4, <1>5 DEF CallQueue

LEMMA LockAgainInv ==
  ASSUME ConsoleInv, NEW t \in Thread, LockAgain(t)
  PROVE  ConsoleInv'
<1> DEFINE q == QueueOf(t)
<1>1. Parts /\ q \in Lock
  BY InvParts DEF QueueOf, Queue, Lock
<1>2. /\ UNCHANGED <<uartVars, handler, prints>> /\ handler = "none" /\ pc[t] = "lock"
      /\ t \in Writer => printed[t] < MsgLen
  BY <1>1 DEF LockAgain, Runs, Parts, Unprinted
<1>3. CASE JoinWaiters(t, q) /\ UNCHANGED <<queueVars, pc, printed, ierVars, panic>>
  BY <1>1, <1>2, <1>3, JoinInv
<1>4. CASE lock_value[q] = 1 /\ Stuck(t) /\ lock_value' = [lock_value EXCEPT ![q] = 0]
           /\ Wait(t, blocked) /\ UNCHANGED <<lock_waiters, panic>>
  BY <1>2, <1>4, StartWaiting
<1>5. CASE lock_value[q] = 1 /\ lock_value' = [lock_value EXCEPT ![q] = 0] /\ panic' = TRUE
           /\ UNCHANGED <<queueVars, lock_waiters, threadVars, ierVars>>
  <2>1. LockTypes' /\ \A l \in Lock : lock_value[l] = 0 => lock_value'[l] = 0
    BY <1>1, <1>5 DEF Parts, LockTypes
  <2>2. QueueTypes'
    BY <1>1, <1>5 DEF Parts, QueueTypes, RingTypes, queueVars, threadVars
  <2>3. Sleepers'
    BY <1>1, <1>5, QuietSleepers DEF Parts, threadVars
  <2>4. OneWaiter'
    BY <1>1, <1>5, <2>1 DEF Parts, OneWaiter, QueueOf, Queue, Lock, threadVars
  <2>5. Unprinted'
    BY <1>1, <1>5 DEF Parts, Unprinted, threadVars
  <2> QED
    BY <1>1, <1>2, <1>5, <2>1, <2>2, <2>3, <2>4, <2>5, ThreadFrame
       DEF Parts, RestTypes, threadVars, ierVars
<1> QED
  BY <1>3, <1>4, <1>5 DEF LockAgain

LEMMA WaitAgainInv ==
  ASSUME ConsoleInv, NEW t \in Thread, WaitAgain(t)
  PROVE  ConsoleInv'
<1> DEFINE q     == QueueOf(t)
           awake == blocked \ FirstWaiter(q)
<1>1. Parts /\ q \in Lock /\ awake \in SUBSET blocked /\ awake \in SUBSET Thread
  BY InvParts DEF QueueOf, Queue, Lock, Parts, QueueTypes
<1>2. /\ UNCHANGED <<uartVars, handler, prints, panic>> /\ handler = "none" /\ pc[t] = "wait"
      /\ t \in Writer => printed[t] < MsgLen
  BY <1>1 DEF WaitAgain, Runs, Parts, Unprinted
<1>3. lock_waiters' \in [Lock -> Seq(Thread)]
  BY <1>1, LeaveWaitersTypes DEF WaitAgain, Parts
<1>4. \A u \in Thread : pc[u] = "wait" /\ QueueOf(u) = QueueOf(t) => u = t
  BY <1>1, <1>2 DEF Parts, OneWaiter
<1>5. ASSUME ~Stuck(t), lock_value' = [lock_value EXCEPT ![q] = 1],
             NEW p \in {"run", "put"}, pc' = [pc EXCEPT ![t] = p],
             QueueTypes', Sleepers', printed' \in [Writer -> 0 .. MsgLen],
             \A w \in Writer : w # t => printed'[w] = printed[w], WriteIer
      PROVE  ConsoleInv'
  <2>1. LockTypes' /\ \A l \in Lock : l # q => lock_value'[l] = lock_value[l]
    BY <1>1, <1>3, <1>5 DEF Parts, LockTypes
  <2>2. pc' \in [Thread -> Location] /\ pc'[t] = p /\ \A u \in Thread : u # t => pc'[u] = pc[u]
    BY <1>1, <1>5 DEF Parts, RestTypes, Location
  <2>3. OneWaiter'
    <3>1. ASSUME NEW u \in Thread, pc'[u] = "wait"
          PROVE  pc[u] = "wait" /\ lock_value'[QueueOf(u)] = lock_value[QueueOf(u)]
      <4>1. u # t /\ pc[u] = "wait"
        BY <2>2, <3>1
      <4>2. QueueOf(u) # q /\ QueueOf(u) \in Lock
        BY <1>4, <4>1 DEF QueueOf, Queue, Lock
      <4> QED
        BY <2>1, <4>1, <4>2
    <3> QED
      BY <1>1, <3>1, KeepWaiters DEF Parts
  <2>4. Unprinted'
    BY <1>1, <1>5, <2>2 DEF Parts, Unprinted, Thread
  <2>5. xmit_ier' \in BOOLEAN /\ recv_ier' \in BOOLEAN
    BY <1>5 DEF WriteIer
  <2> QED
    BY <1>1, <1>2, <1>5, <2>1, <2>2, <2>3, <2>4, <2>5, ThreadFrame DEF Parts, RestTypes
<1>6. CASE ~Stuck(t) /\ lock_value' = [lock_value EXCEPT ![q] = 1] /\ t \in Reader
           /\ Finish(t, awake)
  <2>1. t \notin Writer /\ pc' = [pc EXCEPT ![t] = "run"] /\ WriteIer
    BY <1>6, ConsoleAssumption DEF Finish, Goto
  <2>2. /\ QueueTypes' /\ Sleepers' /\ printed' \in [Writer -> 0 .. MsgLen]
        /\ \A w \in Writer : w # t => printed'[w] = printed[w]
    BY <1>1, <1>2, <1>6, FinishFacts
  <2> QED
    BY <1>5, <1>6, <2>1, <2>2
<1>7. CASE ~Stuck(t) /\ lock_value' = [lock_value EXCEPT ![q] = 1] /\ t \notin Reader
           /\ PutByte(q, <<t, printed[t] + 1>>, awake)
           /\ printed' = [printed EXCEPT ![t] = @ + 1] /\ Goto(t, "put") /\ WriteIer
  <2>1. t \in Writer /\ q = "txq" /\ ~IntqFull("txq") /\ pc' = [pc EXCEPT ![t] = "put"]
    BY <1>7 DEF Thread, QueueOf, Stuck, Goto
  <2>2. printed[t] \in 0 .. MsgLen /\ printed[t] < MsgLen /\ printed \in [Writer -> 0 .. MsgLen]
    BY <1>1, <1>2, <2>1 DEF Parts, RestTypes
  <2>3. <<t, printed[t] + 1>> \in ByteOf("txq")
    BY <2>1, <2>2, ConsoleAssumption DEF ByteOf, TxByte
  <2>4. \A u \in Thread : pc'[u] = "wait" => pc[u] = "wait"
    BY <1>1, <1>2, <2>1 DEF Parts, RestTypes
  <2>5. QueueTypes'
    BY <1>1, <1>7, <2>1, <2>3, PutByteTypes DEF Parts, Queue
  <2>6. Sleepers'
    BY <1>1, <1>7, <2>1, <2>4, PutByteSleepers DEF Parts, Queue
  <2>7. printed' \in [Writer -> 0 .. MsgLen] /\ \A w \in Writer : w # t => printed'[w] = printed[w]
    BY <1>7, <2>1, <2>2, ConsoleAssumption
  <2> QED
    BY <1>5, <1>7, <2>1, <2>5, <2>6, <2>7
<1>8. CASE Stuck(t) /\ Wait(t, awake) /\ UNCHANGED lock_value
  <2>1. QueueTypes' /\ Sleepers' /\ UNCHANGED <<buf, head, tail, printed, ierVars>>
        /\ pc' = [pc EXCEPT ![t] = "wait"]
    BY <1>1, <1>4, <1>8, WaitSleepers DEF Parts
  <2>2. pc' = pc
    BY <1>1, <1>2, <2>1 DEF Parts, RestTypes
  <2>3. LockTypes' /\ OneWaiter' /\ Unprinted'
    BY <1>1, <1>3, <1>8, <2>1, <2>2, KeepWaiters DEF Parts, LockTypes, Unprinted
  <2> QED
    BY <1>1, <1>2, <2>1, <2>2, <2>3, ThreadFrame DEF Parts, RestTypes, ierVars
<1> QED
  BY <1>6, <1>7, <1>8 DEF WaitAgain

\* acquire_console() of a free lock.
LEMMA TakeConsole ==
  ASSUME ConsoleInv, NEW w \in Writer, handler = "none", pc[w] # "wait",
         lock_value' = [lock_value EXCEPT !["console"] = 0], Goto(w, "put"),
         UNCHANGED <<queueVars, lock_waiters, blocked, printed, ierVars, uartVars, handler,
                     prints, panic>>
  PROVE  ConsoleInv'
<1>1. Parts /\ w \in Thread
  BY InvParts DEF Thread
<1>2. LockTypes' /\ \A l \in Queue : lock_value'[l] = lock_value[l]
  BY <1>1 DEF Parts, LockTypes, Lock, Queue
<1>3. pc' \in [Thread -> Location] /\ pc'[w] = "put" /\ \A u \in Thread : u # w => pc'[u] = pc[u]
  BY <1>1 DEF Goto, Parts, RestTypes, Location
<1>4. QueueTypes'
  BY <1>1 DEF Parts, QueueTypes, RingTypes, queueVars
<1>5. Sleepers'
  <2>1. \A u \in blocked' : pc'[u] = "wait" => u \in blocked /\ pc[u] = "wait"
    BY <1>1, <1>3 DEF Parts, QueueTypes
  <2> QED
    BY <1>1, <2>1, QuietSleepers DEF Parts
<1>6. OneWaiter'
  BY <1>1, <1>2, <1>3, KeepWaiters DEF Parts, QueueOf, Queue
<1>7. Unprinted'
  BY <1>1, <1>3 DEF Parts, Unprinted, Thread
<1> QED
  BY <1>1, <1>2, <1>3, <1>4, <1>5, <1>6, <1>7, ThreadFrame DEF Parts, RestTypes, ierVars

LEMMA PutbufInv ==
  ASSUME ConsoleInv, NEW w \in Writer, Putbuf(w) \/ ConsoleAgain(w)
  PROVE  ConsoleInv'
<1>1. w \in Thread /\ "console" \in Lock /\ handler = "none" /\ pc[w] \in {"run", "console"}
      /\ UNCHANGED <<queueVars, printed, ierVars, uartVars, handler, prints, panic>>
  BY DEF Thread, Lock, Putbuf, ConsoleAgain, Runs
<1>2. CASE lock_value' = [lock_value EXCEPT !["console"] = 0] /\ Goto(w, "put")
           /\ UNCHANGED <<lock_waiters, blocked>>
  BY <1>1, <1>2, TakeConsole
<1>3. CASE JoinWaiters(w, "console") /\ pc' \in {pc, [pc EXCEPT ![w] = "console"]}
  <2>1. pc'[w] # "lock"
    BY <1>1, <1>3, InvParts DEF Parts, RestTypes
  <2> QED
    BY <1>1, <1>3, <2>1, JoinInv
<1> QED
  BY <1>2, <1>3 DEF Putbuf, ConsoleAgain, Goto

LEMMA ReleaseConsoleInv ==
  ASSUME ConsoleInv, NEW w \in Writer, ReleaseConsole(w)
  PROVE  ConsoleInv'
<1>1. Parts /\ w \in Thread /\ "console" \in Lock /\ handler = "none" /\ pc[w] = "put"
      /\ UNCHANGED <<queueVars, ierVars, uartVars, handler, prints, panic>>
  BY InvParts DEF Thread, Lock, ReleaseConsole, Runs
<1>2. lock_waiters' \in [Lock -> Seq(Thread)]
  BY <1>1, LeaveWaitersTypes DEF ReleaseConsole, Parts
<1>3. LockTypes' /\ \A l \in Queue : lock_value'[l] = lock_value[l]
  BY <1>1, <1>2 DEF ReleaseConsole, Parts, LockTypes, Lock, Queue
<1>4. pc' \in [Thread -> Location] /\ pc'[w] = "run" /\ \A u \in Thread : u # w => pc'[u] = pc[u]
  BY <1>1 DEF ReleaseConsole, Goto, Parts, RestTypes, Location
<1>5. QueueTypes' /\ blocked' \subseteq blocked
  BY <1>1 DEF ReleaseConsole, Parts, QueueTypes, RingTypes, queueVars
<1>6. Sleepers'
  <2>1. \A u \in blocked' : pc'[u] = "wait" => u \in blocked /\ pc[u] = "wait"
    BY <1>1, <1>4, <1>5 DEF Parts, QueueTypes
  <2> QED
    BY <1>1, <2>1, QuietSleepers DEF Parts
<1>7. OneWaiter'
  BY <1>1, <1>3, <1>4, KeepWaiters DEF Parts, QueueOf, Queue
<1>8. printed' \in [Writer -> 0 .. MsgLen] /\ \A u \in Writer : u # w => printed'[u] = printed[u]
  BY <1>1, ConsoleAssumption DEF ReleaseConsole, Parts, RestTypes
<1>9. Unprinted'
  BY <1>1, <1>4, <1>8 DEF Parts, Unprinted, Thread
<1> QED
  BY <1>1, <1>3, <1>4, <1>5, <1>6, <1>7, <1>8, <1>9, ThreadFrame DEF Parts, RestTypes, ierVars

-----------------------------------------------------------------------------
(* The invariant *)

\* Every step keeps the invariant.
LEMMA NextInv == ConsoleInv /\ [Next]_vars => ConsoleInv'
<1> SUFFICES ASSUME ConsoleInv, [Next]_vars PROVE ConsoleInv'
  OBVIOUS
<1>1. ASSUME NEW t \in Thread, ThreadStep(t) PROVE ConsoleInv'
  BY <1>1, CallQueueInv, LockAgainInv, WaitAgainInv, PutbufInv, ReleaseConsoleInv DEF ThreadStep
<1>2. CASE SerialInterrupt \/ KeyboardInterrupt \/ UnexpectedInterrupt \/ Shifted \/ Arrive
  BY <1>2, SerialInterruptInv, KeyboardInterruptInv, UnexpectedInterruptInv, ShiftedInv, ArriveInv
<1>3. CASE HandlerStep
  BY <1>3, ReceiveInv, ReceiveDoneInv, TransmitInv, TransmitDoneInv, PutcPollInv, PutcIntrInv
     DEF HandlerStep
<1>4. CASE UNCHANGED vars
  <2>1. Parts /\ UNCHANGED queueVars /\ UNCHANGED lockVars /\ UNCHANGED threadVars
        /\ UNCHANGED ierVars /\ UNCHANGED uartVars /\ UNCHANGED <<handler, prints, panic>>
    BY <1>4, InvParts DEF vars
  <2>2. QueueTypes' /\ LockTypes' /\ RestTypes'
    BY <2>1 DEF Parts, QueueTypes, RingTypes, LockTypes, RestTypes, queueVars, lockVars,
       threadVars, ierVars, uartVars
  <2>3. Sleepers' /\ OneWaiter' /\ Unprinted'
    BY <2>1, QuietSleepers DEF Parts, OneWaiter, Unprinted, lockVars, threadVars, queueVars
  <2>4. RoomToPrint'
    BY <2>1 DEF Parts, RoomToPrint, IntqFull, NextPos, queueVars
  <2> QED
    BY <2>2, <2>3, <2>4, InvParts DEF Parts
<1> QED
  BY <1>1, <1>2, <1>3, <1>4 DEF Next

(***************************************************************************)
(* The inductive invariant holds of every console: any number of threads,  *)
(* any size of queue and any length of message.                            *)
(***************************************************************************)
THEOREM ConsoleInvariant == Spec => []ConsoleInv
<1>1. Init => ConsoleInv
  BY InitInv
<1>2. ConsoleInv /\ [Next]_vars => ConsoleInv'
  BY NextInv
<1> QED
  BY <1>1, <1>2, PTL DEF Spec

(***************************************************************************)
(* No lost wake-up: signal() in devices/intq.c wakes whoever sleeps, when  *)
(* what it sleeps for happens, from a thread or from a handler.            *)
(***************************************************************************)
THEOREM NoSleeperForgotten == Spec => []SleeperStuck
<1>1. ConsoleInv => SleeperStuck
  BY DEF ConsoleInv
<1> QED
  BY <1>1, ConsoleInvariant, PTL

-----------------------------------------------------------------------------
(* The interrupt enable bits *)

\* write_ier() sets them to what the queues call for.
LEMMA WriteIerFresh == WriteIer => IerFresh'
BY DEF WriteIer, IerFresh, IntqEmpty, IntqFull, NextPos

LEMMA KeepIerFresh ==
  ASSUME IerFresh, UNCHANGED <<head, tail, ierVars>>, handler' = "none" => handler = "none"
  PROVE  IerFresh'
BY DEF IerFresh, IntqEmpty, IntqFull, NextPos, ierVars

\* A thread changes a queue and the bits in one step, or neither.
LEMMA ThreadStepIer ==
  ASSUME IerFresh, NEW t \in Thread, ThreadStep(t)
  PROVE  IerFresh'
<1>1. handler' = handler
  BY DEF ThreadStep, CallQueue, LockAgain, WaitAgain, Putbuf, ConsoleAgain, ReleaseConsole
<1>2. CASE CallQueue(t)
  BY <1>1, <1>2, WriteIerFresh, KeepIerFresh DEF CallQueue, Finish, Wait, queueVars
<1>3. CASE LockAgain(t)
  BY <1>1, <1>3, KeepIerFresh DEF LockAgain, Wait, queueVars
<1>4. CASE WaitAgain(t)
  BY <1>1, <1>4, WriteIerFresh, KeepIerFresh DEF WaitAgain, Finish, Wait
<1>5. CASE Putbuf(t) \/ ConsoleAgain(t) \/ ReleaseConsole(t)
  BY <1>1, <1>5, KeepIerFresh DEF Putbuf, ConsoleAgain, ReleaseConsole, queueVars
<1> QED
  BY <1>2, <1>3, <1>4, <1>5 DEF ThreadStep

LEMMA NextIer == IerFresh /\ [Next]_vars => IerFresh'
<1> SUFFICES ASSUME IerFresh, [Next]_vars PROVE IerFresh'
  OBVIOUS
<1>1. CASE Receive
  BY <1>1, WriteIerFresh DEF Receive
<1>2. CASE ReceiveDone
  BY <1>2, KeepIerFresh DEF ReceiveDone, queueVars
<1>3. CASE Transmit \/ PutcPoll
  <2>1. handler' # "none"
    BY <1>3 DEF Transmit, PutcPoll
  <2> QED
    BY <2>1 DEF IerFresh
<1>4. CASE TransmitDone
  BY <1>4, WriteIerFresh DEF TransmitDone
<1>5. CASE PutcIntr \/ KeyboardInterrupt
  BY <1>5, WriteIerFresh DEF PutcIntr, KeyboardInterrupt
<1>6. CASE SerialInterrupt \/ UnexpectedInterrupt
  <2>1. handler' # "none"
    BY <1>6 DEF SerialInterrupt, UnexpectedInterrupt
  <2> QED
    BY <2>1 DEF IerFresh
<1>7. CASE Shifted \/ Arrive
  BY <1>7, KeepIerFresh DEF Shifted, Arrive, queueVars
<1>8. CASE UNCHANGED vars
  BY <1>8, KeepIerFresh DEF vars, queueVars
<1> QED
  BY <1>1, <1>2, <1>3, <1>4, <1>5, <1>6, <1>7, <1>8, ThreadStepIer DEF Next, HandlerStep

(***************************************************************************)
(* Whenever no handler runs, the port's enable bits say what the queues    *)
(* need: every function of devices/serial.c that changes one calls         *)
(* write_ier() before interrupts come on.                                  *)
(***************************************************************************)
THEOREM PortIsTold == Spec => []IerFresh
<1>1. Init => IerFresh
  <2> SUFFICES ASSUME Init PROVE IerFresh
    OBVIOUS
  <2>1. head["txq"] = 0 /\ tail["txq"] = 0 /\ head["buffer"] = 0 /\ tail["buffer"] = 0
    BY DEF Init, Queue
  <2>2. IntqEmpty("txq")
    BY <2>1 DEF IntqEmpty
  <2>3. ~IntqFull("buffer")
    BY <2>1, NextPosFacts, ConsoleAssumption DEF IntqFull
  <2> QED
    BY <2>2, <2>3 DEF Init, IerFresh
<1>2. IerFresh /\ [Next]_vars => IerFresh'
  BY NextIer
<1> QED
  BY <1>1, <1>2, PTL DEF Spec

-----------------------------------------------------------------------------
(* The rings are queues *)

\* Places in the ring without %.
Cell(x) == IF x >= BufSize THEN x - BufSize ELSE IF x < 0 THEN x + BufSize ELSE x

LEMMA CellFacts ==
  ASSUME NEW x \in -BufSize .. 2 * BufSize - 1
  PROVE  x % BufSize = Cell(x) /\ Cell(x) \in 0 .. BufSize - 1
<1>1. CASE x < 0
  BY <1>1, ConsoleAssumption DEF Cell
<1>2. CASE x \in 0 .. BufSize - 1
  BY <1>2, ConsoleAssumption DEF Cell
<1>3. CASE x >= BufSize
  BY <1>3, ConsoleAssumption DEF Cell
<1> QED
  BY <1>1, <1>2, <1>3, ConsoleAssumption

LEMMA NextPosCell ==
  ASSUME NEW pos \in 0 .. BufSize - 1
  PROVE  NextPos(pos) = Cell(pos + 1)
BY CellFacts, ConsoleAssumption DEF NextPos

\* Contents is a sequence; its length and its elements.
ContentsShape ==
  \A q \in Queue :
    /\ Contents(q) \in Seq(ByteOf(q) \cup {NoByte})
    /\ Len(Contents(q)) = Cell(head[q] - tail[q])
    /\ Cell(head[q] - tail[q]) \in 0 .. BufSize - 1
    /\ \A i \in 1 .. Cell(head[q] - tail[q]) :
         /\ Contents(q)[i] = buf[q][Cell(tail[q] + i - 1)]
         /\ Cell(tail[q] + i - 1) \in 0 .. BufSize - 1

LEMMA ContentsFacts == RingTypes => ContentsShape
<1> SUFFICES ASSUME RingTypes, NEW q \in Queue
             PROVE  /\ Contents(q) \in Seq(ByteOf(q) \cup {NoByte})
                    /\ Len(Contents(q)) = Cell(head[q] - tail[q])
                    /\ Cell(head[q] - tail[q]) \in 0 .. BufSize - 1
                    /\ \A i \in 1 .. Cell(head[q] - tail[q]) :
                         /\ Contents(q)[i] = buf[q][Cell(tail[q] + i - 1)]
                         /\ Cell(tail[q] + i - 1) \in 0 .. BufSize - 1
  BY DEF ContentsShape
<1> DEFINE h == head[q]
           t == tail[q]
           d == Cell(h - t)
           S == ByteOf(q) \cup {NoByte}
<1>1. h \in 0 .. BufSize - 1 /\ t \in 0 .. BufSize - 1
  BY DEF RingTypes
<1>2. (h - t) % BufSize = d /\ d \in 0 .. BufSize - 1
  BY <1>1, CellFacts, ConsoleAssumption
<1> HIDE DEF h, t, d
<1>3. ASSUME NEW i \in 1 .. d
      PROVE  /\ (t + i - 1) % BufSize = Cell(t + i - 1)
             /\ Cell(t + i - 1) \in 0 .. BufSize - 1
             /\ buf[q][Cell(t + i - 1)] \in S
  <2>1. t + i - 1 \in -BufSize .. 2 * BufSize - 1
    BY <1>1, <1>2, ConsoleAssumption
  <2>2. (t + i - 1) % BufSize = Cell(t + i - 1) /\ Cell(t + i - 1) \in 0 .. BufSize - 1
    BY <2>1, CellFacts
  <2> QED
    BY <2>2 DEF RingTypes
<1>4. Contents(q) = [i \in 1 .. d |-> buf[q][(t + i - 1) % BufSize]]
  BY <1>2 DEF Contents, h, t
<1>5. Contents(q) \in [1 .. d -> S]
  BY <1>3, <1>4
<1>6. Contents(q) \in Seq(S) /\ Len(Contents(q)) = d
  BY <1>2, <1>5
<1> QED
  BY <1>2, <1>3, <1>4, <1>6 DEF h, t, d

LEMMA ContentsFactsNext == RingTypes' => ContentsShape'
BY ContentsFacts, PTL

\* A byte stored where there is room is appended.
LEMMA PutContents ==
  ASSUME RingTypes, RingTypes', NEW q \in Queue, NEW b \in ByteOf(q), NEW sleeping,
         PutByte(q, b, sleeping), ~IntqFull(q)
  PROVE  Contents(q)' = Append(Contents(q), b) /\ Len(Contents(q)) < BufSize - 1
<1> DEFINE h  == head[q]
           t  == tail[q]
           h2 == head'[q]
           t2 == tail'[q]
           d  == Cell(h - t)
           d2 == Cell(h2 - t)
           c  == Contents(q)
           c2 == Contents(q)'
           S  == ByteOf(q) \cup {NoByte}
<1>1. /\ h \in 0 .. BufSize - 1 /\ t \in 0 .. BufSize - 1
      /\ h2 = Cell(h + 1) /\ h2 # t /\ t2 = t
      /\ buf'[q] = [buf[q] EXCEPT ![h] = b] /\ buf[q] \in [0 .. BufSize - 1 -> S]
  BY NextPosCell DEF RingTypes, PutByte, IntqFull
<1>2. /\ c \in Seq(S) /\ Len(c) = d /\ d \in 0 .. BufSize - 1
      /\ \A i \in 1 .. d : c[i] = buf[q][Cell(t + i - 1)] /\ Cell(t + i - 1) \in 0 .. BufSize - 1
  BY ContentsFacts DEF ContentsShape
<1>3. /\ c2 \in Seq(S) /\ Len(c2) = Cell(h2 - t2)
      /\ \A i \in 1 .. Cell(h2 - t2) : c2[i] = buf'[q][Cell(t2 + i - 1)]
  BY ContentsFactsNext DEF ContentsShape
<1> HIDE DEF h, t, h2, t2, c, c2, S
<1>4. d2 = d + 1 /\ d < BufSize - 1 /\ Cell(t + d) = h
  <2>1. h \in 0 .. BufSize - 1 /\ t \in 0 .. BufSize - 1 /\ h2 = Cell(h + 1) /\ h2 # t
        /\ BufSize \in Nat
    BY <1>1, ConsoleAssumption
  <2> QED
    BY <2>1 DEF Cell
<1>5. \A i \in 1 .. d : Cell(t + i - 1) # h
  <2>1. h \in 0 .. BufSize - 1 /\ t \in 0 .. BufSize - 1 /\ BufSize \in Nat
    BY <1>1, ConsoleAssumption
  <2> QED
    BY <2>1 DEF Cell
<1>6. /\ Append(c, b) \in Seq(S) /\ Len(Append(c, b)) = d + 1
      /\ Append(c, b)[d + 1] = b /\ \A i \in 1 .. d : Append(c, b)[i] = c[i]
  BY <1>2 DEF S
<1>7. ASSUME NEW i \in 1 .. d + 1
      PROVE  c2[i] = Append(c, b)[i]
  <2>1. CASE i \in 1 .. d
    <3>1. c[i] = buf[q][Cell(t + i - 1)] /\ Cell(t + i - 1) \in 0 .. BufSize - 1
      BY <1>2, <2>1
    <3>2. c2[i] = buf'[q][Cell(t + i - 1)]
      BY <1>1, <1>3, <1>4
    <3> QED
      BY <1>1, <1>5, <1>6, <2>1, <3>1, <3>2
  <2>2. CASE i = d + 1
    <3>1. t + i - 1 = t + d /\ i \in 1 .. d2
      BY <1>1, <1>2, <1>4, <2>2
    <3>2. c2[i] = buf'[q][h]
      BY <1>1, <1>3, <1>4, <3>1
    <3> QED
      BY <1>1, <1>6, <2>2, <3>2
  <2> QED
    BY <2>1, <2>2, <1>2
<1>8. c2 = Append(c, b)
  BY <1>1, <1>3, <1>4, <1>6, <1>7, SeqEqual
<1> QED
  BY <1>2, <1>4, <1>8 DEF c, c2

\* A byte taken is the oldest.
LEMMA GetContents ==
  ASSUME RingTypes, RingTypes', NEW q \in Queue, NEW sleeping, GetByte(q, sleeping), ~IntqEmpty(q)
  PROVE  Contents(q) # <<>> /\ Contents(q)' = Tail(Contents(q))
<1> DEFINE h  == head[q]
           t  == tail[q]
           t2 == tail'[q]
           d  == Cell(h - t)
           d2 == Cell(h - t2)
           c  == Contents(q)
           c2 == Contents(q)'
           S  == ByteOf(q) \cup {NoByte}
<1>1. /\ h \in 0 .. BufSize - 1 /\ t \in 0 .. BufSize - 1
      /\ t2 = Cell(t + 1) /\ h # t /\ head'[q] = h
      /\ buf'[q] = [buf[q] EXCEPT ![t] = NoByte] /\ buf[q] \in [0 .. BufSize - 1 -> S]
  BY NextPosCell DEF RingTypes, GetByte, IntqEmpty
<1>2. /\ c \in Seq(S) /\ Len(c) = d /\ d \in 0 .. BufSize - 1
      /\ \A i \in 1 .. d : c[i] = buf[q][Cell(t + i - 1)] /\ Cell(t + i - 1) \in 0 .. BufSize - 1
  BY ContentsFacts DEF ContentsShape
<1>3. /\ c2 \in Seq(S) /\ Len(c2) = d2
      /\ \A i \in 1 .. d2 : c2[i] = buf'[q][Cell(t2 + i - 1)]
  BY ContentsFactsNext, <1>1 DEF ContentsShape
<1> HIDE DEF h, t, t2, c, c2, S
<1>4. d2 = d - 1 /\ d >= 1
  BY <1>1, <1>2, ConsoleAssumption, SMTT(40) DEF Cell
<1>5. ASSUME NEW i \in 1 .. d - 1
      PROVE  Cell(t2 + i - 1) = Cell(t + i) /\ Cell(t + i) # t
  <2>1. i < BufSize - 1 /\ t \in 0 .. BufSize - 1 /\ BufSize \in Nat /\ t2 = Cell(t + 1)
    BY <1>1, <1>2, ConsoleAssumption
  <2>2. CASE t + 1 < BufSize
    <3>1. t2 + i - 1 = t + i
      BY <2>1, <2>2 DEF Cell
    <3> QED
      BY <2>1, <3>1 DEF Cell
  <2>3. CASE t + 1 = BufSize
    <3>1. t2 = 0 /\ t2 + i - 1 = i - 1 /\ t + i = BufSize + i - 1
      BY <2>1, <2>3 DEF Cell
    <3> QED
      BY <2>1, <2>3, <3>1 DEF Cell
  <2> QED
    BY <2>1, <2>2, <2>3
<1>6. /\ c # <<>> /\ Tail(c) \in Seq(S) /\ Len(Tail(c)) = d - 1
      /\ \A i \in 1 .. d - 1 : Tail(c)[i] = c[i + 1]
  BY <1>2, <1>4
<1>7. ASSUME NEW i \in 1 .. d - 1
      PROVE  c2[i] = Tail(c)[i]
  <2>1. c[i + 1] = buf[q][Cell(t + i)] /\ Cell(t + i) \in 0 .. BufSize - 1
    <3>1. i + 1 \in 1 .. d /\ t + (i + 1) - 1 = t + i
      BY <1>1, <1>2
    <3> QED
      BY <1>2, <3>1
  <2>2. c2[i] = buf'[q][Cell(t + i)]
    BY <1>3, <1>4, <1>5
  <2> QED
    BY <1>1, <1>5, <1>6, <2>1, <2>2
<1>8. c2 = Tail(c)
  BY <1>1, <1>3, <1>4, <1>6, <1>7, SeqEqual
<1> QED
  BY <1>6, <1>8 DEF c, c2

\* What a step does to a ring, as ByteQueue has it.
QueueStep(q) ==
  \/ \E b \in ByteOf(q) : Len(Contents(q)) < BufSize - 1 /\ Contents(q)' = Append(Contents(q), b)
  \/ Contents(q) # <<>> /\ Contents(q)' = Tail(Contents(q))
  \/ UNCHANGED Contents(q)

LEMMA PutQueueStep ==
  ASSUME RingTypes, RingTypes', NEW q \in Queue, NEW b \in ByteOf(q), NEW sleeping,
         PutByte(q, b, sleeping), ~IntqFull(q), NEW r \in Queue
  PROVE  QueueStep(r)
<1>1. CASE r = q
  BY <1>1, PutContents DEF QueueStep
<1>2. CASE r # q
  <2>1. buf'[r] = buf[r] /\ head'[r] = head[r] /\ tail'[r] = tail[r]
    BY <1>2 DEF PutByte, RingTypes
  <2> QED
    BY <2>1 DEF QueueStep, Contents
<1> QED
  BY <1>1, <1>2

LEMMA GetQueueStep ==
  ASSUME RingTypes, RingTypes', NEW q \in Queue, NEW sleeping,
         GetByte(q, sleeping), ~IntqEmpty(q), NEW r \in Queue
  PROVE  QueueStep(r)
<1>1. CASE r = q
  BY <1>1, GetContents DEF QueueStep
<1>2. CASE r # q
  <2>1. buf'[r] = buf[r] /\ head'[r] = head[r] /\ tail'[r] = tail[r]
    BY <1>2 DEF GetByte, RingTypes
  <2> QED
    BY <2>1 DEF QueueStep, Contents
<1> QED
  BY <1>1, <1>2

LEMMA KeepQueueStep ==
  ASSUME UNCHANGED <<buf, head, tail>>, NEW r \in Queue
  PROVE  QueueStep(r)
BY DEF QueueStep, Contents

\* A thread's step, with what the invariant says of a writer that goes on.
LEMMA ThreadStepQueue ==
  ASSUME ConsoleInv, ConsoleInv', NEW t \in Thread, ThreadStep(t), NEW r \in Queue
  PROVE  QueueStep(r)
<1>1. Parts /\ RingTypes /\ RingTypes'
  BY InvParts DEF Parts, QueueTypes
<1>2. ASSUME t \in Writer, printed[t] < MsgLen, ~IntqFull("txq"), NEW sleeping,
             PutByte("txq", <<t, printed[t] + 1>>, sleeping)
      PROVE  QueueStep(r)
  <2>1. <<t, printed[t] + 1>> \in ByteOf("txq")
    BY <1>1, <1>2, ConsoleAssumption DEF Parts, RestTypes, ByteOf, TxByte
  <2> QED
    BY <1>1, <1>2, <2>1, PutQueueStep DEF Queue
<1>3. ASSUME NEW sleeping, Finish(t, sleeping), ~Stuck(t), t \in Writer => printed[t] < MsgLen
      PROVE  QueueStep(r)
  <2>1. CASE t \in Reader
    <3>1. GetByte("buffer", sleeping) /\ ~IntqEmpty("buffer")
      BY <1>3, <2>1, ConsoleAssumption DEF Finish, Stuck
    <3> QED
      BY <1>1, <3>1, GetQueueStep DEF Queue
  <2>2. CASE t \in Writer
    <3>1. PutByte("txq", <<t, printed[t] + 1>>, sleeping) /\ ~IntqFull("txq")
      BY <1>3, <2>2, ConsoleAssumption DEF Finish, Stuck
    <3> QED
      BY <1>2, <1>3, <2>2, <3>1
  <2> QED
    BY <2>1, <2>2 DEF Thread
<1>4. ASSUME NEW sleeping, Wait(t, sleeping)
      PROVE  QueueStep(r)
  BY <1>4, KeepQueueStep DEF Wait
<1>5. ASSUME UNCHANGED queueVars
      PROVE  QueueStep(r)
  BY <1>5, KeepQueueStep DEF queueVars
<1>6. CASE CallQueue(t)
  <2>1. t \in Writer => printed[t] < MsgLen
    BY <1>6, ConsoleAssumption DEF CallQueue
  <2> QED
    BY <1>3, <1>4, <1>5, <1>6, <2>1 DEF CallQueue
<1>7. CASE LockAgain(t)
  BY <1>4, <1>5, <1>7 DEF LockAgain
<1>8. CASE WaitAgain(t)
  <2>1. t \in Writer => printed[t] < MsgLen
    BY <1>1, <1>8 DEF WaitAgain, Parts, Unprinted
  <2>2. CASE Stuck(t)
    BY <1>4, <1>8, <2>2 DEF WaitAgain
  <2>3. CASE ~Stuck(t) /\ t \in Reader
    BY <1>3, <1>8, <2>1, <2>3, ConsoleAssumption DEF WaitAgain
  <2>4. CASE ~Stuck(t) /\ t \notin Reader
    <3>1. t \in Writer /\ QueueOf(t) = "txq" /\ ~IntqFull("txq")
      BY <2>4 DEF Thread, QueueOf, Stuck
    <3> QED
      BY <1>2, <1>8, <2>1, <2>4, <3>1 DEF WaitAgain
  <2> QED
    BY <2>2, <2>3, <2>4
<1>9. CASE Putbuf(t) \/ ConsoleAgain(t) \/ ReleaseConsole(t)
  BY <1>5, <1>9 DEF Putbuf, ConsoleAgain, ReleaseConsole
<1> QED
  BY <1>6, <1>7, <1>8, <1>9 DEF ThreadStep

LEMMA StepQueue == ConsoleInv /\ ConsoleInv' /\ [Next]_vars => \A r \in Queue : QueueStep(r)
<1> SUFFICES ASSUME ConsoleInv, ConsoleInv', [Next]_vars, NEW r \in Queue PROVE QueueStep(r)
  OBVIOUS
<1>1. Parts /\ RingTypes /\ RingTypes' /\ "txq" \in Queue /\ "buffer" \in Queue
  BY InvParts DEF Parts, QueueTypes, Queue
<1>2. CASE Receive
  <2>1. rbr \in ByteOf("buffer")
    BY <1>1, <1>2 DEF Receive, Parts, RestTypes, ByteOf
  <2> QED
    BY <1>1, <1>2, <2>1, PutQueueStep DEF Receive
<1>3. CASE KeyboardInterrupt
  BY <1>1, <1>3, PutQueueStep DEF KeyboardInterrupt, ByteOf
<1>4. CASE PutcIntr
  <2>1. Intr \in ByteOf("txq") /\ ~IntqFull("txq")
    BY <1>1, <1>4 DEF PutcIntr, Parts, RoomToPrint, ByteOf, TxByte
  <2> QED
    BY <1>1, <1>4, <2>1, PutQueueStep DEF PutcIntr
<1>5. CASE Transmit
  BY <1>1, <1>5, GetQueueStep DEF Transmit
<1>6. CASE PutcPoll
  <2>1. IntqFull("txq") /\ head["txq"] \in 0 .. BufSize - 1
    BY <1>1, <1>6 DEF PutcPoll, Parts, RoomToPrint, RingTypes
  <2>2. ~IntqEmpty("txq")
    BY <2>1, NextPosFacts DEF IntqFull, IntqEmpty
  <2> QED
    BY <1>1, <1>6, <2>2, GetQueueStep DEF PutcPoll
<1>7. CASE ReceiveDone \/ TransmitDone \/ SerialInterrupt \/ UnexpectedInterrupt \/ Shifted
           \/ Arrive \/ UNCHANGED vars
  BY <1>7, KeepQueueStep DEF ReceiveDone, TransmitDone, SerialInterrupt, UnexpectedInterrupt,
     Shifted, Arrive, vars, queueVars
<1> QED
  BY <1>2, <1>3, <1>4, <1>5, <1>6, <1>7, ThreadStepQueue DEF Next, HandlerStep

LEMMA EmptyAtFirst == Init => Contents("txq") = <<>> /\ Contents("buffer") = <<>>
<1> SUFFICES ASSUME Init, NEW q \in Queue PROVE Contents(q) = <<>>
  BY DEF Queue
<1>1. RingTypes
  BY InitInv, InvParts DEF Parts, QueueTypes
<1>2. head[q] = 0 /\ tail[q] = 0
  BY DEF Init
<1>3. Cell(head[q] - tail[q]) = 0
  BY <1>2, ConsoleAssumption DEF Cell
<1> QED
  BY <1>1, <1>3, ContentsFacts, EmptySeq DEF ContentsShape

(***************************************************************************)
(* Whatever threads and handlers do to the rings at the same time, each    *)
(* is a bounded queue: no byte is lost, repeated or overtaken.             *)
(***************************************************************************)
THEOREM RingsAreQueues == Spec => QueuesKeepBytes
<1>1. Init => Tx!Init /\ In!Init
  BY EmptyAtFirst DEF Tx!Init, In!Init
<1>2. ConsoleInv /\ ConsoleInv' /\ [Next]_vars => [Tx!Put \/ Tx!Get]_(Contents("txq"))
  <2> SUFFICES ASSUME ConsoleInv, ConsoleInv', [Next]_vars
               PROVE  [Tx!Put \/ Tx!Get]_(Contents("txq"))
    OBVIOUS
  <2>1. QueueStep("txq")
    BY StepQueue DEF Queue
  <2> QED
    BY <2>1 DEF QueueStep, ByteOf, Tx!Put, Tx!Get
<1>3. ConsoleInv /\ ConsoleInv' /\ [Next]_vars => [In!Put \/ In!Get]_(Contents("buffer"))
  <2> SUFFICES ASSUME ConsoleInv, ConsoleInv', [Next]_vars
               PROVE  [In!Put \/ In!Get]_(Contents("buffer"))
    OBVIOUS
  <2>1. QueueStep("buffer")
    BY StepQueue DEF Queue
  <2> QED
    BY <2>1 DEF QueueStep, ByteOf, In!Put, In!Get
<1> QED
  BY <1>1, <1>2, <1>3, ConsoleInvariant, PTL DEF Spec, QueuesKeepBytes, Tx!Spec, In!Spec

-----------------------------------------------------------------------------
(* Messages *)

\* Taking the oldest byte of a queue takes nothing from what Whole and
\* LastContinued say of the others.
LEMMA TailWhole ==
  ASSUME NEW S, NEW s \in Seq(S), s # <<>>, Whole(s)
  PROVE  Whole(Tail(s))
<1> DEFINE u == Tail(s)
<1>1. /\ u \in Seq(S) /\ Len(u) = Len(s) - 1 /\ Len(s) \in Nat \ {0}
      /\ \A i \in 1 .. Len(u) : u[i] = s[i + 1]
  OBVIOUS
<1> HIDE DEF u
<1> SUFFICES ASSUME NEW i \in DOMAIN u, NEW j \in DOMAIN u, i < j, IsOut(u[i]), IsOut(u[j]),
                    \A k \in i + 1 .. j - 1 : ~IsOut(u[k])
             PROVE  Follows(u[i], u[j])
  BY DEF Whole, u
<1>2. /\ i \in 1 .. Len(u) /\ j \in 1 .. Len(u) /\ u[i] = s[i + 1] /\ u[j] = s[j + 1]
      /\ i + 1 \in DOMAIN s /\ j + 1 \in DOMAIN s /\ i + 1 < j + 1
  BY <1>1
<1>3. ASSUME NEW k \in (i + 1) + 1 .. (j + 1) - 1
      PROVE  ~IsOut(s[k])
  <2>1. k \in Int /\ i \in 1 .. Len(u) /\ j \in 1 .. Len(u) /\ Len(u) \in Nat
        /\ k >= (i + 1) + 1 /\ k <= (j + 1) - 1
    BY <1>2, <1>1
  <2>2. k - 1 \in i + 1 .. j - 1 /\ k - 1 \in 1 .. Len(u) /\ (k - 1) + 1 = k
    BY ONLY <2>1
  <2> QED
    BY <1>1, <2>2
<1>4. \A a, b \in DOMAIN s : (a < b /\ IsOut(s[a]) /\ IsOut(s[b])
                              /\ \A k \in a + 1 .. b - 1 : ~IsOut(s[k])) => Follows(s[a], s[b])
  BY DEF Whole
<1>5. IsOut(s[i + 1]) /\ IsOut(s[j + 1])
  BY <1>2
<1>6. Follows(s[i + 1], s[j + 1])
  BY <1>2, <1>3, <1>4, <1>5
<1> QED
  BY <1>2, <1>6

LEMMA TailContinued ==
  ASSUME NEW S, NEW s \in Seq(S), NEW done, s # <<>>, LastContinued(s, done)
  PROVE  LastContinued(Tail(s), done)
<1> DEFINE u == Tail(s)
<1>1. /\ u \in Seq(S) /\ Len(u) = Len(s) - 1 /\ Len(s) \in Nat \ {0}
      /\ \A i \in 1 .. Len(u) : u[i] = s[i + 1]
  OBVIOUS
<1> HIDE DEF u
<1> SUFFICES ASSUME NEW i \in DOMAIN u, IsOut(u[i]), \A k \in i + 1 .. Len(u) : ~IsOut(u[k])
             PROVE  Continued(u[i], done)
  BY DEF LastContinued, u
<1>2. i \in 1 .. Len(u) /\ u[i] = s[i + 1] /\ i + 1 \in DOMAIN s
  BY <1>1
<1>3. ASSUME NEW k \in (i + 1) + 1 .. Len(s)
      PROVE  ~IsOut(s[k])
  <2>1. k - 1 \in i + 1 .. Len(u) /\ k - 1 \in 1 .. Len(u) /\ (k - 1) + 1 = k
    BY <1>2, <1>1
  <2> QED
    BY <1>1, <2>1
<1> QED
  BY <1>2, <1>3 DEF LastContinued

\* A byte that handlers print changes nothing for the others.
LEMMA AppendIntr ==
  ASSUME NEW S, NEW s \in Seq(S), NEW done, NEW b \in S, ~IsOut(b), Whole(s), LastContinued(s, done)
  PROVE  Whole(Append(s, b)) /\ LastContinued(Append(s, b), done)
<1> DEFINE u == Append(s, b)
<1>1. /\ u \in Seq(S) /\ Len(u) = Len(s) + 1 /\ Len(s) \in Nat
      /\ u[Len(s) + 1] = b /\ \A i \in 1 .. Len(s) : u[i] = s[i]
      /\ DOMAIN s = 1 .. Len(s) /\ DOMAIN u = 1 .. Len(s) + 1
  OBVIOUS
<1> HIDE DEF u
<1>2. ASSUME NEW i \in DOMAIN u, IsOut(u[i])
      PROVE  i \in 1 .. Len(s)
  BY <1>1, <1>2
<1>3. Whole(u)
  <2> SUFFICES ASSUME NEW i \in DOMAIN u, NEW j \in DOMAIN u, i < j, IsOut(u[i]), IsOut(u[j]),
                      \A k \in i + 1 .. j - 1 : ~IsOut(u[k])
               PROVE  Follows(u[i], u[j])
    BY DEF Whole
  <2>1. i \in 1 .. Len(s) /\ j \in 1 .. Len(s)
    BY <1>2
  <2>2. \A k \in i + 1 .. j - 1 : k \in 1 .. Len(s) /\ ~IsOut(s[k])
    BY <1>1, <2>1
  <2> QED
    BY <1>1, <2>1, <2>2 DEF Whole
<1>4. LastContinued(u, done)
  <2> SUFFICES ASSUME NEW i \in DOMAIN u, IsOut(u[i]), \A k \in i + 1 .. Len(u) : ~IsOut(u[k])
               PROVE  Continued(u[i], done)
    BY DEF LastContinued
  <2>1. i \in 1 .. Len(s)
    BY <1>2
  <2>2. \A k \in i + 1 .. Len(s) : k \in 1 .. Len(s) /\ ~IsOut(s[k])
    BY <1>1, <2>1
  <2> QED
    BY <1>1, <2>1, <2>2 DEF LastContinued
<1> QED
  BY <1>3, <1>4 DEF u

\* The next byte of whoever prints follows the last one of a thread.
LEMMA AppendOut ==
  ASSUME NEW S, NEW s \in Seq(S), NEW done, NEW b \in S, Whole(s), LastContinued(s, done),
         \A a : IsOut(a) /\ Continued(a, done) => Follows(a, b)
  PROVE  Whole(Append(s, b))
<1> DEFINE u == Append(s, b)
<1>1. /\ u \in Seq(S) /\ Len(u) = Len(s) + 1 /\ Len(s) \in Nat
      /\ u[Len(s) + 1] = b /\ \A i \in 1 .. Len(s) : u[i] = s[i]
      /\ DOMAIN s = 1 .. Len(s) /\ DOMAIN u = 1 .. Len(s) + 1
  OBVIOUS
<1> HIDE DEF u
<1> SUFFICES ASSUME NEW i \in DOMAIN u, NEW j \in DOMAIN u, i < j, IsOut(u[i]), IsOut(u[j]),
                    \A k \in i + 1 .. j - 1 : ~IsOut(u[k])
             PROVE  Follows(u[i], u[j])
  BY DEF Whole, u
<1>2. i \in 1 .. Len(s) /\ \A k \in i + 1 .. j - 1 : k \in 1 .. Len(s) /\ ~IsOut(s[k])
  BY <1>1
<1>3. CASE j \in 1 .. Len(s)
  BY <1>1, <1>2, <1>3 DEF Whole
<1>4. CASE j = Len(s) + 1
  <2>1. j - 1 = Len(s)
    BY <1>1, <1>4
  <2>2. Continued(s[i], done)
    BY <1>1, <1>2, <2>1 DEF LastContinued
  <2> QED
    BY <1>1, <1>2, <1>4, <2>2
<1> QED
  BY <1>1, <1>3, <1>4

LEMMA AppendLast ==
  ASSUME NEW S, NEW s \in Seq(S), NEW done, NEW b \in S, IsOut(b), Continued(b, done)
  PROVE  LastContinued(Append(s, b), done)
<1> DEFINE u == Append(s, b)
<1>1. Len(u) = Len(s) + 1 /\ Len(s) \in Nat /\ u[Len(u)] = b /\ DOMAIN u = 1 .. Len(u)
  OBVIOUS
<1> HIDE DEF u
<1> SUFFICES ASSUME NEW i \in DOMAIN u, \A k \in i + 1 .. Len(u) : ~IsOut(u[k])
             PROVE  u[i] = b
  BY DEF LastContinued, u
<1>2. i \in 1 .. Len(u) /\ Len(u) \notin i + 1 .. Len(u)
  BY <1>1
<1> QED
  BY <1>1, <1>2

\* The console lock has one owner, and only its owner has begun to print.
LEMMA NextOwned == ConsoleInv /\ ConsoleOwned /\ [Next]_vars => ConsoleOwned'
<1> SUFFICES ASSUME ConsoleInv, ConsoleOwned, [Next]_vars PROVE ConsoleOwned'
  OBVIOUS
<1>1. Parts /\ Writer \subseteq Thread
  BY InvParts DEF Thread
<1>2. ASSUME UNCHANGED <<pc, printed>>, lock_value'["console"] = lock_value["console"]
      PROVE  ConsoleOwned'
  BY <1>2 DEF ConsoleOwned, InPutbuf
<1>3. CASE \E t \in Thread : ThreadStep(t)
  <2> PICK t \in Thread : ThreadStep(t)
    BY <1>3
  \* A step of a writer inside putbuf(), or of a reader.
  <2>1. ASSUME NEW l, pc' = [pc EXCEPT ![t] = l],
               t \in Writer => InPutbuf(t) /\ l \in {"put", "lock", "wait"},
               \A w \in Writer : w # t => printed'[w] = printed[w],
               lock_value'["console"] = lock_value["console"]
        PROVE  ConsoleOwned'
    BY <1>1, <2>1 DEF ConsoleOwned, InPutbuf, Parts, RestTypes
  \* A writer takes the lock, or waits for it.
  <2>2. CASE t \in Writer /\ (Putbuf(t) \/ ConsoleAgain(t))
    BY <1>1, <2>2 DEF Putbuf, ConsoleAgain, Goto, JoinWaiters, ConsoleOwned, InPutbuf,
       Parts, LockTypes, RestTypes, Lock
  <2>3. CASE t \in Writer /\ ReleaseConsole(t)
    BY <1>1, <2>3 DEF ReleaseConsole, Goto, ConsoleOwned, InPutbuf, Parts, RestTypes
  <2>4. QueueOf(t) # "console" /\ QueueOf(t) \in Lock /\ "console" \in Lock
    BY <1>1 DEF QueueOf, Lock, Queue, Parts, LockTypes
  <2>5. lock_value \in [Lock -> {0, 1}] /\ pc \in [Thread -> Location]
    BY <1>1 DEF Parts, LockTypes, RestTypes
  \* After the loops of intq_getc() and intq_putc().
  <2>6. ASSUME NEW sleeping, Finish(t, sleeping), t \in Writer => InPutbuf(t) /\ pc[t] = "put",
               lock_value'["console"] = lock_value["console"]
        PROVE  ConsoleOwned'
    <3>1. CASE t \in Reader
      BY <1>1, <2>1, <2>6, <3>1, ConsoleAssumption DEF Finish, Goto
    <3>2. CASE t \in Writer
      <4>1. pc' = [pc EXCEPT ![t] = "put"] /\ \A w \in Writer : w # t => printed'[w] = printed[w]
        BY <1>1, <2>5, <2>6, <3>2, ConsoleAssumption DEF Finish, Parts, RestTypes
      <4> QED
        BY <2>1, <2>6, <4>1
    <3> QED
      BY <3>1, <3>2 DEF Thread
  <2>7. ASSUME NEW sleeping, Wait(t, sleeping), t \in Writer => InPutbuf(t),
               lock_value'["console"] = lock_value["console"]
        PROVE  ConsoleOwned'
    BY <2>1, <2>7 DEF Wait, Goto
  <2>8. CASE CallQueue(t)
    <3>1. t \in Writer => InPutbuf(t) /\ pc[t] = "put"
      BY <2>8, ConsoleAssumption DEF CallQueue, InPutbuf
    <3>2. lock_value'["console"] = lock_value["console"]
      BY <2>4, <2>5, <2>8 DEF CallQueue, lockVars, JoinWaiters
    <3>3. CASE Finish(t, blocked) \/ Wait(t, blocked)
      BY <2>6, <2>7, <3>1, <3>2, <3>3
    <3>4. CASE Goto(t, "lock") /\ UNCHANGED printed
      BY <2>1, <3>1, <3>2, <3>4 DEF Goto
    <3> QED
      BY <2>8, <3>3, <3>4 DEF CallQueue
  <2>9. CASE LockAgain(t)
    <3>1. t \in Writer => InPutbuf(t)
      BY <2>9 DEF LockAgain, InPutbuf
    <3>2. lock_value'["console"] = lock_value["console"]
      BY <2>4, <2>5, <2>9 DEF LockAgain, JoinWaiters
    <3>3. CASE Wait(t, blocked)
      BY <2>7, <3>1, <3>2, <3>3
    <3>4. CASE UNCHANGED <<pc, printed>>
      BY <1>2, <3>2, <3>4
    <3> QED
      BY <2>9, <3>3, <3>4 DEF LockAgain, threadVars
  <2>10. CASE WaitAgain(t)
    <3>1. t \in Writer => InPutbuf(t)
      BY <2>10 DEF WaitAgain, InPutbuf
    <3>2. lock_value'["console"] = lock_value["console"]
      BY <2>4, <2>5, <2>10 DEF WaitAgain
    <3>3. CASE Stuck(t)
      BY <2>7, <2>10, <3>1, <3>2, <3>3 DEF WaitAgain
    <3>4. CASE ~Stuck(t) /\ t \in Reader
      BY <2>6, <2>10, <3>2, <3>4, ConsoleAssumption DEF WaitAgain
    <3>5. CASE ~Stuck(t) /\ t \notin Reader
      <4>1. pc' = [pc EXCEPT ![t] = "put"] /\ printed' = [printed EXCEPT ![t] = @ + 1]
        BY <2>10, <3>5 DEF WaitAgain, Goto
      <4>2. \A w \in Writer : w # t => printed'[w] = printed[w]
        BY <1>1, <4>1 DEF Parts, RestTypes
      <4> QED
        BY <2>1, <3>1, <3>2, <4>1, <4>2
    <3> QED
      BY <3>3, <3>4, <3>5
  <2> QED
    BY <2>2, <2>3, <2>8, <2>9, <2>10 DEF ThreadStep
<1>4. CASE ~\E t \in Thread : ThreadStep(t)
  <2>1. UNCHANGED <<pc, printed, lock_value>>
    BY <1>4 DEF Next, HandlerStep, SerialInterrupt, KeyboardInterrupt, UnexpectedInterrupt,
       Receive, ReceiveDone, Transmit, TransmitDone, PutcPoll, PutcIntr, Shifted, Arrive,
       vars, threadVars, lockVars
  <2> QED
    BY <1>2, <2>1
<1> QED
  BY <1>3, <1>4

\* What a step does to the transmit queue and to what the writers have printed.
\* Bytes go out, or a handler prints.
TxKept ==
  /\ UNCHANGED printed
  /\ \/ UNCHANGED Contents("txq")
     \/ Contents("txq") # <<>> /\ Contents("txq")' = Tail(Contents("txq"))
     \/ Contents("txq")' = Append(Contents("txq"), Intr)

\* Writer w stores its next byte.
TxPrints(w) ==
  /\ InPutbuf(w) /\ printed[w] < MsgLen
  /\ Contents("txq")' = Append(Contents("txq"), <<w, printed[w] + 1>>)
  /\ printed' = [printed EXCEPT ![w] = @ + 1]

\* Writer w has printed its message.
TxEnds(w) ==
  /\ printed[w] = MsgLen /\ printed' = [printed EXCEPT ![w] = 0]
  /\ UNCHANGED Contents("txq")

TxStep == TxKept \/ \E w \in Writer : TxPrints(w) \/ TxEnds(w)

LEMMA TxSame ==
  ASSUME UNCHANGED <<buf, head, tail, printed>>
  PROVE  TxStep
BY DEF TxStep, TxKept, Contents

\* The other queue has another ring.
LEMMA TxOther ==
  ASSUME RingTypes, NEW b, NEW sleeping,
         PutByte("buffer", b, sleeping) \/ GetByte("buffer", sleeping)
  PROVE  UNCHANGED Contents("txq")
BY DEF RingTypes, PutByte, GetByte, Contents, Queue

LEMMA NextTx == ConsoleInv /\ ConsoleInv' /\ [Next]_vars => TxStep
<1> SUFFICES ASSUME ConsoleInv, ConsoleInv', [Next]_vars PROVE TxStep
  OBVIOUS
<1>1. Parts /\ RingTypes /\ RingTypes' /\ "txq" \in Queue
  BY InvParts DEF Parts, QueueTypes, Queue
<1>2. CASE Receive \/ KeyboardInterrupt
  BY <1>1, <1>2, TxOther DEF Receive, KeyboardInterrupt, TxStep, TxKept
<1>3. CASE PutcIntr
  <2>1. Intr \in ByteOf("txq") /\ ~IntqFull("txq")
    BY <1>1, <1>3 DEF PutcIntr, Parts, RoomToPrint, ByteOf, TxByte
  <2> QED
    BY <1>1, <1>3, <2>1, PutContents DEF PutcIntr, TxStep, TxKept
<1>4. CASE Transmit
  BY <1>1, <1>4, GetContents DEF Transmit, TxStep, TxKept
<1>5. CASE PutcPoll
  <2>1. IntqFull("txq") /\ head["txq"] \in 0 .. BufSize - 1
    BY <1>1, <1>5 DEF PutcPoll, Parts, RoomToPrint, RingTypes
  <2>2. ~IntqEmpty("txq")
    BY <2>1, NextPosFacts DEF IntqFull, IntqEmpty
  <2> QED
    BY <1>1, <1>5, <2>2, GetContents DEF PutcPoll, TxStep, TxKept
<1>6. CASE ReceiveDone \/ TransmitDone \/ SerialInterrupt \/ UnexpectedInterrupt \/ Shifted
           \/ Arrive \/ UNCHANGED vars
  BY <1>6, TxSame DEF ReceiveDone, TransmitDone, SerialInterrupt, UnexpectedInterrupt,
     Shifted, Arrive, vars, queueVars, threadVars
<1>7. ASSUME NEW t \in Thread, ThreadStep(t)
      PROVE  TxStep
  <2>1. ASSUME t \in Writer, InPutbuf(t), printed[t] < MsgLen, ~IntqFull("txq"), NEW sleeping,
               PutByte("txq", <<t, printed[t] + 1>>, sleeping),
               printed' = [printed EXCEPT ![t] = @ + 1]
        PROVE  TxStep
    <3>1. <<t, printed[t] + 1>> \in ByteOf("txq")
      BY <1>1, <2>1, ConsoleAssumption DEF Parts, RestTypes, ByteOf, TxByte
    <3> QED
      BY <1>1, <2>1, <3>1, PutContents DEF TxStep, TxPrints
  <2>2. ASSUME NEW sleeping, Finish(t, sleeping), ~Stuck(t),
               t \in Writer => InPutbuf(t) /\ printed[t] < MsgLen
        PROVE  TxStep
    <3>1. CASE t \in Reader
      BY <1>1, <2>2, <3>1, TxOther, ConsoleAssumption DEF Finish, TxStep, TxKept
    <3>2. CASE t \in Writer
      <4>1. /\ PutByte("txq", <<t, printed[t] + 1>>, sleeping) /\ ~IntqFull("txq")
            /\ printed' = [printed EXCEPT ![t] = @ + 1]
        BY <2>2, <3>2, ConsoleAssumption DEF Finish, Stuck
      <4> QED
        BY <2>1, <2>2, <3>2, <4>1
    <3> QED
      BY <3>1, <3>2 DEF Thread
  <2>3. ASSUME NEW sleeping, Wait(t, sleeping)
        PROVE  TxStep
    BY <2>3, TxSame DEF Wait
  <2>4. CASE CallQueue(t)
    <3>1. t \in Writer => InPutbuf(t) /\ printed[t] < MsgLen
      BY <2>4, ConsoleAssumption DEF CallQueue, InPutbuf
    <3> QED
      BY <2>2, <2>3, <2>4, <3>1, TxSame DEF CallQueue, queueVars
  <2>5. CASE LockAgain(t)
    BY <2>3, <2>5, TxSame DEF LockAgain, queueVars, threadVars
  <2>6. CASE WaitAgain(t)
    <3>1. t \in Writer => InPutbuf(t) /\ printed[t] < MsgLen
      BY <1>1, <2>6 DEF WaitAgain, Parts, Unprinted, InPutbuf
    <3>2. CASE Stuck(t)
      BY <2>3, <2>6, <3>2 DEF WaitAgain
    <3>3. CASE ~Stuck(t) /\ t \in Reader
      BY <2>2, <2>6, <3>1, <3>3, ConsoleAssumption DEF WaitAgain
    <3>4. CASE ~Stuck(t) /\ t \notin Reader
      <4>1. t \in Writer /\ QueueOf(t) = "txq" /\ ~IntqFull("txq")
        BY <3>4 DEF Thread, QueueOf, Stuck
      <4> QED
        BY <2>1, <2>6, <3>1, <3>4, <4>1 DEF WaitAgain
    <3> QED
      BY <3>2, <3>3, <3>4
  <2>7. CASE Putbuf(t) \/ ConsoleAgain(t)
    BY <2>7, TxSame DEF Putbuf, ConsoleAgain, queueVars
  <2>8. CASE t \in Writer /\ ReleaseConsole(t)
    BY <2>8 DEF ReleaseConsole, queueVars, TxStep, TxEnds, Contents
  <2> QED
    BY <1>7, <2>4, <2>5, <2>6, <2>7, <2>8 DEF ThreadStep
<1> QED
  BY <1>2, <1>3, <1>4, <1>5, <1>6, <1>7 DEF Next, HandlerStep

LEMMA NextMessages ==
  ConsoleInv /\ ConsoleInv' /\ MessagesInv /\ [Next]_vars => MessagesInv'
<1> SUFFICES ASSUME ConsoleInv, ConsoleInv', MessagesInv, [Next]_vars PROVE MessagesInv'
  OBVIOUS
<1> DEFINE c  == Contents("txq")
           c2 == Contents("txq")'
           S  == TxByte \cup {NoByte}
<1>1. c \in Seq(S)
  <2>1. ContentsShape
    BY InvParts, ContentsFacts DEF Parts, QueueTypes
  <2> QED
    BY <2>1 DEF ContentsShape, Queue, ByteOf
<1>2. /\ ConsoleOwned' /\ ConsoleOwned /\ Whole(c) /\ LastContinued(c, printed)
      /\ printed \in [Writer -> 0 .. MsgLen]
  BY NextOwned, InvParts DEF MessagesInv, MessagesWhole, Parts, RestTypes
<1>3. TxStep
  BY NextTx
<1> HIDE DEF c, c2, S
<1>4. CASE TxKept
  <2>1. c2 = c \/ (c # <<>> /\ c2 = Tail(c)) \/ c2 = Append(c, Intr)
    BY <1>4 DEF TxKept, c, c2
  <2>2. ~IsOut(Intr) /\ Intr \in S
    BY ConsoleAssumption DEF IsOut, S, TxByte
  <2>3. Whole(c2) /\ LastContinued(c2, printed)
    BY <1>1, <1>2, <2>1, <2>2, TailWhole, TailContinued, AppendIntr
  <2> QED
    BY <1>2, <1>4, <2>3 DEF TxKept, MessagesInv, MessagesWhole, c2
<1>5. ASSUME NEW w \in Writer, TxPrints(w)
      PROVE  MessagesInv'
  <2> DEFINE b == <<w, printed[w] + 1>>
  <2>1. /\ InPutbuf(w) /\ printed[w] \in 0 .. MsgLen - 1 /\ c2 = Append(c, b)
        /\ printed' = [printed EXCEPT ![w] = @ + 1]
    BY <1>2, <1>5, ConsoleAssumption DEF TxPrints, c, c2
  <2>2. IsOut(b) /\ b \in S
    BY <2>1, ConsoleAssumption DEF IsOut, S, TxByte
  <2>3. ASSUME NEW a, IsOut(a), Continued(a, printed)
        PROVE  Follows(a, b)
    <3>1. CASE printed[w] = 0
      <4>1. \A v \in Writer : printed[v] = 0
        BY <1>2, <2>1, <3>1 DEF ConsoleOwned
      <4>2. a[2] \in 1 .. MsgLen
        BY <2>3 DEF IsOut
      <4>3. a[2] = MsgLen
        BY <2>3, <4>1, <4>2 DEF Continued
      <4> QED
        BY <3>1, <4>3 DEF Follows
    <3>2. CASE printed[w] # 0
      <4>1. PICK v \in Writer : a = <<v, printed[v]>>
        BY <2>3, <3>2 DEF Continued
      <4>2. printed[v] # 0
        BY <2>3, <4>1 DEF IsOut
      <4>3. v = w
        BY <1>2, <2>1, <4>2 DEF ConsoleOwned
      <4> QED
        BY <2>1, <4>1, <4>3 DEF Follows
    <3> QED
      BY <3>1, <3>2
  <2>4. Continued(b, printed')
    BY <1>2, <2>1 DEF Continued
  <2>5. Whole(c2) /\ LastContinued(c2, printed')
    <3> HIDE DEF b
    <3> QED
      BY <1>1, <1>2, <2>1, <2>2, <2>3, <2>4, AppendOut, AppendLast
  <2> QED
    BY <1>2, <2>5 DEF MessagesInv, MessagesWhole, c2
<1>6. ASSUME NEW w \in Writer, TxEnds(w)
      PROVE  MessagesInv'
  <2>1. c2 = c /\ printed[w] = MsgLen /\ printed' = [printed EXCEPT ![w] = 0]
    BY <1>6 DEF TxEnds, c, c2
  <2>2. \A v \in Writer : printed'[v] = 0
    BY <1>2, <2>1, ConsoleAssumption DEF ConsoleOwned
  <2>3. ASSUME NEW a, IsOut(a), Continued(a, printed)
        PROVE  Continued(a, printed')
    <3>1. a[2] = MsgLen
      <4>1. CASE \E v \in Writer : a = <<v, printed[v]>>
        <5>1. PICK v \in Writer : a = <<v, printed[v]>>
          BY <4>1
        <5>2. printed[v] # 0
          BY <2>3, <5>1 DEF IsOut
        <5>3. v = w
          BY <1>2, <2>1, <5>2, ConsoleAssumption DEF ConsoleOwned
        <5> QED
          BY <2>1, <5>1, <5>3
      <4> QED
        BY <2>3, <4>1 DEF Continued
    <3> QED
      BY <2>2, <3>1 DEF Continued
  <2>4. LastContinued(c, printed')
    BY <1>2, <2>3 DEF LastContinued
  <2> QED
    BY <1>2, <2>1, <2>4 DEF MessagesInv, MessagesWhole, c2
<1> QED
  BY <1>3, <1>4, <1>5, <1>6 DEF TxStep

(***************************************************************************)
(* What threads print does not mix: though writers block in the middle of  *)
(* putbuf() and handlers print, console_lock keeps each message's bytes in *)
(* order and together, for every number of writers, length and queue.      *)
(***************************************************************************)
THEOREM MessagesDoNotMix == Spec => []MessagesWhole
<1>1. Init => MessagesInv
  <2> SUFFICES ASSUME Init PROVE MessagesInv
    OBVIOUS
  <2>1. Contents("txq") = <<>>
    BY EmptyAtFirst
  <2>2. Whole(<<>>) /\ LastContinued(<<>>, printed)
    BY DEF Whole, LastContinued
  <2>3. ConsoleOwned
    BY DEF Init, ConsoleOwned, InPutbuf, Thread
  <2> QED
    BY <2>1, <2>2, <2>3 DEF MessagesInv, MessagesWhole
<1>2. ConsoleInv /\ ConsoleInv' /\ MessagesInv /\ [Next]_vars => MessagesInv'
  BY NextMessages
<1>3. MessagesInv => MessagesWhole
  BY DEF MessagesInv
<1> QED
  BY <1>1, <1>2, <1>3, ConsoleInvariant, PTL DEF Spec

=============================================================================
