------------------------------- MODULE Console -------------------------------
(***************************************************************************)
(* Console output and keyboard input: the interrupt queue of               *)
(* devices/intq.c used twice, as the serial port's transmit queue and as   *)
(* the input buffer, between kernel threads and the interrupt handlers of  *)
(* devices/serial.c and devices/kbd.c, with the console lock of            *)
(* lib/kernel/console.c.  The files are the same in the three projects;    *)
(* the readers are those of project 1, whose read() takes no lock.         *)
(*                                                                         *)
(* One CPU.  A thread runs with interrupts off from one place where it may *)
(* block to the next, so that stretch is one step.  An interrupt handler   *)
(* is a chain of steps (`handler') during which no thread moves.           *)
(***************************************************************************)
EXTENDS Integers, Sequences, FiniteSets

CONSTANTS
  Reader,   \* threads inside read (0, ...)
  Writer,   \* threads that write to the console
  NoThread,
  Key,      \* bytes that arrive from the keyboard and the serial line
  Intr,     \* the byte an interrupt handler prints
  NoByte,
  MsgLen,   \* length of what a writer gives to putbuf()
  BufSize,  \* INTQ_BUFSIZE
  MaxPrints \* bound: bytes printed by interrupt handlers

ASSUME ConsoleAssumption ==
  /\ Reader \cap Writer = {} /\ NoThread \notin Reader \cup Writer
  /\ MsgLen \in Nat \ {0} /\ BufSize \in Nat \ {0, 1} /\ MaxPrints \in Nat
  /\ IsFiniteSet(Reader \cup Writer)
  /\ NoByte \notin Key \cup {Intr} \cup (Writer \X (1 .. MsgLen))
  /\ Intr \notin Writer \X (1 .. MsgLen)

Thread  == Reader \cup Writer
Queue   == {"txq", "buffer"}
Lock    == Queue \cup {"console"}
TxByte  == (Writer \X (1 .. MsgLen)) \cup {Intr}
ByteOf(q) == IF q = "txq" THEN TxByte ELSE Key

VARIABLES
  buf, head, tail,     \* struct intq
  not_full, not_empty, \* struct intq: the thread that waits for the condition
  lock_value,          \* the semaphores inside the queues' locks and
  lock_waiters,        \* console_lock
  pc,                  \* where each thread stands
  printed,             \* putbuf(): bytes of its buffer that are in txq
  blocked,             \* the threads that are blocked
  xmit_ier, recv_ier,  \* bits IER_XMIT and IER_RECV of the serial port
  thre, rbr,           \* bit LSR_THRE: it can send a byte; the byte it received
  handler,             \* the interrupt handler's place, "none": no handler
  prints,              \* bytes that interrupt handlers have printed
  panic                \* an assertion has failed, the kernel has stopped

queueVars  == <<buf, head, tail, not_full, not_empty>>
lockVars   == <<lock_value, lock_waiters>>
threadVars == <<pc, printed, blocked>>
ierVars    == <<xmit_ier, recv_ier>>
uartVars   == <<thre, rbr>>
vars == <<queueVars, lockVars, threadVars, ierVars, uartVars, handler, prints,
          panic>>

Location ==
  {"run",     \* outside of the calls modelled here
   "console", \* lock_acquire (&console_lock): in sema_down()
   "put",     \* putbuf(): before serial_putc() or release_console()
   "lock",    \* intq_getc(), intq_putc(): in lock_acquire()
   "wait"}    \* intq_getc(), intq_putc(): in wait(), holding the lock

TypeOK ==
  /\ DOMAIN buf = Queue
  /\ \A q \in Queue : buf[q] \in [0 .. BufSize - 1 -> ByteOf(q) \cup {NoByte}]
  /\ head \in [Queue -> 0 .. BufSize - 1]
  /\ tail \in [Queue -> 0 .. BufSize - 1]
  /\ not_full \in [Queue -> Thread \cup {NoThread}]
  /\ not_empty \in [Queue -> Thread \cup {NoThread}]
  /\ lock_value \in [Lock -> {0, 1}]
  /\ lock_waiters \in [Lock -> Seq(Thread)]
  /\ pc \in [Thread -> Location]
  /\ printed \in [Writer -> 0 .. MsgLen]
  /\ blocked \subseteq Thread
  /\ xmit_ier \in BOOLEAN /\ recv_ier \in BOOLEAN
  /\ thre \in BOOLEAN /\ rbr \in Key \cup {NoByte}
  /\ handler \in {"none", "receive", "transmit", "poll", "print"}
  /\ prints \in 0 .. MaxPrints
  /\ panic \in BOOLEAN

\* As serial_init_queue(), input_init() and console_init() leave it.
Init ==
  /\ buf = [q \in Queue |-> [i \in 0 .. BufSize - 1 |-> NoByte]]
  /\ head = [q \in Queue |-> 0] /\ tail = [q \in Queue |-> 0]
  /\ not_full = [q \in Queue |-> NoThread]
  /\ not_empty = [q \in Queue |-> NoThread]
  /\ lock_value = [l \in Lock |-> 1]
  /\ lock_waiters = [l \in Lock |-> <<>>]
  /\ pc = [t \in Thread |-> "run"]
  /\ printed = [w \in Writer |-> 0]
  /\ blocked = {}
  /\ xmit_ier = FALSE /\ recv_ier = TRUE
  /\ thre = TRUE /\ rbr = NoByte
  /\ handler = "none" /\ prints = 0
  /\ panic = FALSE

-----------------------------------------------------------------------------
(* The interrupt queue *)

NextPos(pos) == (pos + 1) % BufSize

IntqEmpty(q) == head[q] = tail[q]

\* Mutant: the last free cell of the ring is used too.
IntqFullNever(q) == FALSE

IntqFull(q) == NextPos(head[q]) = tail[q]

\* Mutant: signal() that forgets to wake the thread.
ForgetWaiter(sleeping, t) == sleeping

\* signal(): thread_unblock (*waiter), of the threads `sleeping' are blocked.
Unblock(sleeping, t) == sleeping \ {t}

\* intq_putc() after its loop: the byte is stored, a reader is woken.
PutByte(q, b, sleeping) ==
  /\ buf' = [buf EXCEPT ![q][head[q]] = b]
  /\ head' = [head EXCEPT ![q] = NextPos(@)]
  /\ not_empty' = [not_empty EXCEPT ![q] = NoThread]
  /\ blocked' = Unblock(sleeping, not_empty[q])
  /\ UNCHANGED <<tail, not_full>>

\* intq_getc() after its loop: the byte is taken, a writer is woken.  (The cell
\* keeps the byte, which nobody reads again; it is normalised.)
GetByte(q, sleeping) ==
  /\ tail' = [tail EXCEPT ![q] = NextPos(@)]
  /\ buf' = [buf EXCEPT ![q][tail[q]] = NoByte]
  /\ not_full' = [not_full EXCEPT ![q] = NoThread]
  /\ blocked' = Unblock(sleeping, not_full[q])
  /\ UNCHANGED <<head, not_empty>>

\* Mutant: the interrupt enable register is left as it is.
KeepIer == UNCHANGED ierVars

\* write_ier(), after a change of one of the queues.
WriteIer ==
  /\ xmit_ier' = (head'["txq"] # tail'["txq"])
  /\ recv_ier' = (NextPos(head'["buffer"]) # tail'["buffer"])

-----------------------------------------------------------------------------
(* Threads *)

QueueOf(t) == IF t \in Reader THEN "buffer" ELSE "txq"

\* The condition of the loops in intq_getc() and intq_putc().
Stuck(t) == IF t \in Reader THEN IntqEmpty("buffer") ELSE IntqFull("txq")

\* Thread t has the CPU and no interrupt is being handled.
Runs(t) == handler = "none" /\ ~panic /\ t \notin blocked

Goto(t, l) == pc' = [pc EXCEPT ![t] = l]

\* wait(), entered with the threads `sleeping' blocked.
Wait(t, sleeping) ==
  /\ IF t \in Reader
     THEN not_empty' = [not_empty EXCEPT !["buffer"] = t] /\ UNCHANGED not_full
     ELSE not_full' = [not_full EXCEPT !["txq"] = t] /\ UNCHANGED not_empty
  /\ blocked' = sleeping \cup {t}
  /\ Goto(t, "wait")
  /\ UNCHANGED <<buf, head, tail, printed, ierVars>>

\* sema_down() of the semaphore in lock l, when its value is 0.
JoinWaiters(t, l) ==
  /\ lock_waiters' = [lock_waiters EXCEPT ![l] = Append(@, t)]
  /\ blocked' = blocked \cup {t}
  /\ UNCHANGED lock_value

\* sema_up() of the semaphore in lock l: the waiter it unblocks, if any.
FirstWaiter(l) == IF lock_waiters[l] = <<>> THEN {} ELSE {Head(lock_waiters[l])}

LeaveWaiters(l) ==
  lock_waiters' =
    [lock_waiters EXCEPT ![l] = IF @ = <<>> THEN <<>> ELSE Tail(@)]

\* After the loop: input_getc() returns, or serial_putc() does.
Finish(t, sleeping) ==
  /\ \/ /\ t \in Reader
        /\ GetByte("buffer", sleeping)
        /\ Goto(t, "run") /\ UNCHANGED printed
     \/ /\ t \in Writer
        /\ PutByte("txq", <<t, printed[t] + 1>>, sleeping)
        /\ printed' = [printed EXCEPT ![t] = @ + 1]
        /\ UNCHANGED pc
  /\ WriteIer

\* input_getc(), or serial_putc() on the next byte, called with interrupts on.
CallQueue(t) ==
  LET q == QueueOf(t)
  IN  /\ Runs(t)
      /\ \/ t \in Reader /\ pc[t] = "run"
         \/ t \in Writer /\ pc[t] = "put" /\ printed[t] < MsgLen
      /\ \/ ~Stuck(t) /\ Finish(t, blocked) /\ UNCHANGED lockVars
         \/ /\ Stuck(t) /\ lock_value[q] = 1
            /\ lock_value' = [lock_value EXCEPT ![q] = 0]
            /\ Wait(t, blocked) /\ UNCHANGED lock_waiters
         \/ /\ Stuck(t) /\ lock_value[q] = 0
            /\ JoinWaiters(t, q) /\ Goto(t, "lock")
            /\ UNCHANGED <<queueVars, printed, ierVars>>
      /\ UNCHANGED <<uartVars, handler, prints, panic>>

\* sema_down() inside lock_acquire(), woken by the lock's release; then wait(),
\* whose assertion holds if the queue is still empty (or full).
LockAgain(t) ==
  LET q == QueueOf(t)
  IN  /\ Runs(t) /\ pc[t] = "lock"
      /\ \/ /\ lock_value[q] = 0
            /\ JoinWaiters(t, q)
            /\ UNCHANGED <<queueVars, pc, printed, ierVars, panic>>
         \/ /\ lock_value[q] = 1 /\ Stuck(t)
            /\ lock_value' = [lock_value EXCEPT ![q] = 0]
            /\ Wait(t, blocked)
            /\ UNCHANGED <<lock_waiters, panic>>
         \/ /\ lock_value[q] = 1 /\ ~Stuck(t)
            /\ lock_value' = [lock_value EXCEPT ![q] = 0]
            /\ panic' = TRUE
            /\ UNCHANGED <<queueVars, lock_waiters, threadVars, ierVars>>
      /\ UNCHANGED <<uartVars, handler, prints>>

\* wait() returns: lock_release(), and the loop again.
WaitAgain(t) ==
  LET q     == QueueOf(t)
      awake == blocked \ FirstWaiter(q)
  IN  /\ Runs(t) /\ pc[t] = "wait"
      /\ LeaveWaiters(q)
      /\ \/ /\ ~Stuck(t)
            /\ lock_value' = [lock_value EXCEPT ![q] = 1]
            /\ IF t \in Reader THEN Finish(t, awake)
               ELSE /\ PutByte(q, <<t, printed[t] + 1>>, awake)
                    /\ printed' = [printed EXCEPT ![t] = @ + 1]
                    /\ Goto(t, "put") /\ WriteIer
         \/ Stuck(t) /\ Wait(t, awake) /\ UNCHANGED lock_value
      /\ UNCHANGED <<uartVars, handler, prints, panic>>

\* putbuf(): acquire_console().
Putbuf(w) ==
  /\ Runs(w) /\ pc[w] = "run"
  /\ \/ /\ lock_value["console"] = 1
        /\ lock_value' = [lock_value EXCEPT !["console"] = 0]
        /\ Goto(w, "put") /\ UNCHANGED <<lock_waiters, blocked>>
     \/ /\ lock_value["console"] = 0
        /\ JoinWaiters(w, "console") /\ Goto(w, "console")
  /\ UNCHANGED <<queueVars, printed, ierVars, uartVars, handler, prints, panic>>

ConsoleAgain(w) ==
  /\ Runs(w) /\ pc[w] = "console"
  /\ \/ /\ lock_value["console"] = 1
        /\ lock_value' = [lock_value EXCEPT !["console"] = 0]
        /\ Goto(w, "put") /\ UNCHANGED <<lock_waiters, blocked>>
     \/ /\ lock_value["console"] = 0
        /\ JoinWaiters(w, "console") /\ UNCHANGED pc
  /\ UNCHANGED <<queueVars, printed, ierVars, uartVars, handler, prints, panic>>

\* Mutant: the lock is released after every byte.
ReleaseConsoleEarly(w) ==
  /\ Runs(w) /\ pc[w] = "put" /\ printed[w] > 0
  /\ lock_value' = [lock_value EXCEPT !["console"] = 1]
  /\ LeaveWaiters("console")
  /\ blocked' = blocked \ FirstWaiter("console")
  /\ printed' = [printed EXCEPT ![w] = @ % MsgLen]
  /\ Goto(w, "run")
  /\ UNCHANGED <<queueVars, ierVars, uartVars, handler, prints, panic>>

\* putbuf(): release_console().
ReleaseConsole(w) ==
  /\ Runs(w) /\ pc[w] = "put" /\ printed[w] = MsgLen
  /\ lock_value' = [lock_value EXCEPT !["console"] = 1]
  /\ LeaveWaiters("console")
  /\ blocked' = blocked \ FirstWaiter("console")
  /\ printed' = [printed EXCEPT ![w] = 0]
  /\ Goto(w, "run")
  /\ UNCHANGED <<queueVars, ierVars, uartVars, handler, prints, panic>>

-----------------------------------------------------------------------------
(* Interrupt handlers *)

SerialInterrupt ==
  /\ handler = "none" /\ ~panic
  /\ \/ recv_ier /\ rbr # NoByte
     \/ xmit_ier /\ thre
  /\ handler' = "receive"
  /\ UNCHANGED <<queueVars, lockVars, threadVars, ierVars, uartVars, prints, panic>>

\* serial_interrupt(): one turn of its first loop, with input_putc().
Receive ==
  /\ handler = "receive"
  /\ ~IntqFull("buffer") /\ rbr # NoByte
  /\ PutByte("buffer", rbr, blocked) /\ WriteIer
  /\ rbr' = NoByte
  /\ UNCHANGED <<lockVars, pc, printed, thre, handler, prints, panic>>

ReceiveDone ==
  /\ handler = "receive"
  /\ IntqFull("buffer") \/ rbr = NoByte
  /\ handler' = "transmit"
  /\ UNCHANGED <<queueVars, lockVars, threadVars, ierVars, uartVars, prints, panic>>

\* One turn of its second loop.
Transmit ==
  /\ handler = "transmit"
  /\ ~IntqEmpty("txq") /\ thre
  /\ thre' = FALSE
  /\ GetByte("txq", blocked)
  /\ UNCHANGED <<lockVars, pc, printed, ierVars, rbr, handler, prints, panic>>

\* Its end.
TransmitDone ==
  /\ handler = "transmit"
  /\ IntqEmpty("txq") \/ ~thre
  /\ handler' = "none"
  /\ UNCHANGED <<queueVars, lockVars, threadVars, uartVars, prints, panic>>
  /\ WriteIer

\* keyboard_interrupt(): a key that is a character, in one step.
KeyboardInterrupt ==
  /\ handler = "none" /\ ~panic
  /\ ~IntqFull("buffer")
  /\ \E k \in Key : PutByte("buffer", k, blocked)
  /\ WriteIer
  /\ UNCHANGED <<lockVars, pc, printed, uartVars, handler, prints, panic>>

\* An interrupt handler prints a byte: unexpected_interrupt(), or the one of
\* devices/ide.c.  serial_putc() is called with interrupts off.
UnexpectedInterrupt ==
  /\ handler = "none" /\ ~panic
  /\ prints < MaxPrints /\ prints' = prints + 1
  /\ handler' = IF IntqFull("txq") THEN "poll" ELSE "print"
  /\ UNCHANGED <<queueVars, lockVars, threadVars, ierVars, uartVars, panic>>

\* serial_putc(): putc_poll (intq_getc (&txq)).
PutcPoll ==
  /\ handler = "poll" /\ thre
  /\ thre' = FALSE
  /\ GetByte("txq", blocked)
  /\ handler' = "print"
  /\ UNCHANGED <<lockVars, pc, printed, ierVars, rbr, prints, panic>>

PutcIntr ==
  /\ handler = "print"
  /\ PutByte("txq", Intr, blocked) /\ WriteIer
  /\ handler' = "none"
  /\ UNCHANGED <<lockVars, pc, printed, uartVars, prints, panic>>

\* The serial port: a byte has gone out, a byte has come in.
Shifted ==
  /\ ~thre /\ thre' = TRUE
  /\ UNCHANGED <<queueVars, lockVars, threadVars, ierVars, rbr, handler, prints, panic>>

Arrive ==
  /\ rbr = NoByte /\ rbr' \in Key
  /\ UNCHANGED <<queueVars, lockVars, threadVars, ierVars, thre, handler, prints, panic>>

HandlerStep ==
  Receive \/ ReceiveDone \/ Transmit \/ TransmitDone \/ PutcPoll \/ PutcIntr

ThreadStep(t) ==
  \/ CallQueue(t) \/ LockAgain(t) \/ WaitAgain(t)
  \/ t \in Writer /\ (Putbuf(t) \/ ConsoleAgain(t) \/ ReleaseConsole(t))

\* What a thread that has begun to print, or was woken, does next.
Continue(t) == pc[t] # "run" /\ ThreadStep(t)

Next ==
  \/ \E t \in Thread : ThreadStep(t)
  \/ SerialInterrupt \/ KeyboardInterrupt \/ UnexpectedInterrupt
  \/ HandlerStep
  \/ Shifted \/ Arrive

Spec == Init /\ [][Next]_vars

(***************************************************************************)
(* The scheduler is round robin, so a thread that can go on does, though   *)
(* interrupts may put it off.  The interrupt controller keeps a request    *)
(* until it is served, a handler runs to its end, the port sends the byte  *)
(* in its register.  Nobody has to type, to read or to start to print.     *)
(***************************************************************************)
FairSpec ==
  /\ Spec
  /\ SF_vars(\E w \in Writer : Continue(w))
  /\ WF_vars(SerialInterrupt)
  /\ WF_vars(HandlerStep)
  /\ WF_vars(Shifted)

-----------------------------------------------------------------------------
(* Properties *)

\* The bytes in a queue, oldest first.
Contents(q) ==
  [i \in 1 .. (head[q] - tail[q]) % BufSize |-> buf[q][(tail[q] + i - 1) % BufSize]]

\* The transmit queue, and the input buffer, are bounded FIFO queues whatever
\* threads and interrupt handlers do to their rings at the same time.
Tx == INSTANCE ByteQueue WITH
        queue <- Contents("txq"), Byte <- TxByte, Capacity <- BufSize - 1
In == INSTANCE ByteQueue WITH
        queue <- Contents("buffer"), Byte <- Key, Capacity <- BufSize - 1
QueuesKeepBytes == Tx!Spec /\ In!Spec

(***************************************************************************)
(* No lost wake-up: a thread that sleeps in wait() is the one its queue    *)
(* remembers, and its condition does not hold: intq_putc() and intq_getc() *)
(* wake it at once, from a thread or from a handler.                       *)
(***************************************************************************)
SleeperStuck ==
  /\ TypeOK
  /\ \A t \in blocked : pc[t] = "wait" =>
       /\ Stuck(t)
       /\ t = IF t \in Reader THEN not_empty["buffer"] ELSE not_full["txq"]

(***************************************************************************)
(* The serial port is told of every change of the queues: between handlers *)
(* its transmit interrupt is enabled when there is something to send, its  *)
(* receive interrupt when there is room.                                   *)
(***************************************************************************)
IerFresh ==
  handler = "none" =>
    /\ xmit_ier = ~IntqEmpty("txq")
    /\ recv_ier = ~IntqFull("buffer")

(***************************************************************************)
(* console_lock keeps what threads print from mixing: behind a byte of one *)
(* message comes its next byte, or after its last one the first byte of a  *)
(* message.  What interrupt handlers print may come anywhere.              *)
(***************************************************************************)
IsOut(b) == b \in Writer \X (1 .. MsgLen)
Follows(a, b) == IF a[2] = MsgLen THEN b[2] = 1 ELSE b = <<a[1], a[2] + 1>>
Whole(s) ==
  \A i, j \in DOMAIN s :
    /\ i < j /\ IsOut(s[i]) /\ IsOut(s[j])
    /\ \A k \in i + 1 .. j - 1 : ~IsOut(s[k])
    => Follows(s[i], s[j])
MessagesWhole == Whole(Contents("txq"))

\* What a thread has begun to print is all printed: the thread that holds the
\* console lock gives it back.
PrintsAll == lock_value["console"] = 0 ~> lock_value["console"] = 1 \/ panic

(***************************************************************************)
(* The inductive invariant of the proofs: SleeperStuck, and                *)
(*  - one thread at a time is in wait() of a queue, with the queue's lock;  *)
(*  - serial_putc() stores its byte where there is room, also with         *)
(*    interrupts off, when it does not wait;                               *)
(*  - a writer that waits for room has a byte to print.                    *)
(***************************************************************************)
OneWaiter ==
  \A t \in Thread : pc[t] = "wait" =>
    /\ lock_value[QueueOf(t)] = 0
    /\ \A u \in Thread : pc[u] = "wait" /\ QueueOf(u) = QueueOf(t) => u = t

RoomToPrint ==
  /\ handler = "poll" => IntqFull("txq")
  /\ handler = "print" => ~IntqFull("txq")

Unprinted ==
  \A w \in Writer : pc[w] \in {"lock", "wait"} => printed[w] < MsgLen

ConsoleInv == SleeperStuck /\ OneWaiter /\ RoomToPrint /\ Unprinted

(***************************************************************************)
(* What makes MessagesWhole inductive: a writer inside putbuf() has the    *)
(* console lock and the others have printed nothing; the last byte of a    *)
(* thread in the queue is the one its owner goes on from, or ends a        *)
(* message.                                                                *)
(***************************************************************************)
InPutbuf(w) == pc[w] \in {"put", "lock", "wait"}

ConsoleOwned ==
  \A w \in Writer :
    IF InPutbuf(w) THEN lock_value["console"] = 0 /\ \A v \in Writer : InPutbuf(v) => v = w
    ELSE printed[w] = 0

Continued(b, done) ==
  \/ \E w \in Writer : b = <<w, done[w]>>
  \/ b[2] = MsgLen /\ \A w \in Writer : done[w] = 0

LastContinued(s, done) ==
  \A i \in DOMAIN s :
    IsOut(s[i]) /\ (\A k \in i + 1 .. Len(s) : ~IsOut(s[k])) => Continued(s[i], done)

MessagesInv == ConsoleOwned /\ LastContinued(Contents("txq"), printed) /\ MessagesWhole
=============================================================================
