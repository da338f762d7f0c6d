------------------------------ MODULE ByteQueue ------------------------------
(***************************************************************************)
(* What an interrupt queue promises (devices/intq.h: a circular queue of   *)
(* bytes): a bounded first-in first-out queue.  Nothing is lost, repeated  *)
(* or overtaken between intq_putc() and intq_getc().                       *)
(***************************************************************************)
EXTENDS Naturals, Sequences

CONSTANTS Byte, Capacity

VARIABLE queue

Init == queue = <<>>

Put == \E b \in Byte : Len(queue) < Capacity /\ queue' = Append(queue, b)

Get == queue # <<>> /\ queue' = Tail(queue)

Spec == Init /\ [][Put \/ Get]_queue
=============================================================================
