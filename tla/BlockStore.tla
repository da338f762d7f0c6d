----------------------------- MODULE BlockStore -----------------------------
(***************************************************************************)
(* What the block layer promises (devices/block.h, the comments above      *)
(* block_read() and block_write()): devices that do not disturb each       *)
(* other, whose sectors are read and written as if at one instant between  *)
(* call and return, by any number of threads without further locking.      *)
(***************************************************************************)
EXTENDS Naturals

CONSTANTS Thread, Block, Size, Data, Blank, NoCall

VARIABLES
  content,  \* data of each sector of each block device
  call      \* what each thread is calling, and what it got

vars == <<content, call>>

Calls == UNION {[op : {"read", "write"}, block : {b}, sector : 0 .. Size[b] - 1, data : Data,
                 done : BOOLEAN] : b \in Block}

Init ==
  /\ content = [b \in Block |-> [s \in 0 .. Size[b] - 1 |-> Blank]]
  /\ call = [t \in Thread |-> NoCall]

Begin(t) ==
  /\ call[t] = NoCall
  /\ \E c \in Calls : ~c.done /\ call' = [call EXCEPT ![t] = c]
  /\ UNCHANGED content

Read(t) ==
  LET c == call[t]
  IN  /\ c # NoCall /\ c.op = "read" /\ ~c.done
      /\ call' = [call EXCEPT ![t].done = TRUE, ![t].data = content[c.block][c.sector]]
      /\ UNCHANGED content

Write(t) ==
  LET c == call[t]
  IN  /\ c # NoCall /\ c.op = "write" /\ ~c.done
      /\ content' = [content EXCEPT ![c.block][c.sector] = c.data]
      /\ call' = [call EXCEPT ![t].done = TRUE]

Return(t) ==
  /\ call[t] # NoCall /\ call[t].done
  /\ call' = [call EXCEPT ![t] = NoCall]
  /\ UNCHANGED content

Next == \E t \in Thread : Begin(t) \/ Read(t) \/ Write(t) \/ Return(t)

Spec == Init /\ [][Next]_vars
=============================================================================
