------------------------------ MODULE FileStore ------------------------------
(***************************************************************************)
(* What the file system promises its callers, without inodes, sectors and  *)
(* a free map: names stand for files, a file keeps its contents until its  *)
(* name is gone and its last user has closed it, and no operation on one   *)
(* file touches another.  A caller finds a file by its name and opens it   *)
(* some time later: the name may be gone by then, the file is not.         *)
(***************************************************************************)
EXTENDS Integers, Sequences

CONSTANTS
  Caller, Name, Id, NoId,
  File,     \* open files
  Data, Zero,
  MaxLength,
  Taken     \* the file, of one block, that a name stands for at the start

VARIABLES
  names,    \* the file each name stands for
  content,  \* what each file holds, block by block; <<>> for no file
  found,    \* the file a caller is about to open
  opened,   \* the file an open file belongs to
  pos,
  denied,   \* open files that deny writes
  result    \* the block that a read returned, if that was the last call

storeVars == <<names, content, found, opened, pos, denied, result>>

Init ==
  /\ names = Taken
  /\ content = [i \in Id |-> IF \E n \in Name : Taken[n] = i THEN <<Zero>> ELSE <<>>]
  /\ found = [c \in Caller |-> NoId]
  /\ opened = [f \in File |-> NoId]
  /\ pos = [f \in File |-> 0]
  /\ denied = {}
  /\ result = <<>>

\* Files that somebody can reach.
InUse(nm, fd, op) ==
  {nm[n] : n \in Name} \cup {fd[c] : c \in Caller} \cup {op[f] : f \in File}

\* The contents of files that nobody can reach any more are gone.
Keep(ct, nm, fd, op) == [i \in Id |-> IF i \in InUse(nm, fd, op) THEN ct[i] ELSE <<>>]

\* A new file is another one than those in use, and holds zeros.
Create(n, i, len) ==
  /\ names[n] = NoId /\ names' = [names EXCEPT ![n] = i]
  /\ UNCHANGED <<found, opened, pos, denied>> /\ result' = <<>>
  /\ i \notin InUse(names, found, opened)
  /\ content' = [content EXCEPT ![i] = [k \in 1 .. len |-> Zero]]

Unlink(n) ==
  /\ names[n] # NoId /\ names' = [names EXCEPT ![n] = NoId]
  /\ UNCHANGED <<found, opened, pos, denied>> /\ result' = <<>>
  /\ content' = Keep(content, names', found, opened)

Find(c, n) ==
  /\ found[c] = NoId /\ names[n] # NoId
  /\ found' = [found EXCEPT ![c] = names[n]]
  /\ UNCHANGED <<names, content, opened, pos, denied>> /\ result' = <<>>

Open(c, f) ==
  /\ found[c] # NoId /\ found' = [found EXCEPT ![c] = NoId]
  /\ opened[f] = NoId /\ opened' = [opened EXCEPT ![f] = found[c]]
  /\ UNCHANGED <<names, content, pos, denied>> /\ result' = <<>>

\* No memory for the open file.
Forget(c) ==
  /\ found[c] # NoId /\ found' = [found EXCEPT ![c] = NoId]
  /\ UNCHANGED <<names, opened, pos, denied>> /\ result' = <<>>
  /\ content' = Keep(content, names, found', opened)

Close(f) ==
  /\ opened[f] # NoId /\ opened' = [opened EXCEPT ![f] = NoId]
  /\ UNCHANGED <<names, found>> /\ result' = <<>>
  /\ pos' = [pos EXCEPT ![f] = 0]
  /\ denied' = denied \ {f}
  /\ content' = Keep(content, names, found, opened')

Read(f) ==
  LET c == content[opened[f]]
  IN  /\ opened[f] # NoId /\ UNCHANGED <<names, found, opened, denied, content>>
      /\ pos' = [pos EXCEPT ![f] = IF @ < Len(c) THEN @ + 1 ELSE @]
      /\ result' = IF pos[f] < Len(c) THEN <<c[pos[f] + 1]>> ELSE <<>>

\* A write changes one block, unless an open file of the same file denies it;
\* it may make its own file deny writes first.
Write(f, v) ==
  LET i == opened[f]
  IN  /\ i # NoId /\ UNCHANGED <<names, found, opened>> /\ result' = <<>>
      /\ denied' \in {denied, denied \cup {f}}
      /\ IF (\E g \in denied' : opened[g] = i) \/ pos[f] >= Len(content[i])
         THEN UNCHANGED <<content, pos>>
         ELSE /\ pos' = [pos EXCEPT ![f] = @ + 1]
              /\ content' = [content EXCEPT ![i][pos[f] + 1] = v]

Seek(f, p) ==
  /\ opened[f] # NoId /\ pos' = [pos EXCEPT ![f] = p]
  /\ UNCHANGED <<names, content, found, opened, denied>> /\ result' = <<>>

\* A call that changes nothing of the store.
Other ==
  UNCHANGED <<names, content, found, opened, pos, denied>> /\ result' = <<>>

Next ==
  \/ Other
  \/ \E n \in Name :
       \/ Unlink(n) \/ \E c \in Caller : Find(c, n)
       \/ \E i \in Id, len \in 0 .. MaxLength : Create(n, i, len)
  \/ \E c \in Caller : Forget(c) \/ \E f \in File : Open(c, f)
  \/ \E f \in File :
       \/ Close(f) \/ Read(f)
       \/ \E v \in Data : Write(f, v)
       \/ \E p \in 0 .. MaxLength : Seek(f, p)

Spec == Init /\ [][Next]_storeVars
=============================================================================
