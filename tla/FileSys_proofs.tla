---------------------------- MODULE FileSys_proofs ----------------------------
(***************************************************************************)
(* Proofs about FileSys, where every access of a call to what processes    *)
(* share is a step: FileSysInv is inductive, for any number of processes,  *)
(* files, inodes, sectors and calls.  Until two calls have met on the list *)
(* of open inodes, inodes count their openers; until two have met at all,  *)
(* files own their sectors.                                                *)
(***************************************************************************)
EXTENDS FileSys, KernelList_proofs

-----------------------------------------------------------------------------
(* Numbers, gaps and records *)

LEMMA MinIs ==
  ASSUME NEW T \in SUBSET Nat, T # {}
  PROVE  Min(T) \in T /\ \A n \in T : Min(T) <= n
<1>1. \E m \in T : \A n \in T : m <= n
  BY LeastNatural
<1> QED
  BY <1>1 DEF Min

LEMMA MaxLengthIs == Max(Lengths) \in Nat /\ \A len \in Lengths : len <= Max(Lengths)
<1>1. Max(Lengths) \in Lengths /\ \A len \in Lengths : len <= Max(Lengths)
  BY FileSysAssumption DEF Max
<1> QED
  BY <1>1, FileSysAssumption

LEMMA LengthsAre == Lengths \cup {0} \subseteq Nat
<1>1. Lengths \subseteq Nat
  BY FileSysAssumption, Zenon
<1> QED
  BY <1>1

LEMMA SectorIs == Sector \in SUBSET Nat /\ None \notin Sector /\ Sectors \in Nat
BY FileSysAssumption DEF Sector

\* bitmap_scan() finds sectors that are free.
LEMMA GapIs ==
  ASSUME NEW map, NEW cnt \in Nat, Gaps(map, cnt) # {}
  PROVE  /\ Min(Gaps(map, cnt)) \in Nat
         /\ Extent(Min(Gaps(map, cnt)), cnt) \subseteq Sector \ map
         /\ cnt = 1 => Min(Gaps(map, cnt)) \in Sector \ map
<1> DEFINE start == Min(Gaps(map, cnt))
<1>1. Gaps(map, cnt) \in SUBSET Nat
  BY SectorIs DEF Gaps
<1>2. start \in Gaps(map, cnt)
  BY <1>1, MinIs
<1> HIDE DEF start
<1>3. CASE cnt = 0
  BY <1>2, <1>3 DEF Gaps, Extent, start
<1>4. CASE cnt # 0
  <2>1. start \in Sector /\ Extent(start, cnt) \subseteq Sector \ map
    BY <1>2, <1>4 DEF Gaps
  <2>2. start \in Nat /\ (cnt = 1 => start \in Extent(start, cnt))
    BY <2>1, SectorIs DEF Extent
  <2> QED
    BY <2>1, <2>2 DEF start
<1> QED
  BY <1>3, <1>4

LEMMA NoneIs ==
  /\ None \notin Name /\ None \notin Inode /\ None \notin File /\ None \notin Sector
  /\ None \notin InodeRecord /\ None \notin FileRecord /\ None \notin Entry
BY FileSysAssumption, NoneAssumption

LEMMA NoCallIs ==
  /\ NoCall \in Call /\ NoCall.op = "none" /\ NoCall.name = None /\ NoCall.sector = None
  /\ NoCall.inode = None /\ NoCall.file = None /\ NoCall.start = 0 /\ NoCall.length = 0
<1>1. 0 \in 0 .. Slots /\ 0 \in Nat
  BY FileSysAssumption
<1> QED
  BY <1>1 DEF NoCall, Call

Op == {"none", "load", "open", "exec", "create", "remove", "close", "exit"}

LEMMA CallIs ==
  ASSUME NEW c \in Call
  PROVE  /\ c.op \in Op
         /\ c.name \in Name \cup {None} /\ c.length \in Lengths \cup {0} /\ c.length \in Nat
         /\ c.sector \in Sector \cup {None} /\ c.start \in Nat /\ c.inode \in Inode \cup {None}
         /\ c.entry \in 0 .. Slots /\ c.file \in File \cup {None}
<1>1. Lengths \subseteq Nat
  BY FileSysAssumption
<1>2. c.op \in Op
  BY DEF Call, Op
<1>3. /\ c.name \in Name \cup {None} /\ c.length \in Lengths \cup {0}
      /\ c.sector \in Sector \cup {None} /\ c.start \in Nat
  BY DEF Call
<1>4. c.inode \in Inode \cup {None} /\ c.entry \in 0 .. Slots /\ c.file \in File \cup {None}
  BY DEF Call
<1>5. c.length \in Nat
  BY <1>1, <1>3
<1> QED
  BY <1>2, <1>3, <1>4, <1>5

\* A call that has learned one more thing.
LEMMA CallWith ==
  ASSUME NEW c \in Call
  PROVE  /\ \A op \in Op : /\ [c EXCEPT !.op = op] \in Call /\ [c EXCEPT !.op = op].op = op
                          /\ [c EXCEPT !.op = op].inode = c.inode
                          /\ [c EXCEPT !.op = op].file = c.file
         /\ \A n \in Name \cup {None} : [c EXCEPT !.name = n] \in Call
         /\ \A len \in Lengths \cup {0} : [c EXCEPT !.length = len] \in Call
         /\ \A s \in Sector \cup {None} : [c EXCEPT !.sector = s] \in Call
         /\ \A a \in Nat : [c EXCEPT !.start = a] \in Call
         /\ \A i \in Inode \cup {None} : [c EXCEPT !.inode = i] \in Call
         /\ \A e \in 0 .. Slots : [c EXCEPT !.entry = e] \in Call
         /\ \A f \in File \cup {None} : [c EXCEPT !.file = f] \in Call
<1>1. \A op \in Op : /\ [c EXCEPT !.op = op] \in Call /\ [c EXCEPT !.op = op].op = op
                     /\ [c EXCEPT !.op = op].inode = c.inode /\ [c EXCEPT !.op = op].file = c.file
  BY DEF Call, Op
<1>2. \A n \in Name \cup {None} : [c EXCEPT !.name = n] \in Call
  BY DEF Call
<1>3. \A len \in Lengths \cup {0} : [c EXCEPT !.length = len] \in Call
  BY DEF Call
<1>4. \A s \in Sector \cup {None} : [c EXCEPT !.sector = s] \in Call
  BY DEF Call
<1>5. \A a \in Nat : [c EXCEPT !.start = a] \in Call
  BY DEF Call
<1>6. \A i \in Inode \cup {None} : [c EXCEPT !.inode = i] \in Call
  BY DEF Call
<1>7. \A e \in 0 .. Slots : [c EXCEPT !.entry = e] \in Call
  BY DEF Call
<1>8. \A f \in File \cup {None} : [c EXCEPT !.file = f] \in Call
  BY DEF Call
<1> QED
  BY <1>1, <1>2, <1>3, <1>4, <1>5, <1>6, <1>7, <1>8

\* A call that begins.
Beginning(op, n, len) == [NoCall EXCEPT !.op = op, !.name = n, !.length = len]

LEMMA FirstCall ==
  ASSUME NEW op \in Op, NEW n \in Name, NEW len \in Lengths \cup {0}
  PROVE  /\ Beginning(op, n, len) \in Call /\ Beginning(op, n, len).op = op
         /\ Beginning(op, n, len).name = n /\ Beginning(op, n, len).length = len
         /\ Beginning(op, n, len).inode = None /\ Beginning(op, n, len).file = None
<1> DEFINE c  == Beginning(op, n, len)
           c1 == [NoCall EXCEPT !.op = op]
           c2 == [c1 EXCEPT !.name = n]
<1>1. c = [c2 EXCEPT !.length = len]
  BY DEF Beginning
<1>2. c1 \in Call
  BY NoCallIs, CallWith
<1> HIDE DEF c1
<1>3. c2 \in Call
  BY <1>2, CallWith
<1> HIDE DEF c2
<1>4. c \in Call
  BY <1>1, <1>3, CallWith
<1> QED
  BY NoCallIs, <1>4 DEF Call, Beginning

\* What is left of a call at its end.
LEMMA LastCall ==
  ASSUME NEW op \in Op, NEW i \in Inode \cup {None}
  PROVE  /\ [NoCall EXCEPT !.op = op] \in Call
         /\ [NoCall EXCEPT !.op = op].op = op /\ [NoCall EXCEPT !.op = op].inode = None
         /\ [NoCall EXCEPT !.op = op].file = None
         /\ [NoCall EXCEPT !.op = op, !.inode = i] \in Call
         /\ [NoCall EXCEPT !.op = op, !.inode = i].op = op
         /\ [NoCall EXCEPT !.op = op, !.inode = i].inode = i
         /\ [NoCall EXCEPT !.op = op, !.inode = i].file = None
<1>1. [NoCall EXCEPT !.op = op, !.inode = i] = [[NoCall EXCEPT !.op = op] EXCEPT !.inode = i]
  OBVIOUS
<1>2. [NoCall EXCEPT !.op = op, !.inode = i] \in Call /\ [NoCall EXCEPT !.op = op] \in Call
  BY <1>1, NoCallIs, CallWith
<1> QED
  BY NoCallIs, <1>2 DEF Call

\* load() has its file.
Loading(f) == [NoCall EXCEPT !.op = "load", !.file = f]

LEMMA LoadedCall ==
  ASSUME NEW f \in File
  PROVE  /\ Loading(f) \in Call /\ Loading(f).op = "load"
         /\ Loading(f).inode = None /\ Loading(f).file = f
<1> DEFINE c1 == [NoCall EXCEPT !.op = "load"]
<1>1. Loading(f) = [c1 EXCEPT !.file = f]
  BY DEF Loading
<1>2. c1 \in Call
  BY NoCallIs, CallWith DEF Op
<1> HIDE DEF c1
<1>3. Loading(f) \in Call
  BY <1>1, <1>2, CallWith
<1> QED
  BY NoCallIs, <1>3 DEF Call, Loading

\* What is in memory.
LEMMA MemoryIs ==
  ASSUME TypeOK
  PROVE  /\ \A i \in InUse : /\ i \in Inode /\ inode[i] \in InodeRecord
                             /\ inode[i].sector \in Sector /\ inode[i].data \in DiskInode
                             /\ inode[i].data.start \in Nat
                             /\ inode[i].data.length \in Lengths \cup {0}
         /\ \A i \in Inode : inode[i] # None => i \in InUse
         /\ \A f \in Opened : /\ f \in File /\ file[f] \in FileRecord /\ file[f].inode \in Inode
                              /\ file[f].pos \in Nat /\ file[f].deny_write \in BOOLEAN
         /\ \A f \in File : file[f] # None => f \in Opened
         /\ IsFiniteSet(InUse) /\ IsFiniteSet(Opened)
<1>1. InUse \subseteq Inode /\ Opened \subseteq File
  BY DEF InUse, Opened
<1>2. IsFiniteSet(InUse) /\ IsFiniteSet(Opened)
  BY <1>1, FS_Subset, FileSysAssumption
<1>3. \A i \in InUse : inode[i] \in InodeRecord
  BY DEF InUse, TypeOK
<1>4. \A f \in Opened : file[f] \in FileRecord
  BY DEF Opened, TypeOK
<1> QED
  BY <1>1, <1>2, <1>3, <1>4 DEF InUse, Opened, InodeRecord, FileRecord, DiskInode

\* inode_open()'s search.
LEMMA FoundIn ==
  ASSUME TypeOK, NEW s, Found(s) # None
  PROVE  Found(s) \in Inode /\ inode[Found(s)] # None /\ inode[Found(s)].sector = s
         /\ Found(s) \in Range(open_inodes)
<1> DEFINE hits == {k \in 1 .. Len(open_inodes) : inode[open_inodes[k]] # None
                                                 /\ inode[open_inodes[k]].sector = s}
<1>1. DOMAIN open_inodes = 1 .. Len(open_inodes) /\ Len(open_inodes) \in Nat
      /\ \A k \in 1 .. Len(open_inodes) : open_inodes[k] \in Inode
  BY LenProperties DEF TypeOK
<1>2. hits # {} /\ hits \in SUBSET Nat /\ Found(s) = open_inodes[Min(hits)]
  BY DEF Found
<1>3. Min(hits) \in hits
  BY <1>2, MinIs
<1> QED
  BY <1>1, <1>2, <1>3 DEF Range

\* Two calls that know the same but for the fields in `but'.
Alike(c, d, but) ==
  /\ "op" \in but \/ d.op = c.op
  /\ "name" \in but \/ d.name = c.name
  /\ "length" \in but \/ d.length = c.length
  /\ "sector" \in but \/ d.sector = c.sector
  /\ "start" \in but \/ d.start = c.start
  /\ "inode" \in but \/ d.inode = c.inode
  /\ "entry" \in but \/ d.entry = c.entry
  /\ "file" \in but \/ d.file = c.file

LEMMA OneMore ==
  ASSUME NEW c \in Call
  PROVE  /\ \A s \in Sector \cup {None} :
              /\ [c EXCEPT !.sector = s] \in Call /\ [c EXCEPT !.sector = s].sector = s
              /\ Alike(c, [c EXCEPT !.sector = s], {"sector"})
         /\ \A a \in Nat :
              /\ [c EXCEPT !.start = a] \in Call /\ [c EXCEPT !.start = a].start = a
              /\ Alike(c, [c EXCEPT !.start = a], {"start"})
         /\ \A i \in Inode \cup {None} :
              /\ [c EXCEPT !.inode = i] \in Call /\ [c EXCEPT !.inode = i].inode = i
              /\ Alike(c, [c EXCEPT !.inode = i], {"inode"})
         /\ \A e \in 0 .. Slots :
              /\ [c EXCEPT !.entry = e] \in Call /\ [c EXCEPT !.entry = e].entry = e
              /\ Alike(c, [c EXCEPT !.entry = e], {"entry"})
         /\ \A len \in Lengths \cup {0} :
              /\ [c EXCEPT !.length = len] \in Call /\ [c EXCEPT !.length = len].length = len
              /\ Alike(c, [c EXCEPT !.length = len], {"length"})
<1>1. ASSUME NEW s \in Sector \cup {None}
      PROVE  /\ [c EXCEPT !.sector = s] \in Call /\ [c EXCEPT !.sector = s].sector = s
             /\ Alike(c, [c EXCEPT !.sector = s], {"sector"})
  BY DEF Call, Alike
<1>2. ASSUME NEW a \in Nat
      PROVE  /\ [c EXCEPT !.start = a] \in Call /\ [c EXCEPT !.start = a].start = a
             /\ Alike(c, [c EXCEPT !.start = a], {"start"})
  BY DEF Call, Alike
<1>3. ASSUME NEW i \in Inode \cup {None}
      PROVE  /\ [c EXCEPT !.inode = i] \in Call /\ [c EXCEPT !.inode = i].inode = i
             /\ Alike(c, [c EXCEPT !.inode = i], {"inode"})
  BY DEF Call, Alike
<1>4. ASSUME NEW e \in 0 .. Slots
      PROVE  /\ [c EXCEPT !.entry = e] \in Call /\ [c EXCEPT !.entry = e].entry = e
             /\ Alike(c, [c EXCEPT !.entry = e], {"entry"})
  BY DEF Call, Alike
<1>5. ASSUME NEW len \in Lengths \cup {0}
      PROVE  /\ [c EXCEPT !.length = len] \in Call /\ [c EXCEPT !.length = len].length = len
             /\ Alike(c, [c EXCEPT !.length = len], {"length"})
  BY DEF Call, Alike
<1> QED
  BY <1>1, <1>2, <1>3, <1>4, <1>5

\* A call that has found an entry, and one that has found its extent.
Entering(c, e, s) == [c EXCEPT !.entry = e, !.sector = s]

LEMMA FoundMore ==
  ASSUME NEW c \in Call, NEW e \in 0 .. Slots, NEW s \in Sector \cup {None}
  PROVE  /\ Entering(c, e, s) \in Call /\ Entering(c, e, s).entry = e
         /\ Entering(c, e, s).sector = s /\ Alike(c, Entering(c, e, s), {"entry", "sector"})
<1> DEFINE d1 == [c EXCEPT !.entry = e]
           d2 == [d1 EXCEPT !.sector = s]
<1>1. Entering(c, e, s) = d2
  BY DEF Entering
<1>2. d1 \in Call /\ d1.entry = e /\ Alike(c, d1, {"entry"})
  BY OneMore
<1> HIDE DEF d1
<1>3. d2 \in Call /\ d2.sector = s /\ Alike(d1, d2, {"sector"})
  BY <1>2, OneMore
<1> HIDE DEF d2
<1> QED
  BY <1>1, <1>2, <1>3 DEF Alike

Extending(c, a, len) == [c EXCEPT !.start = a, !.length = len]

LEMMA ExtentMore ==
  ASSUME NEW c \in Call, NEW a \in Nat, NEW len \in Lengths \cup {0}
  PROVE  /\ Extending(c, a, len) \in Call /\ Extending(c, a, len).start = a
         /\ Extending(c, a, len).length = len
         /\ Alike(c, Extending(c, a, len), {"start", "length"})
<1> DEFINE d1 == [c EXCEPT !.start = a]
           d2 == [d1 EXCEPT !.length = len]
<1>1. Extending(c, a, len) = d2
  BY DEF Extending
<1>2. d1 \in Call /\ d1.start = a /\ Alike(c, d1, {"start"})
  BY OneMore
<1> HIDE DEF d1
<1>3. d2 \in Call /\ d2.length = len /\ Alike(d1, d2, {"length"})
  BY <1>2, OneMore
<1> HIDE DEF d2
<1> QED
  BY <1>1, <1>2, <1>3 DEF Alike

\* What inode_close() has to release.
Releasing(c, s, a, len) == [c EXCEPT !.inode = None, !.sector = s, !.start = a, !.length = len]

LEMMA ReleaseMore ==
  ASSUME NEW c \in Call, NEW s \in Sector, NEW a \in Nat, NEW len \in Lengths \cup {0},
         NEW d, d = Releasing(c, s, a, len)
  PROVE  /\ d \in Call /\ d.inode = None /\ d.sector = s /\ d.start = a /\ d.length = len
         /\ Alike(c, d, {"inode", "sector", "start", "length"})
<1> DEFINE d1 == [c EXCEPT !.inode = None]
           d2 == [d1 EXCEPT !.sector = s]
<1>1. d = Extending(d2, a, len)
  BY DEF Releasing, Extending
<1>2. d1 \in Call /\ d1.inode = None /\ Alike(c, d1, {"inode"})
  BY OneMore
<1> HIDE DEF d1
<1>3. d2 \in Call /\ d2.sector = s /\ Alike(d1, d2, {"sector"})
  BY <1>2, OneMore
<1> HIDE DEF d2
<1>4. d \in Call /\ d.start = a /\ d.length = len /\ Alike(d2, d, {"start", "length"})
  BY <1>1, <1>3, ExtentMore
<1> QED
  BY <1>2, <1>3, <1>4 DEF Alike

-----------------------------------------------------------------------------
(* Where a step takes a call *)

\* The step of p takes its call to place l, where it knows c; others stay.
Moves(p, l, c) ==
  /\ To(p, l, c) /\ l \in Location /\ c \in Call /\ Shape(l, c)
  /\ c.op = "open" => Locked(p) \/ MutexUp

LEMMA MovesIs ==
  ASSUME TypeOK, NEW p \in Proc, NEW l, NEW c, Moves(p, l, c)
  PROVE  /\ pc' \in [Proc -> Location] /\ call' \in [Proc -> Call]
         /\ pc'[p] = l /\ call'[p] = c
         /\ \A q \in Proc : q # p => pc'[q] = pc[q] /\ call'[q] = call[q]
         /\ Shapes => Shapes'
         /\ OneLocked => OneLocked'
<1>1. /\ pc' \in [Proc -> Location] /\ call' \in [Proc -> Call]
      /\ pc'[p] = l /\ call'[p] = c
      /\ \A q \in Proc : q # p => pc'[q] = pc[q] /\ call'[q] = call[q]
  BY DEF Moves, To, TypeOK
<1>2. Shapes => Shapes'
  BY <1>1 DEF Shapes, Moves
<1>3. OneLocked => OneLocked'
  BY <1>1 DEF OneLocked, Locked, MutexUp, Moves
<1> QED
  BY <1>1, <1>2, <1>3

\* The calls that begin with a name.
LEMMA StartMoves ==
  ASSUME TypeOK, NEW p \in Proc, NEW op \in Opening \cup {"create", "remove"}, NEW n \in Name,
         NEW len \in Lengths \cup {0}, Start(p, op, n, len), op = "open" => MutexUp
  PROVE  Moves(p, "root", Beginning(op, n, len))
<1> DEFINE c == Beginning(op, n, len)
<1>1. op \in Op
  BY DEF Op, Opening
<1>2. /\ c \in Call /\ c.op = op /\ c.name = n /\ c.inode = None /\ c.file = None
  BY <1>1, FirstCall
<1>3. To(p, "root", c)
  BY DEF Start, Beginning
<1> HIDE DEF c
<1>4. "root" \in Location /\ n # None
  BY NoneIs DEF Location
<1>5. Shape("root", c)
  BY <1>2, <1>4 DEF Shape, AtInode, AtSector, AtNew, Opening
<1>6. Moves(p, "root", c)
  BY <1>2, <1>3, <1>4, <1>5 DEF Moves
<1> QED
  BY <1>6 DEF c

LEMMA ToMoves ==
  ASSUME NEW p \in Proc, NEW l \in Location, NEW c \in Call, To(p, l, c), Shape(l, c),
         c.op = call[p].op \/ c.op # "open"
  PROVE  Moves(p, l, c)
BY DEF Moves, Locked

LEMMA GotoMoves ==
  ASSUME TypeOK, NEW p \in Proc, NEW l \in Location, Goto(p, l), Shape(l, call[p])
  PROVE  Moves(p, l, call[p])
<1>1. call[p] \in Call
  BY DEF TypeOK
<1> QED
  BY <1>1, ToMoves DEF Goto

LEMMA ReturnMoves ==
  ASSUME NEW p \in Proc, Return(p)
  PROVE  Moves(p, "user", NoCall)
<1>1. "user" \in Location
  BY DEF Location
<1>2. Shape("user", NoCall)
  BY NoCallIs DEF Shape, AtInode, AtSector, AtNew
<1> QED
  BY <1>1, <1>2, NoCallIs, ToMoves DEF Return

LEMMA EndMoves ==
  ASSUME NEW p \in Proc, End(p)
  PROVE  Moves(p, "ended", NoCall)
<1>1. "ended" \in Location
  BY DEF Location
<1>2. Shape("ended", NoCall)
  BY NoCallIs DEF Shape, AtInode, AtSector, AtNew
<1> QED
  BY <1>1, <1>2, NoCallIs, ToMoves DEF End

\* A call that only has its name left.
Only(op) == [NoCall EXCEPT !.op = op]

LEMMA OnlyMoves ==
  ASSUME NEW p \in Proc, NEW op \in Op \ {"open"}, NEW l \in {"leave", "exit"},
         To(p, l, [NoCall EXCEPT !.op = op])
  PROVE  Moves(p, l, Only(op)) /\ Only(op).op = op /\ Only(op).inode = None /\ Only(op).file = None
<1>1. Only(op) \in Call /\ Only(op).op = op /\ Only(op).inode = None /\ Only(op).file = None
  BY LastCall DEF Only
<1>2. l \in Location /\ To(p, l, Only(op))
  BY DEF Location, Only
<1>3. Shape(l, Only(op))
  BY <1>1 DEF Shape, AtInode, AtSector, AtNew
<1> QED
  BY <1>1, <1>2, <1>3, ToMoves

\* A call that is to close an inode.
Closing(op, i) == [NoCall EXCEPT !.op = op, !.inode = i]

LEMMA ClosingMoves ==
  ASSUME NEW p \in Proc, NEW op \in Op, op # "open" \/ call[p].op = "open", NEW i \in Inode,
         To(p, "drop", Closing(op, i))
  PROVE  /\ Moves(p, "drop", Closing(op, i))
         /\ Closing(op, i).op = op /\ Closing(op, i).inode = i /\ Closing(op, i).file = None
<1>1. /\ Closing(op, i) \in Call
      /\ Closing(op, i).op = op /\ Closing(op, i).inode = i /\ Closing(op, i).file = None
  BY LastCall DEF Closing
<1>2. "drop" \in Location
  BY DEF Location
<1>3. Shape("drop", Closing(op, i))
  BY <1>1, NoneIs DEF Shape, AtInode, AtSector, AtNew
<1> QED
  BY <1>1, <1>2, <1>3, ToMoves

\* inode_close() ends.
LEMMA ClosedMoves ==
  ASSUME NEW p \in Proc, Closed(p)
  PROVE  \E l \in {"leave", "exit", "user"}, c \in Call :
            Moves(p, l, c) /\ c.inode = None /\ c.op \in {"remove", "exit", "none"}
            /\ (l = "leave" => c.op = "remove")
<1>1. CASE call[p].op = "remove"
  <2>1. To(p, "leave", [NoCall EXCEPT !.op = "remove"])
    BY <1>1 DEF Closed
  <2>2. Moves(p, "leave", Only("remove")) /\ Only("remove").inode = None
        /\ Only("remove").op = "remove"
    BY <2>1, OnlyMoves DEF Op
  <2> QED
    BY <2>2 DEF Moves
<1>2. CASE call[p].op = "exit"
  <2>1. To(p, "exit", [NoCall EXCEPT !.op = "exit"])
    BY <1>2 DEF Closed
  <2>2. Moves(p, "exit", Only("exit")) /\ Only("exit").inode = None /\ Only("exit").op = "exit"
    BY <2>1, OnlyMoves DEF Op
  <2> QED
    BY <2>2 DEF Moves
<1>3. CASE call[p].op \notin {"remove", "exit"}
  <2>1. Return(p)
    BY <1>3 DEF Closed
  <2> QED
    BY <2>1, ReturnMoves, NoCallIs
<1> QED
  BY <1>1, <1>2, <1>3

\* dir_open_root().
LEMMA DirOpenRootMoves ==
  ASSUME TypeOK, Shapes, NEW p \in Proc, DirOpenRoot(p)
  PROVE  \E l \in {"scan", "lookup", "leave"} : Moves(p, l, call[p])
<1>1. call[p] \in Call /\ Shape(pc[p], call[p])
  BY DEF TypeOK, Shapes
<1>2. PICK l \in {"scan", "lookup", "leave"} :
        Goto(p, l) /\ (l = "scan" => call[p].op = "create")
        /\ (l = "lookup" => call[p].op # "create")
  BY DEF DirOpenRoot
<1>3. pc[p] = "root" /\ l \in Location
  BY DEF DirOpenRoot, At, Location
<1>4. Shape(l, call[p])
  BY <1>1, <1>2, <1>3 DEF Shape, AtInode, AtSector, AtNew, Opening
<1> QED
  BY <1>2, <1>3, <1>4, GotoMoves

\* lookup().
LEMMA LookupMoves ==
  ASSUME TypeOK, Shapes, NEW p \in Proc, Lookup(p)
  PROVE  /\ Moves(p, "leave", call[p]) /\ Matches(call[p].name) = {} /\ call[p].inode = None
         \/ \E e \in 1 .. Slots, c \in Call :
               /\ Moves(p, "search", c) /\ c.op = call[p].op /\ c.inode = None
               /\ e \in Matches(call[p].name) /\ c.entry = e /\ c.sector = dir[e].sector
<1>1. call[p] \in Call /\ Shape(pc[p], call[p])
  BY DEF TypeOK, Shapes
<1>2. pc[p] = "lookup" /\ {"leave", "search"} \subseteq Location
  BY DEF Lookup, At, Location
<1>3. CASE Matches(call[p].name) = {}
  <2>1. Goto(p, "leave")
    BY <1>3 DEF Lookup
  <2>2. Shape("leave", call[p]) /\ call[p].inode = None
    BY <1>1, <1>2 DEF Shape, AtInode, AtSector, AtNew, Opening
  <2> QED
    BY <1>2, <1>3, <2>1, <2>2, GotoMoves
<1>4. CASE Matches(call[p].name) # {}
  <2> DEFINE e == Min(Matches(call[p].name))
             c == [call[p] EXCEPT !.entry = e, !.sector = dir[e].sector]
  <2>1. Matches(call[p].name) \in SUBSET Nat /\ Matches(call[p].name) \subseteq 1 .. Slots
    BY FileSysAssumption DEF Matches
  <2>2. e \in Matches(call[p].name) /\ e \in 1 .. Slots /\ dir[e] # None
    BY <1>4, <2>1, MinIs DEF Matches
  <2>3. dir[e] \in Entry
    BY <2>2 DEF TypeOK
  <2>4. dir[e].sector \in Sector /\ e \in 0 .. Slots
    BY <2>2, <2>3, FileSysAssumption DEF Entry
  <2>5. To(p, "search", c)
    BY <1>4 DEF Lookup
  <2> HIDE DEF e
  <2>6. c = Entering(call[p], e, dir[e].sector)
    BY DEF Entering
  <2> HIDE DEF c
  <2>7. c \in Call /\ c.entry = e /\ c.sector = dir[e].sector
        /\ Alike(call[p], c, {"entry", "sector"})
    BY <1>1, <2>4, <2>6, FoundMore
  <2>8. c.op = call[p].op /\ c.inode = call[p].inode /\ c.file = call[p].file
        /\ c.name = call[p].name
    BY <2>7 DEF Alike
  <2>9. Shape("search", c) /\ c.inode = None
    BY <1>1, <1>2, <2>4, <2>7, <2>8, NoneIs DEF Shape, AtInode, AtSector, AtNew, Opening
  <2>10. Moves(p, "search", c)
    BY <1>2, <2>5, <2>7, <2>8, <2>9, ToMoves
  <2> QED
    BY <2>2, <2>7, <2>8, <2>9, <2>10
<1> QED
  BY <1>3, <1>4

\* inode_open(), the search.
LEMMA SearchMoves ==
  ASSUME TypeOK, Shapes, NEW p \in Proc, Search(p)
  PROVE  /\ Moves(p, "insert", call[p]) /\ Found(call[p].sector) = None
         \/ \E i \in Inode, c \in Call :
               /\ Moves(p, "reopen", c) /\ c.op = call[p].op /\ c.inode = i
               /\ c.sector = call[p].sector /\ c.entry = call[p].entry
               /\ i = Found(call[p].sector)
<1>1. call[p] \in Call /\ Shape(pc[p], call[p])
  BY DEF TypeOK, Shapes
<1>2. pc[p] = "search" /\ {"insert", "reopen"} \subseteq Location
  BY DEF Search, At, Location
<1>3. CASE Found(call[p].sector) = None
  <2>1. Goto(p, "insert")
    BY <1>3 DEF Search
  <2>2. Shape("insert", call[p])
    BY <1>1, <1>2 DEF Shape, AtInode, AtSector, AtNew, Opening
  <2> QED
    BY <1>2, <1>3, <2>1, <2>2, GotoMoves
<1>4. CASE Found(call[p].sector) # None
  <2> DEFINE i == Found(call[p].sector)
             c == [call[p] EXCEPT !.inode = i]
  <2>1. i \in Inode
    BY <1>4, FoundIn
  <2>2. To(p, "reopen", c)
    BY <1>4 DEF Search
  <2> HIDE DEF i
  <2>3. c \in Call /\ c.inode = i /\ Alike(call[p], c, {"inode"})
    BY <1>1, <2>1, OneMore
  <2> HIDE DEF c
  <2>4. /\ c.op = call[p].op /\ c.file = call[p].file /\ c.name = call[p].name
        /\ c.sector = call[p].sector /\ c.entry = call[p].entry
    BY <2>3 DEF Alike
  <2>5. Shape("reopen", c)
    BY <1>1, <1>2, <2>1, <2>3, <2>4, NoneIs DEF Shape, AtInode, AtSector, AtNew, Opening
  <2>6. Moves(p, "reopen", c)
    BY <1>2, <2>2, <2>3, <2>4, <2>5, ToMoves
  <2>7. i = Found(call[p].sector)
    BY DEF i
  <2> QED
    BY <2>1, <2>3, <2>4, <2>6, <2>7
<1> QED
  BY <1>3, <1>4

\* inode_open(), a new struct inode.
LEMMA InsertMoves ==
  ASSUME TypeOK, Shapes, NEW p \in Proc, Insert(p)
  PROVE  /\ Moves(p, "leave", call[p]) /\ UNCHANGED <<inode, open_inodes>>
         \/ \E i \in FreeInodes, c \in Call :
               /\ Moves(p, "header", c) /\ c.op = call[p].op /\ c.inode = i
               /\ c.sector = call[p].sector /\ c.entry = call[p].entry
               /\ inode' = [inode EXCEPT ![i] =
                    [sector |-> call[p].sector, open_cnt |-> 1, deny_write_cnt |-> 0,
                     removed |-> FALSE, data |-> NoHeader]]
               /\ open_inodes' = <<i>> \o open_inodes
<1>1. call[p] \in Call /\ Shape(pc[p], call[p])
  BY DEF TypeOK, Shapes
<1>2. pc[p] = "insert" /\ {"leave", "header"} \subseteq Location
  BY DEF Insert, At, Location
<1>3. CASE Goto(p, "leave") /\ UNCHANGED <<inode, open_inodes>>
  <2>1. Shape("leave", call[p])
    BY <1>1, <1>2 DEF Shape, AtInode, AtSector, AtNew, Opening
  <2> QED
    BY <1>2, <1>3, <2>1, GotoMoves
<1>4. ASSUME NEW i \in FreeInodes,
             To(p, "header", [call[p] EXCEPT !.inode = i]),
             inode' = [inode EXCEPT ![i] =
                    [sector |-> call[p].sector, open_cnt |-> 1, deny_write_cnt |-> 0,
                     removed |-> FALSE, data |-> NoHeader]],
             open_inodes' = <<i>> \o open_inodes
      PROVE  \E c \in Call :
               /\ Moves(p, "header", c) /\ c.op = call[p].op /\ c.inode = i
               /\ c.sector = call[p].sector /\ c.entry = call[p].entry
  <2> DEFINE c == [call[p] EXCEPT !.inode = i]
  <2>1. i \in Inode
    BY DEF FreeInodes
  <2>2. To(p, "header", c)
    BY <1>4
  <2>3. c \in Call /\ c.inode = i /\ Alike(call[p], c, {"inode"})
    BY <1>1, <2>1, OneMore
  <2> HIDE DEF c
  <2>4. /\ c.op = call[p].op /\ c.file = call[p].file /\ c.name = call[p].name
        /\ c.sector = call[p].sector /\ c.entry = call[p].entry
    BY <2>3 DEF Alike
  <2>5. Shape("header", c)
    BY <1>1, <1>2, <2>1, <2>3, <2>4, NoneIs DEF Shape, AtInode, AtSector, AtNew, Opening
  <2>6. Moves(p, "header", c)
    BY <1>2, <2>2, <2>3, <2>4, <2>5, ToMoves
  <2> QED
    BY <2>1, <2>3, <2>4, <2>6
<1> QED
  BY <1>3, <1>4 DEF Insert

\* A call that has its inode goes on with it.
LEMMA HeldMoves ==
  ASSUME TypeOK, Shapes, NEW p \in Proc, Reopen(p) \/ ReadHeader(p)
  PROVE  Moves(p, WithInode(p), call[p])
<1>1. call[p] \in Call /\ Shape(pc[p], call[p])
  BY DEF TypeOK, Shapes
<1>2. Goto(p, WithInode(p)) /\ pc[p] \in {"reopen", "header"}
  BY DEF Reopen, ReadHeader, At
<1>3. WithInode(p) \in Location
  BY DEF WithInode, Location
<1>4. Shape(WithInode(p), call[p])
  BY <1>1, <1>2 DEF WithInode, Shape, AtInode, AtSector, AtNew, Opening
<1> QED
  BY <1>2, <1>3, <1>4, GotoMoves

\* inode_close(), the count.
LEMMA DropMoves ==
  ASSUME TypeOK, Shapes, NEW p \in Proc, Drop(p)
  PROVE  /\ Moves(p, "unlist", call[p]) /\ IsLast(call[p].inode)
         \/ /\ Closed(p) /\ ~IsLast(call[p].inode)
<1>1. call[p] \in Call /\ Shape(pc[p], call[p])
  BY DEF TypeOK, Shapes
<1>2. pc[p] = "drop" /\ "unlist" \in Location
  BY DEF Drop, At, Location
<1>3. CASE IsLast(call[p].inode)
  <2>1. Goto(p, "unlist")
    BY <1>3 DEF Drop
  <2>2. Shape("unlist", call[p])
    BY <1>1, <1>2 DEF Shape, AtInode, AtSector, AtNew, Opening
  <2> QED
    BY <1>2, <1>3, <2>1, <2>2, GotoMoves
<1> QED
  BY <1>3 DEF Drop

\* inode_close(), the end of the last.
LEMMA UnlistMoves ==
  ASSUME TypeOK, Shapes, NEW p \in Proc, Unlist(p)
  PROVE  /\ Closed(p) /\ ~inode[call[p].inode].removed
         \/ \E c \in Call :
              /\ Moves(p, "release", c) /\ inode[call[p].inode].removed
              /\ c.op = call[p].op /\ c.inode = None /\ c.sector = inode[call[p].inode].sector
              /\ c.start = inode[call[p].inode].data.start
              /\ c.length = inode[call[p].inode].data.length
<1>1. call[p] \in Call /\ Shape(pc[p], call[p])
  BY DEF TypeOK, Shapes
<1> DEFINE i == call[p].inode
           s == inode[i].sector
           a == inode[i].data.start
           len == inode[i].data.length
<1>2. pc[p] = "unlist" /\ "release" \in Location /\ inode[i] # None
  BY DEF Unlist, At, Location
<1>3. i \in Inode
  BY <1>1, <1>2, CallIs DEF Shape, AtInode
<1>4. s \in Sector /\ a \in Nat /\ len \in Lengths \cup {0}
  BY <1>2, <1>3, MemoryIs
<1>5. CASE ~inode[i].removed
  BY <1>5 DEF Unlist
<1>6. CASE inode[i].removed
  <2> DEFINE c == Releasing(call[p], s, a, len)
  <2>1. To(p, "release", c)
    BY <1>6 DEF Unlist, Releasing
  <2> HIDE DEF s, a, len, i, c
  <2>2. /\ c \in Call /\ c.inode = None /\ c.sector = s /\ c.start = a /\ c.length = len
        /\ Alike(call[p], c, {"inode", "sector", "start", "length"})
    BY <1>1, <1>4, ReleaseMore DEF c
  <2>3. c.op = call[p].op /\ c.file = call[p].file /\ c.name = call[p].name
    BY <2>2 DEF Alike
  <2>4. Shape("release", c)
    BY <1>1, <1>2, <1>4, <2>2, <2>3, NoneIs DEF Shape, AtInode, AtSector, AtNew, Opening
  <2>5. Moves(p, "release", c)
    BY <1>2, <2>1, <2>2, <2>3, <2>4, ToMoves
  <2> QED
    BY <1>6, <2>2, <2>3, <2>5 DEF s, a, len, i
<1> QED
  BY <1>5, <1>6

\* Steps that only use what the call knows.
LEMMA OnwardMoves ==
  ASSUME TypeOK, Shapes, NEW p \in Proc, NEW l \in Location, Goto(p, l),
         <<pc[p], l>> \in {<<"release", "release_data">>, <<"flip", "scan_data">>,
                          <<"flip_data", "write_header">>, <<"write_header", "zeros">>,
                          <<"scan", "leave">>, <<"scan_data", "undo">>, <<"add", "slot">>,
                          <<"add", "undo">>, <<"slot", "undo">>, <<"erase", "mark">>}
  PROVE  Moves(p, l, call[p])
<1>1. call[p] \in Call /\ Shape(pc[p], call[p])
  BY DEF TypeOK, Shapes
<1>2. Shape(l, call[p])
  BY <1>1 DEF Shape, AtInode, AtSector, AtNew, Opening
<1> QED
  BY <1>2, GotoMoves

\* free_map_allocate() of a sector, the search.
LEMMA ScanMoves ==
  ASSUME TypeOK, Shapes, NEW p \in Proc, Scan(p)
  PROVE  /\ Moves(p, "leave", call[p]) /\ call[p].inode = None
         \/ \E s \in Sector, c \in Call :
              /\ Moves(p, "flip", c) /\ c.op = call[p].op /\ c.sector = s /\ s \notin free_map
              /\ c.inode = None
<1>1. call[p] \in Call /\ Shape(pc[p], call[p])
  BY DEF TypeOK, Shapes
<1>2. pc[p] = "scan" /\ {"leave", "flip"} \subseteq Location /\ 1 \in Nat
  BY DEF Scan, At, Location
<1>3. CASE Gaps(free_map, 1) = {}
  <2>1. Goto(p, "leave")
    BY <1>3 DEF Scan
  <2>2. call[p].inode = None
    BY <1>1, <1>2 DEF Shape, AtInode, AtSector, AtNew, Opening
  <2> QED
    BY <1>2, <2>1, <2>2, OnwardMoves
<1>4. CASE Gaps(free_map, 1) # {}
  <2> DEFINE s == Min(Gaps(free_map, 1))
             c == [call[p] EXCEPT !.sector = s]
  <2>1. s \in Sector \ free_map
    BY <1>2, <1>4, GapIs
  <2>2. To(p, "flip", c)
    BY <1>4 DEF Scan
  <2> HIDE DEF s
  <2>3. c \in Call /\ c.sector = s /\ Alike(call[p], c, {"sector"})
    BY <1>1, <2>1, OneMore
  <2> HIDE DEF c
  <2>4. c.op = call[p].op /\ c.file = call[p].file /\ c.name = call[p].name
        /\ c.inode = call[p].inode
    BY <2>3 DEF Alike
  <2>5. Shape("flip", c) /\ c.inode = None
    BY <1>1, <1>2, <2>1, <2>3, <2>4, NoneIs DEF Shape, AtInode, AtSector, AtNew, Opening
  <2>6. Moves(p, "flip", c)
    BY <1>2, <2>2, <2>3, <2>4, <2>5, ToMoves
  <2> QED
    BY <2>1, <2>3, <2>4, <2>5, <2>6
<1> QED
  BY <1>3, <1>4

\* free_map_allocate() of the data, the search.
LEMMA ScanDataMoves ==
  ASSUME TypeOK, Shapes, NEW p \in Proc, ScanData(p)
  PROVE  /\ Moves(p, "undo", call[p])
         \/ \E c \in Call :
              /\ Moves(p, "flip_data", c) /\ c.op = call[p].op /\ c.sector = call[p].sector
              /\ c.inode = None
              /\ Extent(c.start, c.length) \cap free_map = {}
<1>1. call[p] \in Call /\ Shape(pc[p], call[p])
  BY DEF TypeOK, Shapes
<1>2. pc[p] = "scan_data" /\ {"undo", "flip_data"} \subseteq Location
  BY DEF ScanData, At, Location
<1>3. CASE Goto(p, "undo")
  BY <1>2, <1>3, OnwardMoves
<1>4. CASE /\ Gaps(free_map, call[p].length) # {}
           /\ To(p, "flip_data", [call[p] EXCEPT !.start = Min(Gaps(free_map, call[p].length))])
  <2> DEFINE a == Min(Gaps(free_map, call[p].length))
             c == [call[p] EXCEPT !.start = a]
  <2>1. call[p].length \in Nat
    BY <1>1, CallIs
  <2>2. a \in Nat /\ Extent(a, call[p].length) \subseteq Sector \ free_map
    BY <2>1, <1>4, GapIs
  <2>3. To(p, "flip_data", c)
    BY <1>4
  <2> HIDE DEF a
  <2>4. c \in Call /\ c.start = a /\ Alike(call[p], c, {"start"})
    BY <1>1, <2>2, OneMore
  <2> HIDE DEF c
  <2>5. c.op = call[p].op /\ c.file = call[p].file /\ c.name = call[p].name
        /\ c.inode = call[p].inode /\ c.sector = call[p].sector /\ c.length = call[p].length
    BY <2>4 DEF Alike
  <2>6. Shape("flip_data", c) /\ c.inode = None
    BY <1>1, <1>2, <2>2, <2>4, <2>5 DEF Shape, AtInode, AtSector, AtNew, Opening
  <2>7. Moves(p, "flip_data", c)
    BY <1>2, <2>3, <2>4, <2>5, <2>6, ToMoves
  <2> QED
    BY <2>2, <2>4, <2>5, <2>6, <2>7
<1> QED
  BY <1>3, <1>4 DEF ScanData

\* inode_create(), the end.
LEMMA WriteZerosMoves ==
  ASSUME TypeOK, Shapes, NEW p \in Proc, WriteZeros(p)
  PROVE  \E c \in Call : Moves(p, "add", c) /\ c.op = call[p].op /\ c.sector = call[p].sector
                        /\ c.inode = None
<1>1. call[p] \in Call /\ Shape(pc[p], call[p])
  BY DEF TypeOK, Shapes
<1>2. pc[p] = "zeros" /\ "add" \in Location
  BY DEF WriteZeros, At, Location
<1> DEFINE c == Extending(call[p], 0, 0)
<1>3. To(p, "add", c)
  BY DEF WriteZeros, Extending
<1> HIDE DEF c
<1>4. c \in Call /\ Alike(call[p], c, {"start", "length"})
  BY <1>1, ExtentMore DEF c
<1>5. c.op = call[p].op /\ c.file = call[p].file /\ c.name = call[p].name
      /\ c.inode = call[p].inode /\ c.sector = call[p].sector
  BY <1>4 DEF Alike
<1>6. Shape("add", c) /\ c.inode = None
  BY <1>1, <1>2, <1>4, <1>5 DEF Shape, AtInode, AtSector, AtNew, Opening
<1>7. Moves(p, "add", c)
  BY <1>2, <1>3, <1>4, <1>5, <1>6, ToMoves
<1> QED
  BY <1>4, <1>5, <1>6, <1>7

\* dir_add(), the name.
LEMMA CheckNameMoves ==
  ASSUME TypeOK, Shapes, NEW p \in Proc, CheckName(p)
  PROVE  \E l \in {"slot", "undo"} : Moves(p, l, call[p])
<1>1. PICK l \in {"slot", "undo"} : Goto(p, l) /\ pc[p] = "add"
  BY DEF CheckName, At
<1>2. l \in Location
  BY DEF Location
<1> QED
  BY <1>1, <1>2, OnwardMoves

\* dir_add(), the slot.
LEMMA FindSlotMoves ==
  ASSUME TypeOK, Shapes, NEW p \in Proc, FindSlot(p)
  PROVE  /\ Moves(p, "undo", call[p])
         \/ \E e \in 1 .. Slots, c \in Call :
              /\ Moves(p, "entry", c) /\ c.op = call[p].op /\ c.sector = call[p].sector
              /\ c.inode = None /\ c.entry = e /\ dir[e] = None
<1>1. call[p] \in Call /\ Shape(pc[p], call[p])
  BY DEF TypeOK, Shapes
<1>2. pc[p] = "slot" /\ {"undo", "entry"} \subseteq Location
  BY DEF FindSlot, At, Location
<1>3. CASE FreeSlots = {}
  <2>1. Goto(p, "undo")
    BY <1>3 DEF FindSlot
  <2> QED
    BY <1>2, <2>1, OnwardMoves
<1>4. CASE FreeSlots # {}
  <2> DEFINE e == Min(FreeSlots)
             c == [call[p] EXCEPT !.entry = e]
  <2>1. FreeSlots \in SUBSET Nat
    BY FileSysAssumption DEF FreeSlots
  <2>2. e \in 1 .. Slots /\ dir[e] = None
    BY <1>4, <2>1, MinIs DEF FreeSlots
  <2>3. To(p, "entry", c)
    BY <1>4 DEF FindSlot
  <2> HIDE DEF e
  <2>4. e \in 0 .. Slots
    BY <2>2, FileSysAssumption
  <2>5. c \in Call /\ c.entry = e /\ Alike(call[p], c, {"entry"})
    BY <1>1, <2>4, OneMore
  <2> HIDE DEF c
  <2>6. c.op = call[p].op /\ c.file = call[p].file /\ c.name = call[p].name
        /\ c.inode = call[p].inode /\ c.sector = call[p].sector
    BY <2>5 DEF Alike
  <2>7. Shape("entry", c) /\ c.inode = None
    BY <1>1, <1>2, <2>5, <2>6 DEF Shape, AtInode, AtSector, AtNew, Opening
  <2>8. Moves(p, "entry", c)
    BY <1>2, <2>3, <2>5, <2>6, <2>7, ToMoves
  <2> QED
    BY <2>2, <2>5, <2>6, <2>7, <2>8
<1> QED
  BY <1>3, <1>4

\* inode_remove().
LEMMA InodeRemoveMoves ==
  ASSUME TypeOK, Shapes, NEW p \in Proc, InodeRemove(p)
  PROVE  \E c \in Call : Moves(p, "drop", c) /\ c.op = "remove" /\ c.inode = call[p].inode
<1> DEFINE op == "remove"
           i == call[p].inode
<1>1. call[p] \in Call /\ Shape(pc[p], call[p])
  BY DEF TypeOK, Shapes
<1>2. pc[p] = "mark" /\ To(p, "drop", Closing(op, i))
  BY DEF InodeRemove, At, Closing
<1>3. i \in Inode
  BY <1>1, <1>2, CallIs DEF Shape, AtInode
<1>4. op \in Op /\ op # "open"
  BY DEF Op
<1> HIDE DEF op, i
<1>5. Moves(p, "drop", Closing(op, i)) /\ Closing(op, i).op = op /\ Closing(op, i).inode = i
  BY <1>2, <1>3, <1>4, ClosingMoves
<1> QED
  BY <1>5 DEF Moves, op, i

\* dir_close().
LEMMA DirCloseMoves ==
  ASSUME TypeOK, Shapes, NEW p \in Proc, DirClose(p)
  PROVE  /\ Moves(p, "file", call[p]) /\ call[p].inode # None /\ UNCHANGED procVars
         \/ /\ End(p) /\ call[p].inode = None
         \/ /\ Return(p) /\ call[p].inode = None /\ UNCHANGED procVars
<1>1. call[p] \in Call /\ Shape(pc[p], call[p])
  BY DEF TypeOK, Shapes
<1>2. pc[p] = "leave" /\ "file" \in Location
  BY DEF DirClose, At, Location
<1>3. CASE call[p].inode # None /\ Goto(p, "file") /\ UNCHANGED procVars
  <2>1. Shape("file", call[p])
    BY <1>1, <1>2, <1>3 DEF Shape, AtInode, AtSector, AtNew, Opening
  <2> QED
    BY <1>2, <1>3, <2>1, GotoMoves
<1>4. CASE ~(call[p].inode # None /\ Goto(p, "file") /\ UNCHANGED procVars)
  BY <1>4 DEF DirClose
<1> QED
  BY <1>3, <1>4

\* file_open() has memory for f.
FileMade(p, f) ==
  /\ file' = [file EXCEPT ![f] = [inode |-> call[p].inode, pos |-> 0, deny_write |-> FALSE]]
  /\ \/ call[p].op = "load" /\ Moves(p, "loaded", Loading(f)) /\ UNCHANGED procVars
     \/ /\ call[p].op # "load" /\ Moves(p, "user", NoCall)
        /\ \/ UNCHANGED procVars
           \/ /\ \E d \in Fd : files[p][d] = None /\ files' = [files EXCEPT ![p][d] = f]
              /\ current_file' \in {current_file, [current_file EXCEPT ![p] = f]}
           \/ files' = files /\ current_file' = [current_file EXCEPT ![p] = f]

\* file_open().
LEMMA FileOpenMoves ==
  ASSUME TypeOK, Shapes, NEW p \in Proc, FileOpen(p)
  PROVE  \/ \E f \in FreeFiles : FileMade(p, f)
         \/ /\ \E c \in Call : Moves(p, "drop", c) /\ c.inode = call[p].inode
            /\ UNCHANGED <<file, procVars>>
<1>1. call[p] \in Call /\ Shape(pc[p], call[p])
  BY DEF TypeOK, Shapes
<1>2. pc[p] = "file" /\ "loaded" \in Location
  BY DEF FileOpen, At, Location
<1>3. call[p].inode \in Inode /\ call[p].op \in Opening
  BY <1>1, <1>2, CallIs DEF Shape, AtInode
<1> DEFINE left == {d \in Fd : files[p][d] = None}
<1>4. ASSUME NEW f \in FreeFiles,
             file' = [file EXCEPT ![f] = [inode |-> call[p].inode, pos |-> 0,
                                          deny_write |-> FALSE]],
             To(p, "loaded", [NoCall EXCEPT !.op = "load", !.file = f]), call[p].op = "load",
             UNCHANGED procVars
      PROVE  Moves(p, "loaded", Loading(f))
  <2>1. f \in File
    BY DEF FreeFiles
  <2>2. To(p, "loaded", Loading(f))
    BY <1>4 DEF Loading
  <2>3. /\ Loading(f) \in Call /\ Loading(f).op = "load" /\ Loading(f).inode = None
        /\ Loading(f).file = f
    BY <2>1, LoadedCall
  <2>4. Shape("loaded", Loading(f))
    BY <2>1, <2>3, NoneIs DEF Shape, AtInode, AtSector, AtNew, Opening
  <2> QED
    BY <1>2, <2>2, <2>3, <2>4, ToMoves
<1>5. ASSUME To(p, "drop", [NoCall EXCEPT !.op = IF call[p].op = "load" THEN "exit" ELSE call[p].op,
                                          !.inode = call[p].inode])
      PROVE  \E c \in Call : Moves(p, "drop", c) /\ c.inode = call[p].inode
  <2> DEFINE op == IF call[p].op = "load" THEN "exit" ELSE call[p].op
  <2>1. op \in Op /\ (op # "open" \/ call[p].op = "open")
    BY <1>3 DEF Opening, Op
  <2>2. To(p, "drop", Closing(op, call[p].inode))
    BY <1>5 DEF Closing
  <2> HIDE DEF op
  <2>3. Moves(p, "drop", Closing(op, call[p].inode))
        /\ Closing(op, call[p].inode).inode = call[p].inode
    BY <1>3, <2>1, <2>2, ClosingMoves
  <2> QED
    BY <2>3 DEF Moves
<1>6. ASSUME left # {}
      PROVE  Min(left) \in Fd /\ files[p][Min(left)] = None
  <2>1. left \in SUBSET Nat
    BY FileSysAssumption
  <2> QED
    BY <1>6, <2>1, MinIs
<1>7. CASE /\ To(p, "drop", [NoCall EXCEPT !.op = IF call[p].op = "load" THEN "exit" ELSE call[p].op,
                                          !.inode = call[p].inode])
           /\ UNCHANGED <<file, procVars>>
  BY <1>5, <1>7
<1>8. ASSUME NEW f \in FreeFiles,
             file' = [file EXCEPT ![f] = [inode |-> call[p].inode, pos |-> 0,
                                          deny_write |-> FALSE]],
             IF call[p].op = "load" THEN To(p, "loaded", [NoCall EXCEPT !.op = "load", !.file = f])
             ELSE Return(p),
             files' = IF call[p].op = "open" /\ left # {}
                      THEN [files EXCEPT ![p][Min(left)] = f] ELSE files,
             current_file' = IF call[p].op = "open" /\ call[p].name = Image[p]
                             THEN [current_file EXCEPT ![p] = f] ELSE current_file
      PROVE  \/ call[p].op = "load" /\ Moves(p, "loaded", Loading(f)) /\ UNCHANGED procVars
             \/ /\ call[p].op # "load" /\ Moves(p, "user", NoCall)
                /\ \/ UNCHANGED procVars
                   \/ /\ \E d \in Fd : files[p][d] = None /\ files' = [files EXCEPT ![p][d] = f]
                      /\ current_file' \in {current_file, [current_file EXCEPT ![p] = f]}
                   \/ files' = files /\ current_file' = [current_file EXCEPT ![p] = f]
  <2>1. CASE call[p].op = "load"
    BY <1>4, <1>8, <2>1 DEF procVars
  <2>2. CASE call[p].op # "load"
    <3>1. Moves(p, "user", NoCall)
      BY <1>8, <2>2, ReturnMoves
    <3>2. CASE call[p].op = "open" /\ left # {}
      BY <1>6, <1>8, <2>2, <3>1, <3>2
    <3>3. CASE ~(call[p].op = "open" /\ left # {})
      BY <1>8, <2>2, <3>1, <3>3 DEF procVars
    <3> QED
      BY <3>2, <3>3
  <2> QED
    BY <2>1, <2>2
<1>9. \/ /\ To(p, "drop", [NoCall EXCEPT !.op = IF call[p].op = "load" THEN "exit" ELSE call[p].op,
                                          !.inode = call[p].inode])
         /\ UNCHANGED <<file, procVars>>
      \/ \E f \in FreeFiles :
           /\ file' = [file EXCEPT ![f] = [inode |-> call[p].inode, pos |-> 0,
                                          deny_write |-> FALSE]]
           /\ IF call[p].op = "load" THEN To(p, "loaded", [NoCall EXCEPT !.op = "load", !.file = f])
              ELSE Return(p)
           /\ files' = IF call[p].op = "open" /\ left # {}
                       THEN [files EXCEPT ![p][Min(left)] = f] ELSE files
           /\ current_file' = IF call[p].op = "open" /\ call[p].name = Image[p]
                              THEN [current_file EXCEPT ![p] = f] ELSE current_file
  BY DEF FileOpen
<1>10. ASSUME NEW f \in FreeFiles,
              /\ file' = [file EXCEPT ![f] = [inode |-> call[p].inode, pos |-> 0,
                                             deny_write |-> FALSE]]
              /\ IF call[p].op = "load" THEN To(p, "loaded", [NoCall EXCEPT !.op = "load", !.file = f])
                 ELSE Return(p)
              /\ files' = IF call[p].op = "open" /\ left # {}
                          THEN [files EXCEPT ![p][Min(left)] = f] ELSE files
              /\ current_file' = IF call[p].op = "open" /\ call[p].name = Image[p]
                                 THEN [current_file EXCEPT ![p] = f] ELSE current_file
       PROVE  FileMade(p, f)
  <2>1. \/ call[p].op = "load" /\ Moves(p, "loaded", Loading(f)) /\ UNCHANGED procVars
        \/ /\ call[p].op # "load" /\ Moves(p, "user", NoCall)
           /\ \/ UNCHANGED procVars
              \/ /\ \E d \in Fd : files[p][d] = None /\ files' = [files EXCEPT ![p][d] = f]
                 /\ current_file' \in {current_file, [current_file EXCEPT ![p] = f]}
              \/ files' = files /\ current_file' = [current_file EXCEPT ![p] = f]
    BY <1>8, <1>10
  <2> QED
    BY <1>10, <2>1 DEF FileMade
<1> HIDE DEF left
<1> QED
  BY <1>7, <1>9, <1>10

LEMMA FileCloseMoves ==
  ASSUME TypeOK, NEW p \in Proc, NEW op \in Op \ {"open"}, NEW f \in Opened, FileClose(p, op, f)
  PROVE  /\ Moves(p, "drop", Closing(op, file[f].inode))
         /\ Closing(op, file[f].inode).inode = file[f].inode
         /\ file[f].inode \in InUse
<1>1. file[f].inode \in Inode /\ inode[file[f].inode] # None
  BY MemoryIs DEF FileClose
<1>2. To(p, "drop", Closing(op, file[f].inode))
  BY DEF FileClose, Closing
<1>3. op \in Op /\ op # "open"
  OBVIOUS
<1>4. file[f].inode \in InUse
  BY <1>1 DEF InUse
<1> QED
  BY <1>1, <1>2, <1>3, <1>4, ClosingMoves

\* Descriptors are open files.
LEMMA HandleIs ==
  ASSUME TypeOK, Shapes, Descriptors, NEW p \in Proc
  PROVE  /\ \A d \in Fd : files[p][d] # None => files[p][d] \in Opened
         /\ pc[p] = "loaded" => call[p].file # None /\ call[p].file \in Opened
         /\ call[p].file # None => pc[p] = "loaded"
         /\ -1 \notin Fd
<1>1. -1 \notin Fd
  BY FileSysAssumption
<1>2. \A d \in Fd \cup {-1} : Handle(p, d) # None => Handle(p, d) \in Opened
  BY DEF Descriptors
<1>3. \A d \in Fd : files[p][d] # None => files[p][d] \in Opened
  BY <1>2 DEF Handle
<1>4. call[p].file # None => call[p].file \in Opened
  BY <1>1, <1>2 DEF Handle
<1>5. pc[p] = "loaded" <=> call[p].file # None
  BY DEF Shapes, Shape
<1> QED
  BY <1>1, <1>3, <1>4, <1>5

\* exit() closes a descriptor or ends.
LEMMA ExitNextIs ==
  ASSUME TypeOK, NEW p \in Proc, ExitNext(p)
  PROVE  /\ pc[p] = "exit"
         /\ \/ End(p) /\ UNCHANGED <<diskVars, memoryVars>>
            \/ \E d \in Fd :
                 /\ files[p][d] # None /\ FileClose(p, "exit", files[p][d])
                 /\ files' = [files EXCEPT ![p][d] = None] /\ UNCHANGED current_file
<1> DEFINE left == {d \in Fd : files[p][d] # None}
<1>1. CASE left = {}
  BY <1>1 DEF ExitNext, At
<1>2. CASE left # {}
  <2>1. left \in SUBSET Nat
    BY FileSysAssumption
  <2>2. Min(left) \in left
    BY <1>2, <2>1, MinIs
  <2>3. pc[p] = "exit" /\ FileClose(p, "exit", files[p][Min(left)])
        /\ files' = [files EXCEPT ![p][Min(left)] = None] /\ UNCHANGED current_file
    BY <1>2 DEF ExitNext, At
  <2> QED
    BY <2>2, <2>3
<1> QED
  BY <1>1, <1>2

\* One step of p.
Step(p) == Continue(p) \/ Begin(p) \/ \E d \in Fd : Read(p, d)

\* A step takes p to another place or leaves it in a file call of its own.
Moved(p) ==
  \E l \in Location, c \in Call : Moves(p, l, c) /\ (l = "loaded" => FileOpen(p))

LEMMA ContinueMoves ==
  ASSUME TypeOK, Shapes, Descriptors, NEW p \in Proc, Continue(p)
  PROVE  Moved(p)
<1>1. call[p] \in Call /\ Shape(pc[p], call[p])
  BY DEF TypeOK, Shapes
<1>2. CASE DirOpenRoot(p)
  BY <1>1, <1>2, DirOpenRootMoves DEF Moves, Moved
<1>3. CASE Lookup(p)
  BY <1>1, <1>3, LookupMoves DEF Moves, Moved
<1>4. CASE Search(p)
  BY <1>1, <1>4, SearchMoves DEF Moves, Moved
<1>5. CASE Reopen(p)
  <2>1. Moves(p, WithInode(p), call[p]) /\ WithInode(p) # "loaded"
    BY <1>5, HeldMoves DEF WithInode
  <2> QED
    BY <2>1 DEF Moves, Moved
<1>6. CASE Insert(p)
  BY <1>1, <1>6, InsertMoves DEF Moves, Moved
<1>7. CASE ReadHeader(p)
  <2>1. Moves(p, WithInode(p), call[p]) /\ WithInode(p) # "loaded"
    BY <1>7, HeldMoves DEF WithInode
  <2> QED
    BY <2>1 DEF Moves, Moved
<1>8. CASE Drop(p)
  <2>1. CASE Closed(p)
    BY <2>1, ClosedMoves DEF Moves, Moved
  <2> QED
    BY <1>8, <2>1, DropMoves DEF Moves, Moved
<1>9. CASE Unlist(p)
  <2>1. CASE Closed(p)
    BY <2>1, ClosedMoves DEF Moves, Moved
  <2> QED
    BY <1>9, <2>1, UnlistMoves DEF Moves, Moved
<1>10. CASE Release(p)
  <2>1. Goto(p, "release_data") /\ pc[p] = "release" /\ "release_data" \in Location
    BY <1>10 DEF Release, At, Location
  <2>2. Moves(p, "release_data", call[p])
    BY <2>1, OnwardMoves
  <2> QED
    BY <2>2 DEF Moves, Moved
<1>11. CASE ReleaseData(p)
  <2>1. Closed(p)
    BY <1>11 DEF ReleaseData
  <2> QED
    BY <2>1, ClosedMoves DEF Moves, Moved
<1>12. CASE Scan(p)
  BY <1>1, <1>12, ScanMoves DEF Moves, Moved
<1>13. CASE Flip(p)
  <2>1. Goto(p, "scan_data") /\ pc[p] = "flip" /\ "scan_data" \in Location
    BY <1>13 DEF Flip, At, Location
  <2>2. Moves(p, "scan_data", call[p])
    BY <2>1, OnwardMoves
  <2> QED
    BY <2>2 DEF Moves, Moved
<1>14. CASE ScanData(p)
  BY <1>1, <1>14, ScanDataMoves DEF Moves, Moved
<1>15. CASE FlipData(p)
  <2>1. Goto(p, "write_header") /\ pc[p] = "flip_data" /\ "write_header" \in Location
    BY <1>15 DEF FlipData, At, Location
  <2>2. Moves(p, "write_header", call[p])
    BY <2>1, OnwardMoves
  <2> QED
    BY <2>2 DEF Moves, Moved
<1>16. CASE WriteHeader(p)
  <2>1. Goto(p, "zeros") /\ pc[p] = "write_header" /\ "zeros" \in Location
    BY <1>16 DEF WriteHeader, At, Location
  <2>2. Moves(p, "zeros", call[p])
    BY <2>1, OnwardMoves
  <2> QED
    BY <2>2 DEF Moves, Moved
<1>17. CASE WriteZeros(p)
  BY <1>1, <1>17, WriteZerosMoves DEF Moves, Moved
<1>18. CASE CheckName(p)
  BY <1>1, <1>18, CheckNameMoves DEF Moves, Moved
<1>19. CASE FindSlot(p)
  BY <1>1, <1>19, FindSlotMoves DEF Moves, Moved
<1>20. CASE WriteEntry(p)
  <2>1. To(p, "leave", [NoCall EXCEPT !.op = "create"]) /\ "create" \in Op \ {"open"}
    BY <1>20 DEF WriteEntry, Op
  <2>2. Moves(p, "leave", Only("create"))
    BY <2>1, OnlyMoves
  <2> QED
    BY <2>2 DEF Moves, Moved
<1>21. CASE Undo(p)
  <2>1. To(p, "leave", [NoCall EXCEPT !.op = "create"]) /\ "create" \in Op \ {"open"}
    BY <1>21 DEF Undo, Op
  <2>2. Moves(p, "leave", Only("create"))
    BY <2>1, OnlyMoves
  <2> QED
    BY <2>2 DEF Moves, Moved
<1>22. CASE EraseEntry(p)
  <2>1. Goto(p, "mark") /\ pc[p] = "erase" /\ "mark" \in Location
    BY <1>22 DEF EraseEntry, At, Location
  <2>2. Moves(p, "mark", call[p])
    BY <2>1, OnwardMoves
  <2> QED
    BY <2>2 DEF Moves, Moved
<1>23. CASE InodeRemove(p)
  BY <1>1, <1>23, InodeRemoveMoves DEF Moves, Moved
<1>24. CASE DirClose(p)
  <2>1. CASE End(p)
    BY <2>1, EndMoves DEF Moves, Moved
  <2>2. CASE Return(p)
    BY <2>2, ReturnMoves DEF Moves, Moved
  <2> QED
    BY <1>24, <2>1, <2>2, DirCloseMoves DEF Moves, Moved
<1>25. CASE FileOpen(p)
  <2>1. ASSUME NEW f \in FreeFiles, FileMade(p, f)
        PROVE  \E l \in Location, c \in Call : Moves(p, l, c)
    BY <2>1 DEF FileMade, Moves
  <2> QED
    BY <1>25, <2>1, FileOpenMoves DEF Moves, Moved
<1>26. CASE LoadDone(p)
  <2>1. FileClose(p, "load", call[p].file) /\ call[p].file \in Opened /\ "load" \in Op \ {"open"}
    BY <1>26, HandleIs DEF LoadDone, At, Op
  <2> QED
    BY <2>1, FileCloseMoves DEF Moves, Moved
<1>27. CASE ExitNext(p)
  <2>1. CASE End(p)
    BY <2>1, EndMoves DEF Moves, Moved
  <2>2. ASSUME NEW d \in Fd, files[p][d] # None, FileClose(p, "exit", files[p][d])
        PROVE  Moved(p)
    <3>1. files[p][d] \in Opened /\ "exit" \in Op \ {"open"}
      BY <2>2, HandleIs DEF Op
    <3> QED
      BY <2>2, <3>1, FileCloseMoves DEF Moves, Moved
  <2> QED
    BY <1>27, <2>1, <2>2, ExitNextIs
<1> QED
  BY <1>2, <1>3, <1>4, <1>5, <1>6, <1>7, <1>8, <1>9, <1>10, <1>11, <1>12, <1>13, <1>14, <1>15,
     <1>16, <1>17, <1>18, <1>19, <1>20, <1>21, <1>22, <1>23, <1>24, <1>25, <1>26, <1>27
     DEF Continue

LEMMA StepMoves ==
  ASSUME TypeOK, Shapes, Descriptors, NEW p \in Proc, Step(p)
  PROVE  Moved(p) \/ (UNCHANGED <<pc, call>> /\ Ready(p))
<1>1. CASE Continue(p)
  BY <1>1, ContinueMoves
<1>2. ASSUME NEW op \in Opening \cup {"create", "remove"}, NEW n \in Name,
             NEW len \in Lengths \cup {0},
             Start(p, op, n, len), op = "open" => MutexUp
      PROVE  Moved(p)
  BY <1>2, StartMoves DEF Moves, Moved
<1>3. CASE Load(p)
  <2>1. Start(p, "load", Image[p], 0) /\ Image[p] \in Name
    BY <1>3, FileSysAssumption DEF Load
  <2> QED
    BY <1>2, <2>1 DEF Opening
<1>4. ASSUME NEW n \in Name, Exec(p, n) \/ Open(p, n) \/ RemoveFile(p, n)
      PROVE  Moved(p)
  <2>1. /\ 0 \in Lengths \cup {0}
        /\ {"exec", "open", "remove"} \subseteq Opening \cup {"create", "remove"}
    BY DEF Opening
  <2>2. CASE Exec(p, n)
    BY <1>2, <2>1, <2>2 DEF Exec
  <2>3. CASE Open(p, n)
    BY <1>2, <2>1, <2>3 DEF Open
  <2>4. CASE RemoveFile(p, n)
    BY <1>2, <2>1, <2>4 DEF RemoveFile
  <2> QED
    BY <1>4, <2>2, <2>3, <2>4
<1>5. ASSUME NEW n \in Name, NEW len \in Lengths, Create(p, n, len)
      PROVE  Moved(p)
  BY <1>2, <1>5 DEF Create
<1>6. CASE Exit(p)
  <2>1. Moves(p, "exit", Only("exit"))
    BY <1>6, OnlyMoves DEF Exit, Op
  <2> QED
    BY <2>1 DEF Moves, Moved
<1>7. CASE Kill(p)
  BY <1>7, EndMoves DEF Kill, Moves, Moved
<1>8. ASSUME NEW d \in Fd, Close(p, d)
      PROVE  Moved(p)
  <2>1. files[p][d] \in Opened /\ "close" \in Op \ {"open"} /\ FileClose(p, "close", files[p][d])
    BY <1>8, HandleIs DEF Op, Close
  <2> QED
    BY <2>1, FileCloseMoves DEF Moves, Moved
<1>9. ASSUME NEW d \in Fd, Read(p, d) \/ \E v \in Data : Write(p, d, v)
      PROVE  UNCHANGED <<pc, call>> /\ Ready(p)
  BY <1>9 DEF Read, Write
<1>10. ASSUME NEW d \in Fd, NEW position, Seek(p, d, position)
      PROVE  UNCHANGED <<pc, call>> /\ Ready(p)
  BY <1>10 DEF Seek
<1> QED
  BY <1>1, <1>3, <1>4, <1>5, <1>6, <1>7, <1>8, <1>9, <1>10 DEF Step, Begin

-----------------------------------------------------------------------------
(* Which steps change what *)

DiskStep(p) ==
  \/ Release(p) \/ ReleaseData(p) \/ Flip(p) \/ FlipData(p) \/ WriteHeader(p) \/ WriteZeros(p)
  \/ WriteEntry(p) \/ Undo(p) \/ EraseEntry(p)
  \/ \E d \in Fd, v \in Data : Write(p, d, v)

InodeStep(p) ==
  \/ Reopen(p) \/ Insert(p) \/ ReadHeader(p) \/ Drop(p) \/ Unlist(p) \/ InodeRemove(p)
  \/ LoadDone(p) \/ ExitNext(p)
  \/ \E d \in Fd : Close(p, d) \/ \E v \in Data : Write(p, d, v)

FileStep(p) ==
  \/ FileOpen(p) \/ LoadDone(p) \/ ExitNext(p) \/ DirClose(p) \/ Kill(p)
  \/ \E d \in Fd : \/ Close(p, d) \/ Read(p, d) \/ \E v \in Data : Write(p, d, v)
                   \/ \E position \in 0 .. Max(Lengths) : Seek(p, d, position)

Frame(p) ==
  /\ DiskStep(p) \/ UNCHANGED diskVars
  /\ InodeStep(p) \/ UNCHANGED <<inode, open_inodes>>
  /\ FileStep(p) \/ UNCHANGED <<file, procVars>>

LEMMA Frames ==
  ASSUME NEW p \in Proc, Step(p)
  PROVE  Frame(p)
<1> USE DEF diskVars, memoryVars, procVars, Frame, DiskStep, InodeStep, FileStep
<1>1. CASE DirOpenRoot(p)
  BY <1>1 DEF DirOpenRoot
<1>2. CASE Lookup(p)
  BY <1>2 DEF Lookup
<1>3. CASE Search(p)
  BY <1>3 DEF Search
<1>4. CASE Reopen(p)
  BY <1>4 DEF Reopen
<1>5. CASE Insert(p)
  BY <1>5 DEF Insert
<1>6. CASE ReadHeader(p)
  BY <1>6 DEF ReadHeader
<1>7. CASE Drop(p)
  BY <1>7 DEF Drop
<1>8. CASE Unlist(p)
  BY <1>8 DEF Unlist
<1>9. CASE Release(p)
  BY <1>9 DEF Release
<1>10. CASE ReleaseData(p)
  BY <1>10 DEF ReleaseData
<1>11. CASE Scan(p)
  BY <1>11 DEF Scan
<1>12. CASE Flip(p)
  BY <1>12 DEF Flip
<1>13. CASE ScanData(p)
  BY <1>13 DEF ScanData
<1>14. CASE FlipData(p)
  BY <1>14 DEF FlipData
<1>15. CASE WriteHeader(p)
  BY <1>15 DEF WriteHeader
<1>16. CASE WriteZeros(p)
  BY <1>16 DEF WriteZeros
<1>17. CASE CheckName(p)
  BY <1>17 DEF CheckName
<1>18. CASE FindSlot(p)
  BY <1>18 DEF FindSlot
<1>19. CASE WriteEntry(p)
  BY <1>19 DEF WriteEntry
<1>20. CASE Undo(p)
  BY <1>20 DEF Undo
<1>21. CASE EraseEntry(p)
  BY <1>21 DEF EraseEntry
<1>22. CASE InodeRemove(p)
  BY <1>22 DEF InodeRemove
<1>23. CASE DirClose(p)
  BY <1>23 DEF DirClose
<1>24. CASE FileOpen(p)
  BY <1>24 DEF FileOpen
<1>25. CASE LoadDone(p)
  BY <1>25 DEF LoadDone, FileClose
<1>26. CASE ExitNext(p)
  BY <1>26 DEF ExitNext, End, FileClose
<1>27. CASE Load(p)
  BY <1>27 DEF Load, Start
<1>28. CASE Exit(p)
  BY <1>28 DEF Exit
<1>29. CASE Kill(p)
  BY <1>29 DEF Kill
<1>30. ASSUME NEW n \in Name, Exec(p, n)
      PROVE  Frame(p)
  BY <1>30 DEF Exec, Start
<1>31. ASSUME NEW n \in Name, Open(p, n)
      PROVE  Frame(p)
  BY <1>31 DEF Open, Start
<1>32. ASSUME NEW n \in Name, RemoveFile(p, n)
      PROVE  Frame(p)
  BY <1>32 DEF RemoveFile, Start
<1>33. ASSUME NEW n \in Name, NEW len \in Lengths, Create(p, n, len)
      PROVE  Frame(p)
  BY <1>33 DEF Create, Start
<1>34. ASSUME NEW d \in Fd, Close(p, d)
      PROVE  Frame(p)
  BY <1>34 DEF Close, FileClose
<1>35. ASSUME NEW d \in Fd, NEW v \in Data, Write(p, d, v)
      PROVE  Frame(p)
  BY <1>35 DEF Write
<1>36. ASSUME NEW d \in Fd, NEW position \in 0 .. Max(Lengths), Seek(p, d, position)
      PROVE  Frame(p)
  BY <1>36 DEF Seek
<1>37. ASSUME NEW d \in Fd, Read(p, d)
      PROVE  Frame(p)
  BY <1>37 DEF Read
<1> HIDE DEF Frame, DiskStep, InodeStep, FileStep
<1> QED
  BY <1>1, <1>2, <1>3, <1>4, <1>5, <1>6, <1>7, <1>8, <1>9, <1>10, <1>11, <1>12, <1>13, <1>14,
     <1>15, <1>16, <1>17, <1>18, <1>19, <1>20, <1>21, <1>22, <1>23, <1>24, <1>25, <1>26, <1>27,
     <1>28, <1>29, <1>30, <1>31, <1>32, <1>33, <1>34, <1>35, <1>36, <1>37 DEF Step, Continue,
     Begin

-----------------------------------------------------------------------------
(* Types, and blocks inside the device, in every run *)

DiskTypeOK ==
  /\ free_map \subseteq Sector
  /\ disk \in [Sector -> Data \cup DiskInode]
  /\ dir \in [1 .. Slots -> Entry \cup {None}]
  /\ \A s \in Sector : disk[s] \in DiskInode => FileData(s) \subseteq Sector

LEMMA CallAt ==
  ASSUME TypeOK, Shapes, NEW p \in Proc
  PROVE  /\ call[p] \in Call
         /\ pc[p] \in AtSector => call[p].sector \in Sector
         /\ pc[p] \in AtInode => call[p].inode \in Inode
         /\ pc[p] \in {"flip_data", "write_header", "zeros"} =>
              Extent(call[p].start, call[p].length) \subseteq Sector
         /\ pc[p] \in AtNew => call[p].name \in Name
         /\ call[p].start \in Nat /\ call[p].length \in Lengths \cup {0} /\ call[p].length \in Nat
<1>1. call[p] \in Call /\ Shape(pc[p], call[p])
  BY DEF TypeOK, Shapes
<1> QED
  BY <1>1, CallIs DEF Shape

LEMMA HeaderIs ==
  ASSUME NEW a \in Nat, NEW len \in Lengths \cup {0}
  PROVE  [start |-> a, length |-> len] \in DiskInode
BY DEF DiskInode

LEMMA DiskSound ==
  ASSUME TypeOK, Shapes, Extents, NEW p \in Proc, Step(p)
  PROVE  DiskTypeOK'
<1>1. /\ free_map \subseteq Sector /\ disk \in [Sector -> Data \cup DiskInode]
      /\ dir \in [1 .. Slots -> Entry \cup {None}]
      /\ \A s \in Sector : disk[s] \in DiskInode => FileData(s) \subseteq Sector
  BY DEF TypeOK, Extents
<1>2. CASE UNCHANGED diskVars
  BY <1>1, <1>2 DEF DiskTypeOK, diskVars, FileData
<1>3. CASE UNCHANGED <<disk, dir>> /\ free_map' \subseteq Sector
  BY <1>1, <1>3 DEF DiskTypeOK, FileData
<1>4. CASE UNCHANGED <<disk, free_map>> /\ dir' \in [1 .. Slots -> Entry \cup {None}]
  BY <1>1, <1>4 DEF DiskTypeOK, FileData
<1>5. CASE Release(p) \/ ReleaseData(p) \/ Undo(p)
  <2>1. free_map' \subseteq free_map /\ UNCHANGED <<disk, dir>>
    BY <1>5 DEF Release, ReleaseData, Undo
  <2> QED
    BY <1>1, <1>3, <2>1
<1>6. CASE Flip(p)
  <2>1. free_map' = free_map \cup {call[p].sector} /\ pc[p] = "flip" /\ UNCHANGED <<disk, dir>>
    BY <1>6 DEF Flip, At
  <2> QED
    BY <1>1, <1>3, <2>1, CallAt DEF AtSector, AtNew
<1>7. CASE FlipData(p)
  <2>1. /\ free_map' = free_map \cup Extent(call[p].start, call[p].length)
        /\ pc[p] = "flip_data" /\ UNCHANGED <<disk, dir>>
    BY <1>7 DEF FlipData, At
  <2> QED
    BY <1>1, <1>3, <2>1, CallAt
<1>8. CASE WriteHeader(p)
  <2> DEFINE s == call[p].sector
             a == call[p].start
             len == call[p].length
  <2>1. pc[p] = "write_header" /\ UNCHANGED <<free_map, dir>>
        /\ disk' = [disk EXCEPT ![s] = [start |-> a, length |-> len]]
    BY <1>8 DEF WriteHeader, At
  <2>2. s \in Sector /\ a \in Nat /\ len \in Lengths \cup {0} /\ Extent(a, len) \subseteq Sector
    BY <2>1, CallAt DEF AtSector, AtNew
  <2> HIDE DEF s, a, len
  <2> DEFINE h == [start |-> a, length |-> len]
  <2>3. h \in DiskInode /\ h.start = a /\ h.length = len
    BY <2>2, HeaderIs
  <2> HIDE DEF h
  <2>4. disk' = [disk EXCEPT ![s] = h]
    BY <2>1 DEF h
  <2>5. disk' \in [Sector -> Data \cup DiskInode] /\ disk'[s] = h
        /\ \A t \in Sector : t # s => disk'[t] = disk[t]
    BY <1>1, <2>2, <2>3, <2>4
  <2>6. ASSUME NEW t \in Sector, disk'[t] \in DiskInode
        PROVE  FileData(t)' \subseteq Sector
    <3>1. CASE t = s
      BY <2>2, <2>3, <2>5, <3>1 DEF FileData
    <3>2. CASE t # s
      BY <1>1, <2>5, <2>6, <3>2 DEF FileData
    <3> QED
      BY <3>1, <3>2
  <2> QED
    BY <1>1, <2>1, <2>5, <2>6 DEF DiskTypeOK
<1>9. CASE WriteZeros(p)
  <2>1. UNCHANGED <<free_map, dir>>
        /\ disk' = [s \in Sector |-> IF s \in Extent(call[p].start, call[p].length) THEN Zero
                                     ELSE disk[s]]
    BY <1>9 DEF WriteZeros
  <2>2. Zero \in Data /\ Zero \notin DiskInode
    BY FileSysAssumption, DataAssumption
  <2>3. disk' \in [Sector -> Data \cup DiskInode]
        /\ \A s \in Sector : disk'[s] \in DiskInode => disk'[s] = disk[s]
    BY <1>1, <2>1, <2>2
  <2> QED
    BY <1>1, <2>1, <2>3 DEF DiskTypeOK, FileData
<1>10. CASE WriteEntry(p)
  <2> DEFINE e == call[p].entry
             n == call[p].name
             s == call[p].sector
  <2>1. pc[p] = "entry" /\ UNCHANGED <<free_map, disk>>
        /\ dir' = [dir EXCEPT ![e] = [name |-> n, sector |-> s]]
    BY <1>10 DEF WriteEntry, At
  <2>2. n \in Name /\ s \in Sector
    BY <2>1, CallAt DEF AtSector, AtNew
  <2> HIDE DEF e, n, s
  <2>3. [name |-> n, sector |-> s] \in Entry
    BY <2>2 DEF Entry
  <2>4. dir' \in [1 .. Slots -> Entry \cup {None}]
    BY <1>1, <2>1, <2>3
  <2> QED
    BY <1>4, <2>1, <2>4
<1>11. CASE EraseEntry(p)
  <2>1. UNCHANGED <<free_map, disk>> /\ dir' = [dir EXCEPT ![call[p].entry] = None]
    BY <1>11 DEF EraseEntry
  <2>2. dir' \in [1 .. Slots -> Entry \cup {None}]
    BY <1>1, <2>1
  <2> QED
    BY <1>4, <2>1, <2>2
<1>12. ASSUME NEW d \in Fd, NEW v \in Data, Write(p, d, v)
       PROVE  DiskTypeOK'
  <2>1. PICK x : disk' = disk \/ disk' = [disk EXCEPT ![x] = v]
    BY <1>12 DEF Write
  <2>2. UNCHANGED <<free_map, dir>>
    BY <1>12 DEF Write
  <2>3. v \notin DiskInode
    BY DataAssumption
  <2>4. disk' \in [Sector -> Data \cup DiskInode]
        /\ \A s \in Sector : disk'[s] \in DiskInode => disk'[s] = disk[s]
    BY <1>1, <2>1, <2>3
  <2> QED
    BY <1>1, <2>2, <2>4 DEF DiskTypeOK, FileData
<1> QED
  BY <1>2, <1>5, <1>6, <1>7, <1>8, <1>9, <1>10, <1>11, <1>12, Frames DEF Frame, DiskStep

\* A step writes the struct inode i.
Sets(i, s, cnt, deny, removed, data) ==
  inode' = [inode EXCEPT ![i] = [sector |-> s, open_cnt |-> cnt, deny_write_cnt |-> deny,
                                 removed |-> removed, data |-> data]]

LEMMA SetsIs ==
  ASSUME TypeOK, NEW i \in Inode, NEW s \in Sector, NEW cnt \in Int, NEW deny \in Int,
         NEW removed \in BOOLEAN, NEW data \in DiskInode, Sets(i, s, cnt, deny, removed, data)
  PROVE  /\ inode' \in [Inode -> InodeRecord \cup {None}]
         /\ inode'[i] # None /\ inode'[i].sector = s /\ inode'[i].open_cnt = cnt
         /\ inode'[i].deny_write_cnt = deny /\ inode'[i].removed = removed
         /\ inode'[i].data = data
         /\ \A j \in Inode : j # i => inode'[j] = inode[j]
         /\ InUse' = InUse \cup {i}
<1> DEFINE r == [sector |-> s, open_cnt |-> cnt, deny_write_cnt |-> deny,
                 removed |-> removed, data |-> data]
<1>1. /\ r \in InodeRecord /\ r.sector = s /\ r.open_cnt = cnt /\ r.deny_write_cnt = deny
      /\ r.removed = removed /\ r.data = data
  BY DEF InodeRecord
<1>2. inode' = [inode EXCEPT ![i] = r]
  BY DEF Sets
<1> HIDE DEF r
<1>3. inode \in [Inode -> InodeRecord \cup {None}]
  BY DEF TypeOK
<1>4. inode' \in [Inode -> InodeRecord \cup {None}] /\ inode'[i] = r
      /\ \A j \in Inode : j # i => inode'[j] = inode[j]
  BY <1>1, <1>2, <1>3
<1>5. r # None
  BY <1>1, NoneIs
<1>6. InUse' = InUse \cup {i}
  BY <1>4, <1>5 DEF InUse
<1> QED
  BY <1>1, <1>4, <1>5, <1>6

\* The fields of a struct inode make it up.
LEMMA FieldsOf ==
  ASSUME NEW r \in InodeRecord
  PROVE  /\ r.sector \in Sector /\ r.open_cnt \in Int /\ r.deny_write_cnt \in Int
         /\ r.removed \in BOOLEAN /\ r.data \in DiskInode
         /\ \A n : [r EXCEPT !.open_cnt = n] =
                     [sector |-> r.sector, open_cnt |-> n, deny_write_cnt |-> r.deny_write_cnt,
                      removed |-> r.removed, data |-> r.data]
         /\ \A n : [r EXCEPT !.deny_write_cnt = n] =
                     [sector |-> r.sector, open_cnt |-> r.open_cnt, deny_write_cnt |-> n,
                      removed |-> r.removed, data |-> r.data]
         /\ \A b : [r EXCEPT !.removed = b] =
                     [sector |-> r.sector, open_cnt |-> r.open_cnt,
                      deny_write_cnt |-> r.deny_write_cnt, removed |-> b, data |-> r.data]
         /\ \A h : [r EXCEPT !.data = h] =
                     [sector |-> r.sector, open_cnt |-> r.open_cnt,
                      deny_write_cnt |-> r.deny_write_cnt, removed |-> r.removed, data |-> h]
BY DEF InodeRecord

LEMMA ReopenSets ==
  ASSUME TypeOK, Shapes, NEW p \in Proc, Reopen(p)
  PROVE  LET i == call[p].inode r == inode[i]
         IN  /\ pc[p] = "reopen" /\ i \in InUse /\ UNCHANGED <<open_inodes, file, procVars>>
             /\ Sets(i, r.sector, r.open_cnt + 1, r.deny_write_cnt, r.removed, r.data)
<1> DEFINE i == call[p].inode
           r == inode[i]
<1>1. /\ pc[p] = "reopen" /\ inode[i] # None /\ UNCHANGED <<open_inodes, file, procVars>>
      /\ inode' = [inode EXCEPT ![i] = [r EXCEPT !.open_cnt = r.open_cnt + 1]]
  BY DEF Reopen, At
<1>2. i \in Inode
  BY <1>1, CallAt DEF AtInode
<1>3. i \in InUse /\ r \in InodeRecord
  BY <1>1, <1>2, MemoryIs
<1> QED
  BY <1>1, <1>3, FieldsOf DEF Sets

LEMMA ReadHeaderSets ==
  ASSUME TypeOK, Shapes, NEW p \in Proc, ReadHeader(p)
  PROVE  LET i == call[p].inode r == inode[i] s == call[p].sector
         IN  /\ pc[p] = "header" /\ i \in InUse /\ s \in Sector
             /\ UNCHANGED <<open_inodes, file, procVars>>
             /\ Sets(i, r.sector, r.open_cnt, r.deny_write_cnt, r.removed,
                     IF disk[s] \in DiskInode THEN disk[s] ELSE NoHeader)
<1> DEFINE i == call[p].inode
           r == inode[i]
           h == IF disk[call[p].sector] \in DiskInode THEN disk[call[p].sector] ELSE NoHeader
<1>1. /\ pc[p] = "header" /\ inode[i] # None /\ UNCHANGED <<open_inodes, file, procVars>>
      /\ inode' = [inode EXCEPT ![i] = [r EXCEPT !.data = h]]
  BY DEF ReadHeader, At
<1>2. i \in Inode /\ call[p].sector \in Sector
  BY <1>1, CallAt DEF AtInode, AtSector
<1>3. i \in InUse /\ r \in InodeRecord
  BY <1>1, <1>2, MemoryIs
<1> QED
  BY <1>1, <1>2, <1>3, FieldsOf DEF Sets

LEMMA DropSets ==
  ASSUME TypeOK, Shapes, NEW p \in Proc, Drop(p)
  PROVE  LET i == call[p].inode r == inode[i]
         IN  /\ pc[p] = "drop" /\ i \in InUse /\ UNCHANGED <<open_inodes, file, procVars>>
             /\ Sets(i, r.sector, r.open_cnt - 1, r.deny_write_cnt, r.removed, r.data)
<1> DEFINE i == call[p].inode
           r == inode[i]
<1>1. /\ pc[p] = "drop" /\ inode[i] # None /\ UNCHANGED <<open_inodes, file, procVars>>
      /\ inode' = [inode EXCEPT ![i] = [r EXCEPT !.open_cnt = r.open_cnt - 1]]
  BY DEF Drop, At
<1>2. i \in Inode
  BY <1>1, CallAt DEF AtInode
<1>3. i \in InUse /\ r \in InodeRecord
  BY <1>1, <1>2, MemoryIs
<1> QED
  BY <1>1, <1>3, FieldsOf DEF Sets

LEMMA InodeRemoveSets ==
  ASSUME TypeOK, Shapes, NEW p \in Proc, InodeRemove(p)
  PROVE  LET i == call[p].inode r == inode[i]
         IN  /\ pc[p] = "mark" /\ i \in InUse /\ UNCHANGED <<open_inodes, file, procVars>>
             /\ Sets(i, r.sector, r.open_cnt, r.deny_write_cnt, TRUE, r.data)
<1> DEFINE i == call[p].inode
           r == inode[i]
<1>1. /\ pc[p] = "mark" /\ inode[i] # None /\ UNCHANGED <<open_inodes, file, procVars>>
      /\ inode' = [inode EXCEPT ![i] = [r EXCEPT !.removed = TRUE]]
  BY DEF InodeRemove, At
<1>2. i \in Inode
  BY <1>1, CallAt DEF AtInode
<1>3. i \in InUse /\ r \in InodeRecord
  BY <1>1, <1>2, MemoryIs
<1> QED
  BY <1>1, <1>3, FieldsOf DEF Sets

LEMMA FileCloseSets ==
  ASSUME TypeOK, NEW p, NEW op, NEW f \in Opened, FileClose(p, op, f)
  PROVE  LET i == file[f].inode r == inode[i]
         IN  /\ i \in InUse /\ UNCHANGED <<diskVars, open_inodes>>
             /\ file' = [file EXCEPT ![f] = None]
             /\ Sets(i, r.sector, r.open_cnt,
                     IF file[f].deny_write THEN r.deny_write_cnt - 1 ELSE r.deny_write_cnt,
                     r.removed, r.data)
<1> DEFINE i == file[f].inode
           r == inode[i]
<1>1. /\ inode[i] # None /\ UNCHANGED <<diskVars, open_inodes>>
      /\ file' = [file EXCEPT ![f] = None]
      /\ inode' = IF file[f].deny_write
                  THEN [inode EXCEPT ![i] = [r EXCEPT !.deny_write_cnt = r.deny_write_cnt - 1]]
                  ELSE inode
  BY DEF FileClose
<1>2. i \in InUse /\ r \in InodeRecord /\ inode \in [Inode -> InodeRecord \cup {None}]
      /\ i \in Inode
  BY <1>1, MemoryIs DEF TypeOK
<1>3. CASE file[f].deny_write
  BY <1>1, <1>2, <1>3, FieldsOf DEF Sets
<1>4. CASE ~file[f].deny_write
  <2>1. inode = [inode EXCEPT ![i] = r]
    BY <1>2
  <2>2. r = [r EXCEPT !.open_cnt = r.open_cnt]
    BY <1>2 DEF InodeRecord
  <2> QED
    BY <1>1, <1>2, <1>4, <2>1, <2>2, FieldsOf DEF Sets
<1> QED
  BY <1>3, <1>4

LEMMA InsertSets ==
  ASSUME TypeOK, Shapes, NEW p \in Proc, Insert(p)
  PROVE  /\ pc[p] = "insert" /\ call[p].sector \in Sector /\ UNCHANGED <<diskVars, file, procVars>>
         /\ \/ Moves(p, "leave", call[p]) /\ UNCHANGED <<inode, open_inodes>>
            \/ \E i \in FreeInodes, c \in Call :
                 /\ Moves(p, "header", c) /\ c.op = call[p].op /\ c.inode = i
                 /\ c.sector = call[p].sector /\ c.entry = call[p].entry
                 /\ Sets(i, call[p].sector, 1, 0, FALSE, NoHeader)
                 /\ open_inodes' = <<i>> \o open_inodes
<1>1. pc[p] = "insert" /\ UNCHANGED <<diskVars, file, procVars>>
  BY DEF Insert, At
<1>2. call[p].sector \in Sector
  BY <1>1, CallAt DEF AtSector
<1> QED
  BY <1>1, <1>2, InsertMoves DEF Sets

LEMMA UnlistClears ==
  ASSUME TypeOK, Shapes, NEW p \in Proc, Unlist(p)
  PROVE  LET i == call[p].inode
         IN  /\ pc[p] = "unlist" /\ i \in InUse /\ UNCHANGED <<diskVars, file, procVars>>
             /\ inode' \in [Inode -> InodeRecord \cup {None}] /\ InUse' = InUse \ {i}
             /\ \A j \in Inode : j # i => inode'[j] = inode[j]
             /\ open_inodes' = ListRemove(open_inodes, {i})
<1> DEFINE i == call[p].inode
<1>1. /\ pc[p] = "unlist" /\ inode[i] # None /\ UNCHANGED <<diskVars, file, procVars>>
      /\ open_inodes' = ListRemove(open_inodes, {i})
      /\ inode' = [inode EXCEPT ![i] = None]
  BY DEF Unlist, At
<1>2. i \in Inode /\ inode \in [Inode -> InodeRecord \cup {None}]
  BY <1>1, CallAt DEF AtInode, TypeOK
<1>3. inode' \in [Inode -> InodeRecord \cup {None}] /\ inode'[i] = None
      /\ \A j \in Inode : j # i => inode'[j] = inode[j]
  BY <1>1, <1>2
<1>4. i \in InUse /\ InUse' = InUse \ {i}
  BY <1>1, <1>2, <1>3 DEF InUse
<1> QED
  BY <1>1, <1>3, <1>4

\* What write() does.
Written(f, i, v) ==
  \/ /\ Sets(i, inode[i].sector, inode[i].open_cnt, inode[i].deny_write_cnt + 1,
             inode[i].removed, inode[i].data)
     /\ ~file[f].deny_write /\ file' = [file EXCEPT ![f].deny_write = TRUE] /\ disk' = disk
  \/ /\ inode' = inode /\ file' = [file EXCEPT ![f].pos = @ + 1]
     /\ file[f].pos < inode[i].data.length
     /\ disk' = [disk EXCEPT ![inode[i].data.start + file[f].pos] = v]
  \/ UNCHANGED <<inode, file, disk>>

LEMMA WriteSets ==
  ASSUME TypeOK, Shapes, Descriptors, NEW p \in Proc, NEW d \in Fd, NEW v \in Data, Write(p, d, v)
  PROVE  LET f == files[p][d]
         IN  /\ f \in Opened /\ file[f].inode \in InUse /\ Ready(p)
             /\ UNCHANGED <<free_map, dir, open_inodes, procVars, pc, call>>
             /\ Written(f, file[f].inode, v)
<1> DEFINE f == files[p][d]
           i == file[f].inode
           r == inode[i]
<1>1. /\ f # None /\ inode[i] # None /\ Ready(p)
      /\ UNCHANGED <<free_map, dir, open_inodes, procVars, pc, call>>
  BY DEF Write
<1>2. f \in Opened
  BY <1>1, HandleIs
<1>3. i \in InUse /\ r \in InodeRecord
  BY <1>1, <1>2, MemoryIs
<1> DEFINE denied == Denies(p, f)
           writes == ~denied /\ r.deny_write_cnt = 0 /\ file[f].pos < r.data.length
<1>4. CASE denied
  <2>1. /\ inode' = [inode EXCEPT ![i].deny_write_cnt = @ + 1]
        /\ file' = [file EXCEPT ![f].deny_write = TRUE] /\ disk' = disk
    BY <1>4 DEF Write
  <2>2. ~file[f].deny_write
    BY <1>4 DEF Denies
  <2>3. inode' = [inode EXCEPT ![i] = [r EXCEPT !.deny_write_cnt = r.deny_write_cnt + 1]]
    BY <2>1
  <2>4. Sets(i, r.sector, r.open_cnt, r.deny_write_cnt + 1, r.removed, r.data)
    BY <1>3, <2>3, FieldsOf DEF Sets
  <2> QED
    BY <1>1, <1>2, <1>3, <2>1, <2>2, <2>4 DEF Written
<1>5. CASE writes
  <2>1. /\ inode' = inode /\ file' = [file EXCEPT ![f].pos = @ + 1]
        /\ disk' = [disk EXCEPT ![r.data.start + file[f].pos] = v]
    BY <1>5 DEF Write
  <2> QED
    BY <1>1, <1>2, <1>3, <1>5, <2>1 DEF Written
<1>6. CASE ~denied /\ ~writes
  <2>1. UNCHANGED <<inode, file, disk>>
    BY <1>6 DEF Write
  <2> QED
    BY <1>1, <1>2, <1>3, <2>1 DEF Written
<1> QED
  BY <1>4, <1>5, <1>6

InodeTypeOK ==
  /\ inode \in [Inode -> InodeRecord \cup {None}]
  /\ open_inodes \in Seq(Inode)
  /\ \A i \in InUse : Extent(inode[i].data.start, inode[i].data.length) \subseteq Sector

\* A struct inode is written as its type says.
LEMMA SetsSound ==
  ASSUME TypeOK, Extents, NEW i \in Inode, NEW s \in Sector, NEW cnt \in Int, NEW deny \in Int,
         NEW removed \in BOOLEAN, NEW data \in DiskInode, Sets(i, s, cnt, deny, removed, data),
         Extent(data.start, data.length) \subseteq Sector, open_inodes' \in Seq(Inode)
  PROVE  InodeTypeOK'
<1>1. /\ inode' \in [Inode -> InodeRecord \cup {None}] /\ inode'[i].data = data
      /\ \A j \in Inode : j # i => inode'[j] = inode[j]
      /\ InUse' = InUse \cup {i}
  BY SetsIs
<1>2. ASSUME NEW j \in InUse'
      PROVE  Extent(inode'[j].data.start, inode'[j].data.length) \subseteq Sector
  <2>1. CASE j = i
    BY <1>1, <2>1
  <2>2. CASE j # i
    BY <1>1, <2>2, MemoryIs DEF Extents
  <2> QED
    BY <2>1, <2>2
<1> QED
  BY <1>1, <1>2 DEF InodeTypeOK

\* The same when only the counts of an inode in use, or its mark, change.
LEMMA CountsSound ==
  ASSUME TypeOK, Extents, NEW i \in InUse, NEW cnt \in Int, NEW deny \in Int,
         NEW removed \in BOOLEAN,
         Sets(i, inode[i].sector, cnt, deny, removed, inode[i].data), UNCHANGED open_inodes
  PROVE  InodeTypeOK'
<1>1. i \in Inode /\ inode[i].sector \in Sector /\ inode[i].data \in DiskInode
  BY MemoryIs
<1>2. Extent(inode[i].data.start, inode[i].data.length) \subseteq Sector
  BY DEF Extents
<1>3. open_inodes' \in Seq(Inode)
  BY DEF TypeOK
<1> QED
  BY <1>1, <1>2, <1>3, SetsSound

LEMMA InodeSound ==
  ASSUME TypeOK, Shapes, Extents, Descriptors, NEW p \in Proc, Step(p)
  PROVE  InodeTypeOK'
<1>1. CASE UNCHANGED <<inode, open_inodes>>
  BY <1>1 DEF InodeTypeOK, TypeOK, Extents, InUse
<1>2. \A i \in InUse : i \in Inode /\ inode[i].open_cnt \in Int /\ inode[i].deny_write_cnt \in Int
        /\ inode[i].removed \in BOOLEAN /\ inode[i].sector \in Sector
        /\ inode[i].open_cnt + 1 \in Int /\ inode[i].open_cnt - 1 \in Int
        /\ inode[i].deny_write_cnt + 1 \in Int /\ inode[i].deny_write_cnt - 1 \in Int
  BY MemoryIs, FieldsOf
<1>3. NoHeader \in DiskInode /\ Extent(NoHeader.start, NoHeader.length) \subseteq Sector
  BY DEF NoHeader, DiskInode, Extent
<1>4. CASE Reopen(p)
  BY <1>2, <1>4, ReopenSets, CountsSound
<1>5. CASE Insert(p)
  <2>1. ASSUME NEW i \in FreeInodes, Sets(i, call[p].sector, 1, 0, FALSE, NoHeader),
               open_inodes' = <<i>> \o open_inodes
        PROVE  InodeTypeOK'
    <3>1. i \in Inode /\ open_inodes \in Seq(Inode)
      BY DEF FreeInodes, TypeOK
    <3>2. <<i>> \o open_inodes \in Seq(Inode)
      BY <3>1
    <3>3. call[p].sector \in Sector
      BY <1>5, InsertSets
    <3>4. open_inodes' \in Seq(Inode) /\ 1 \in Int /\ 0 \in Int /\ FALSE \in BOOLEAN
      BY <2>1, <3>2
    <3> QED
      BY <1>3, <2>1, <3>1, <3>3, <3>4, SetsSound
  <2> QED
    BY <1>1, <1>5, <2>1, InsertSets
<1>6. CASE ReadHeader(p)
  <2> DEFINE i == call[p].inode
             r == inode[i]
             s == call[p].sector
             h == IF disk[s] \in DiskInode THEN disk[s] ELSE NoHeader
  <2>1. /\ i \in InUse /\ s \in Sector /\ UNCHANGED open_inodes
        /\ Sets(i, r.sector, r.open_cnt, r.deny_write_cnt, r.removed, h)
    BY <1>6, ReadHeaderSets
  <2>2. h \in DiskInode /\ Extent(h.start, h.length) \subseteq Sector
    BY <1>3, <2>1 DEF Extents, FileData
  <2>3. open_inodes' \in Seq(Inode)
    BY <2>1 DEF TypeOK
  <2>4. /\ i \in Inode /\ r.sector \in Sector /\ r.open_cnt \in Int
        /\ r.deny_write_cnt \in Int /\ r.removed \in BOOLEAN
    BY <1>2, <2>1
  <2>5. Sets(i, r.sector, r.open_cnt, r.deny_write_cnt, r.removed, h)
    BY <2>1
  <2> HIDE DEF h, i, r, s
  <2> QED
    BY <2>2, <2>3, <2>4, <2>5, SetsSound
<1>7. CASE Drop(p)
  BY <1>2, <1>7, DropSets, CountsSound
<1>8. CASE Unlist(p)
  <2> DEFINE i == call[p].inode
  <2>1. open_inodes \in Seq(Inode)
    BY DEF TypeOK
  <2>2. /\ inode' \in [Inode -> InodeRecord \cup {None}] /\ InUse' = InUse \ {i}
        /\ \A j \in Inode : j # i => inode'[j] = inode[j]
        /\ open_inodes' = ListRemove(open_inodes, {i})
    BY <1>8, UnlistClears
  <2> HIDE DEF i
  <2>3. open_inodes' \in Seq(Inode)
    BY <2>1, <2>2, ListRemoveFacts
  <2>4. \A j \in InUse' : j \in InUse /\ inode'[j] = inode[j]
    BY <1>2, <2>2
  <2> QED
    BY <2>2, <2>3, <2>4 DEF InodeTypeOK, Extents
<1>9. CASE InodeRemove(p)
  BY <1>2, <1>9, InodeRemoveSets, CountsSound
<1>10. ASSUME NEW f \in Opened, NEW op, FileClose(p, op, f)
       PROVE  InodeTypeOK'
  BY <1>2, <1>10, FileCloseSets, CountsSound
<1>11. CASE LoadDone(p)
  BY <1>10, <1>11, HandleIs DEF LoadDone, At
<1>12. CASE ExitNext(p)
  <2>1. CASE UNCHANGED <<diskVars, memoryVars>>
    BY <1>1, <2>1 DEF memoryVars
  <2> QED
    BY <1>10, <1>12, <2>1, ExitNextIs, HandleIs
<1>13. ASSUME NEW d \in Fd, Close(p, d)
       PROVE  InodeTypeOK'
  BY <1>10, <1>13, HandleIs DEF Close
<1>14. ASSUME NEW d \in Fd, NEW v \in Data, Write(p, d, v)
       PROVE  InodeTypeOK'
  <2> DEFINE f == files[p][d]
             i == file[f].inode
  <2>1. i \in InUse /\ UNCHANGED open_inodes /\ Written(f, i, v)
    BY <1>14, WriteSets
  <2> HIDE DEF f, i
  <2> QED
    BY <1>1, <1>2, <2>1, CountsSound DEF Written
<1> QED
  BY <1>1, <1>4, <1>5, <1>6, <1>7, <1>8, <1>9, <1>11, <1>12, <1>13, <1>14, Frames
     DEF Frame, InodeStep

FileTypeOK ==
  /\ file \in [File -> FileRecord \cup {None}]
  /\ files \in [Proc -> [Fd -> File \cup {None}]]
  /\ current_file \in [Proc -> File \cup {None}]
  /\ Descriptors

FileTypes ==
  /\ file \in [File -> FileRecord \cup {None}]
  /\ files \in [Proc -> [Fd -> File \cup {None}]]
  /\ current_file \in [Proc -> File \cup {None}]

\* What the handles are after a step: of a descriptor, and of load().
LEMMA HandlesAfter ==
  /\ \A q \in Proc, d \in Fd : Handle(q, d) = files[q][d] /\ Handle(q, d)' = files'[q][d]
  /\ \A q \in Proc : Handle(q, -1) = call[q].file /\ Handle(q, -1)' = call'[q].file
<1>1. -1 \notin Fd
  BY FileSysAssumption
<1> QED
  BY <1>1 DEF Handle

LEMMA LoadHandle ==
  ASSUME TypeOK, NEW p \in Proc, NEW l, NEW c, Moves(p, l, c)
  PROVE  /\ Handle(p, -1)' = c.file /\ (l # "loaded" => c.file = None)
         /\ \A q \in Proc : q # p => Handle(q, -1)' = Handle(q, -1)
<1>1. call'[p] = c /\ \A q \in Proc : q # p => call'[q] = call[q]
  BY MovesIs
<1>2. l # "loaded" => c.file = None
  BY DEF Moves, Shape
<1> QED
  BY <1>1, <1>2, HandlesAfter

\* No handle is new.
LEMMA NoNewHandle ==
  ASSUME Descriptors,
         \A q \in Proc, h \in Fd \cup {-1} : Handle(q, h)' # None =>
           Handle(q, h)' = Handle(q, h) /\ Handle(q, h)' \in Opened'
  PROVE  Descriptors'
BY DEF Descriptors

\* One handle is new, of a new file.
LEMMA NewHandle ==
  ASSUME Descriptors, NEW p \in Proc, NEW g \in Fd \cup {-1}, NEW f, f \notin Opened,
         f \in Opened', Opened \subseteq Opened', Handle(p, g)' = f,
         \A q \in Proc, h \in Fd \cup {-1} : (q # p \/ h # g) /\ Handle(q, h)' # None =>
           Handle(q, h)' = Handle(q, h)
  PROVE  Descriptors'
<1>1. ASSUME NEW q \in Proc, NEW h \in Fd \cup {-1}, q # p \/ h # g, Handle(q, h)' # None
      PROVE  Handle(q, h)' = Handle(q, h) /\ Handle(q, h)' \in Opened' /\ Handle(q, h)' # f
  BY <1>1 DEF Descriptors
<1> QED
  BY <1>1 DEF Descriptors

LEMMA EndSound ==
  ASSUME TypeOK, Descriptors, NEW p \in Proc, End(p), UNCHANGED file
  PROVE  FileTypeOK'
<1>1. Moves(p, "ended", NoCall)
  BY EndMoves
<1>2. /\ files' = [files EXCEPT ![p] = [d \in Fd |-> None]]
      /\ current_file' = [current_file EXCEPT ![p] = None]
      /\ FileTypes
  BY DEF End, TypeOK, FileTypes
<1>3. FileTypes'
  BY <1>2 DEF FileTypes
<1>4. \A q \in Proc, d \in Fd : files'[q][d] \in {files[q][d], None}
  BY <1>2 DEF FileTypes
<1>5. \A q \in Proc, h \in Fd \cup {-1} : Handle(q, h)' \in {Handle(q, h), None}
  BY <1>1, <1>4, HandlesAfter, LoadHandle
<1>6. Opened' = Opened
  BY DEF Opened
<1>7. Descriptors'
  BY <1>5, <1>6, NoNewHandle DEF Descriptors
<1> QED
  BY <1>3, <1>7 DEF FileTypes, FileTypeOK

\* A file is closed: its handle is gone.
LEMMA CloseSound ==
  ASSUME TypeOK, Descriptors, NEW p \in Proc, NEW l, NEW c, Moves(p, l, c), l # "loaded",
         NEW g \in Fd \cup {-1}, Handle(p, g) # None,
         file' = [file EXCEPT ![Handle(p, g)] = None],
         (g = -1 /\ UNCHANGED files) \/ (g \in Fd /\ files' = [files EXCEPT ![p][g] = None]),
         UNCHANGED current_file
  PROVE  FileTypeOK'
<1> DEFINE f == Handle(p, g)
<1>1. FileTypes
  BY DEF TypeOK, FileTypes
<1>2. f \in Opened /\ \A q \in Proc, h \in Fd \cup {-1} : Handle(q, h) = f => q = p /\ h = g
  BY DEF Descriptors
<1>3. -1 \notin Fd
  BY FileSysAssumption
<1>4. FileTypes' /\ \A e \in File : e # f => file'[e] = file[e]
  <2>1. f \in File /\ file' = [file EXCEPT ![f] = None]
    BY <1>2 DEF Opened
  <2> HIDE DEF f
  <2>2. /\ file' \in [File -> FileRecord \cup {None}]
        /\ \A e \in File : e # f => file'[e] = file[e]
    BY <1>1, <2>1 DEF FileTypes
  <2>3. files' \in [Proc -> [Fd -> File \cup {None}]]
    BY <1>1, <1>3 DEF FileTypes
  <2> QED
    BY <1>1, <2>2, <2>3 DEF FileTypes
<1>5. \A e \in Opened : e # f => e \in Opened'
  BY <1>4 DEF Opened
<1>6. \A q \in Proc, d \in Fd : files'[q][d] = IF q = p /\ d = g THEN None ELSE files[q][d]
  BY <1>1, <1>3 DEF FileTypes
<1>7. ASSUME NEW q \in Proc, NEW h \in Fd \cup {-1}, Handle(q, h)' # None
      PROVE  Handle(q, h)' = Handle(q, h) /\ (q # p \/ h # g)
  <2>1. CASE h = -1
    BY <1>3, <1>7, <2>1, LoadHandle
  <2>2. CASE h \in Fd
    BY <1>6, <1>7, <2>2, HandlesAfter
  <2> QED
    BY <2>1, <2>2
<1>8. ASSUME NEW q \in Proc, NEW h \in Fd \cup {-1}, Handle(q, h)' # None
      PROVE  Handle(q, h)' = Handle(q, h) /\ Handle(q, h)' \in Opened'
  BY <1>2, <1>5, <1>7, <1>8 DEF Descriptors
<1>9. Descriptors'
  BY <1>8, NoNewHandle
<1> QED
  BY <1>4, <1>9 DEF FileTypes, FileTypeOK

\* The record of a file that is open changes.
LEMMA RecordSound ==
  ASSUME TypeOK, Descriptors, NEW f \in Opened, NEW r \in FileRecord,
         file' = [file EXCEPT ![f] = r], UNCHANGED <<procVars, call>>
  PROVE  FileTypeOK'
<1>1. FileTypes' /\ \A e \in Opened : e \in Opened'
  <2>1. FileTypes /\ f \in File /\ r # None
    BY NoneIs DEF TypeOK, FileTypes, Opened
  <2>2. FileTypes' /\ file'[f] = r /\ \A e \in File : e # f => file'[e] = file[e]
    BY <2>1 DEF FileTypes, procVars
  <2> QED
    BY <2>1, <2>2 DEF Opened
<1>2. \A q \in Proc, h \in Fd \cup {-1} : Handle(q, h)' = Handle(q, h)
  BY DEF procVars, Handle
<1>3. Descriptors'
  BY <1>1, <1>2 DEF Descriptors
<1> QED
  BY <1>1, <1>3 DEF FileTypes, FileTypeOK

LEMMA MadeSound ==
  ASSUME TypeOK, Shapes, Descriptors, NEW p \in Proc, NEW f \in FreeFiles, FileMade(p, f),
         call[p].inode \in Inode
  PROVE  FileTypeOK'
<1> DEFINE r == [inode |-> call[p].inode, pos |-> 0, deny_write |-> FALSE]
<1>1. r \in FileRecord /\ f \in File /\ file[f] = None /\ file' = [file EXCEPT ![f] = r]
  BY DEF FileRecord, FreeFiles, FileMade
<1> HIDE DEF r
<1>2. FileTypes /\ f \notin Opened
  BY <1>1 DEF TypeOK, FileTypes, Opened
<1>3. file' \in [File -> FileRecord \cup {None}] /\ file'[f] = r /\ r # None
      /\ \A e \in File : e # f => file'[e] = file[e]
  BY <1>1, <1>2, NoneIs DEF FileTypes
<1>4. f \in Opened' /\ Opened \subseteq Opened' /\ f # None
  BY <1>1, <1>3, NoneIs DEF Opened
<1>5. -1 \notin Fd
  BY FileSysAssumption
<1>6. CASE Moves(p, "loaded", Loading(f)) /\ UNCHANGED procVars
  <2>1. Handle(p, -1)' = f /\ \A q \in Proc : q # p => Handle(q, -1)' = Handle(q, -1)
    BY <1>1, <1>6, LoadHandle, LoadedCall
  <2>2. \A q \in Proc, d \in Fd : Handle(q, d)' = Handle(q, d)
    BY <1>6, HandlesAfter DEF procVars
  <2>3. FileTypes'
    BY <1>2, <1>3, <1>6 DEF FileTypes, procVars
  <2>4. Descriptors'
    BY <1>2, <1>4, <1>5, <2>1, <2>2, NewHandle
  <2> QED
    BY <2>3, <2>4 DEF FileTypes, FileTypeOK
<1>7. CASE /\ Moves(p, "user", NoCall) /\ files' = files
           /\ current_file' \in {current_file, [current_file EXCEPT ![p] = f]}
  <2>1. FileTypes'
    BY <1>1, <1>2, <1>3, <1>7 DEF FileTypes
  <2>2. \A q \in Proc, h \in Fd \cup {-1} : Handle(q, h)' \in {Handle(q, h), None}
    BY <1>7, LoadHandle, HandlesAfter
  <2>3. Descriptors'
    BY <1>4, <2>2, NoNewHandle DEF Descriptors
  <2> QED
    BY <2>1, <2>3 DEF FileTypes, FileTypeOK
<1>8. ASSUME NEW d \in Fd, files[p][d] = None, files' = [files EXCEPT ![p][d] = f],
             Moves(p, "user", NoCall),
             current_file' \in {current_file, [current_file EXCEPT ![p] = f]}
      PROVE  FileTypeOK'
  <2>1. FileTypes'
    BY <1>1, <1>2, <1>3, <1>8 DEF FileTypes
  <2>2. \A q \in Proc, h \in Fd : files'[q][h] = IF q = p /\ h = d THEN f ELSE files[q][h]
    BY <1>2, <1>8 DEF FileTypes
  <2>3. \A q \in Proc : Handle(q, -1)' \in {Handle(q, -1), None}
    BY <1>8, LoadHandle
  <2>4. Handle(p, d)' = f
    BY <2>2, HandlesAfter
  <2>5. ASSUME NEW q \in Proc, NEW h \in Fd \cup {-1}, q # p \/ h # d, Handle(q, h)' # None
        PROVE  Handle(q, h)' = Handle(q, h)
    BY <1>5, <2>2, <2>3, <2>5, HandlesAfter
  <2>6. Descriptors'
    BY <1>2, <1>4, <2>4, <2>5, NewHandle
  <2> QED
    BY <2>1, <2>6 DEF FileTypes, FileTypeOK
<1> QED
  BY <1>6, <1>7, <1>8 DEF FileMade, procVars

\* The fields of a struct file.
LEMMA FileFields ==
  ASSUME NEW r \in FileRecord
  PROVE  /\ r.inode \in Inode /\ r.pos \in Nat /\ r.deny_write \in BOOLEAN
         /\ \A n \in Nat : /\ [r EXCEPT !.pos = n] \in FileRecord
                           /\ [r EXCEPT !.pos = n].inode = r.inode
                           /\ [r EXCEPT !.pos = n].deny_write = r.deny_write
         /\ [r EXCEPT !.deny_write = TRUE] \in FileRecord
         /\ [r EXCEPT !.deny_write = TRUE].inode = r.inode
         /\ [r EXCEPT !.deny_write = TRUE].deny_write
BY DEF FileRecord

LEMMA FileSound ==
  ASSUME TypeOK, Shapes, Descriptors, NEW p \in Proc, Step(p)
  PROVE  FileTypeOK'
<1>1. CASE UNCHANGED <<file, procVars, pc, call>>
  <2>1. \A q \in Proc, h \in Fd \cup {-1} : Handle(q, h)' = Handle(q, h)
    BY <1>1 DEF procVars, Handle
  <2> QED
    BY <1>1, <2>1 DEF TypeOK, FileTypeOK, Descriptors, Opened, procVars
<1>2. ASSUME UNCHANGED <<file, procVars>>, NEW l, l # "loaded", NEW c, Moves(p, l, c)
      PROVE  FileTypeOK'
  <2>1. \A q \in Proc, h \in Fd \cup {-1} : Handle(q, h)' \in {Handle(q, h), None}
    BY <1>2, LoadHandle, HandlesAfter DEF procVars
  <2>2. Opened' = Opened
    BY <1>2 DEF Opened
  <2>3. Descriptors'
    BY <2>1, <2>2, NoNewHandle DEF Descriptors
  <2> QED
    BY <1>2, <2>3 DEF TypeOK, FileTypeOK, procVars
<1>3. CASE FileOpen(p)
  <2>1. pc[p] = "file"
    BY <1>3 DEF FileOpen, At
  <2>2. call[p].inode \in Inode
    BY <2>1, CallAt DEF AtInode
  <2> QED
    BY <1>2, <1>3, <2>2, MadeSound, FileOpenMoves
<1>4. CASE UNCHANGED <<file, procVars>> /\ ~FileOpen(p)
  <2>1. CASE UNCHANGED <<pc, call>>
    BY <1>1, <1>4, <2>1
  <2> QED
    BY <1>2, <1>4, <2>1, StepMoves DEF Moved
<1>5. CASE LoadDone(p)
  <2>1. /\ FileClose(p, "load", call[p].file) /\ call[p].file \in Opened
        /\ call[p].file # None /\ UNCHANGED procVars /\ "load" \in Op \ {"open"}
    BY <1>5, HandleIs DEF LoadDone, At, Op
  <2>2. Moves(p, "drop", Closing("load", file[call[p].file].inode))
    BY <2>1, FileCloseMoves
  <2>3. file' = [file EXCEPT ![Handle(p, -1)] = None] /\ Handle(p, -1) # None
    BY <2>1, HandlesAfter DEF FileClose
  <2> QED
    BY <2>1, <2>2, <2>3, CloseSound DEF procVars
<1>6. ASSUME NEW d \in Fd, NEW op \in Op \ {"open"}, FileClose(p, op, files[p][d]),
             files[p][d] # None, files' = [files EXCEPT ![p][d] = None], UNCHANGED current_file
      PROVE  FileTypeOK'
  <2>1. files[p][d] \in Opened
    BY <1>6, HandleIs
  <2>2. Moves(p, "drop", Closing(op, file[files[p][d]].inode))
    BY <1>6, <2>1, FileCloseMoves
  <2>3. file' = [file EXCEPT ![Handle(p, d)] = None] /\ Handle(p, d) # None
    BY <1>6, HandlesAfter DEF FileClose
  <2> QED
    BY <1>6, <2>2, <2>3, CloseSound
<1>7. CASE ExitNext(p)
  <2>1. CASE End(p) /\ UNCHANGED <<diskVars, memoryVars>>
    BY <2>1, EndSound DEF memoryVars
  <2>2. "exit" \in Op \ {"open"}
    BY DEF Op
  <2> QED
    BY <1>6, <1>7, <2>1, <2>2, ExitNextIs
<1>8. ASSUME NEW d \in Fd, Close(p, d)
      PROVE  FileTypeOK'
  <2>1. "close" \in Op \ {"open"}
    BY DEF Op
  <2> QED
    BY <1>6, <1>8, <2>1 DEF Close
<1>9. CASE DirClose(p)
  <2>1. CASE End(p)
    BY <1>9, <2>1, EndSound DEF DirClose, memoryVars
  <2>2. CASE ~End(p)
    <3>1. UNCHANGED <<diskVars, memoryVars>> /\ UNCHANGED procVars
      BY <1>9, <2>2 DEF DirClose
    <3>2. ~FileOpen(p)
      BY <1>9 DEF DirClose, FileOpen, At
    <3> QED
      BY <1>4, <3>1, <3>2 DEF memoryVars
  <2> QED
    BY <2>1, <2>2
<1>10. CASE Kill(p)
  BY <1>10, EndSound DEF Kill, memoryVars
<1>11. ASSUME NEW f \in Opened, NEW r \in FileRecord, file' = [file EXCEPT ![f] = r],
              UNCHANGED <<procVars, call>>
       PROVE  FileTypeOK'
  BY <1>11, RecordSound
<1>12. \A f \in Opened : /\ file[f] \in FileRecord /\ file[f].pos \in Nat
                         /\ file[f].pos + 1 \in Nat
  BY MemoryIs
<1>13. ASSUME NEW d \in Fd, Read(p, d)
       PROVE  FileTypeOK'
  <2> DEFINE f == files[p][d]
  <2>1. /\ f # None /\ UNCHANGED <<procVars, pc, call>>
        /\ file' = file \/ file' = [file EXCEPT ![f] = [file[f] EXCEPT !.pos = file[f].pos + 1]]
    BY <1>13 DEF Read
  <2>2. f \in Opened
    BY <2>1, HandleIs
  <2> HIDE DEF f
  <2>3. [file[f] EXCEPT !.pos = file[f].pos + 1] \in FileRecord
    BY <1>12, <2>2, FileFields
  <2> QED
    BY <1>1, <1>11, <2>1, <2>2, <2>3
<1>14. ASSUME NEW d \in Fd, NEW v \in Data, Write(p, d, v)
       PROVE  FileTypeOK'
  <2> DEFINE f == files[p][d]
  <2>1. /\ f \in Opened /\ UNCHANGED <<procVars, pc, call>> /\ Written(f, file[f].inode, v)
    BY <1>14, WriteSets
  <2> HIDE DEF f
  <2>2. /\ [file[f] EXCEPT !.pos = file[f].pos + 1] \in FileRecord
        /\ [file[f] EXCEPT !.deny_write = TRUE] \in FileRecord
    BY <1>12, <2>1, FileFields
  <2>3. \/ file' = file
        \/ file' = [file EXCEPT ![f] = [file[f] EXCEPT !.pos = file[f].pos + 1]]
        \/ file' = [file EXCEPT ![f] = [file[f] EXCEPT !.deny_write = TRUE]]
    BY <2>1 DEF Written
  <2> QED
    BY <1>1, <1>11, <2>1, <2>2, <2>3
<1>15. ASSUME NEW d \in Fd, NEW position \in 0 .. Max(Lengths), Seek(p, d, position)
       PROVE  FileTypeOK'
  <2> DEFINE f == files[p][d]
  <2>1. /\ f # None /\ UNCHANGED <<procVars, pc, call>>
        /\ file' = [file EXCEPT ![f] = [file[f] EXCEPT !.pos = position]]
    BY <1>15 DEF Seek
  <2>2. f \in Opened /\ position \in Nat
    BY <2>1, HandleIs, MaxLengthIs
  <2> HIDE DEF f
  <2>3. [file[f] EXCEPT !.pos = position] \in FileRecord
    BY <1>12, <2>2, FileFields
  <2> QED
    BY <1>11, <2>1, <2>2, <2>3
<1> QED
  BY <1>3, <1>4, <1>5, <1>7, <1>8, <1>9, <1>10, <1>13, <1>14, <1>15, Frames DEF Frame, FileStep

-----------------------------------------------------------------------------
(* Sound holds in every run *)

LEMMA InitSound == Init => Sound
<1> SUFFICES ASSUME Init PROVE Sound
  OBVIOUS
<1> USE FileSysAssumption
<1>1. Len(Programs) \in Nat /\ \A k \in 1 .. Len(Programs) : Programs[k] \in Name
  BY LenProperties
<1>2. ASSUME NEW k \in 1 .. Len(Programs)
      PROVE  2 * k - 1 \in Sector /\ 2 * k \in Sector
  BY <1>1 DEF Sector
<1>3. free_map \subseteq Sector
  BY <1>1 DEF Init, Sector
<1>4. ASSUME NEW s \in Sector
      PROVE  /\ disk[s] \in Data \cup DiskInode
             /\ disk[s] \in DiskInode => FileData(s) \subseteq Sector
  <2>1. CASE \E k \in 1 .. Len(Programs) : s = 2 * k - 1
    <3>1. PICK k \in 1 .. Len(Programs) : s = 2 * k - 1
      BY <2>1
    <3>2. disk[s] = [start |-> s + 1, length |-> 1] /\ s + 1 \in Nat /\ s + 1 = 2 * k
      BY <2>1, <3>1, <1>1 DEF Init, Sector
    <3>3. disk[s] \in DiskInode /\ disk[s].start = s + 1 /\ disk[s].length = 1
      BY <3>2, HeaderIs
    <3>4. FileData(s) \subseteq {s + 1}
      BY <3>2, <3>3 DEF FileData, Extent
    <3> QED
      BY <1>2, <3>2, <3>3, <3>4
  <2>2. CASE ~\E k \in 1 .. Len(Programs) : s = 2 * k - 1
    <3>1. disk[s] = Zero
      BY <2>2 DEF Init
    <3> QED
      BY <3>1, DataAssumption
  <2> QED
    BY <2>1, <2>2
<1>5. disk \in [Sector -> Data \cup DiskInode]
  <2>1. DOMAIN disk = Sector /\ disk = [s \in Sector |-> disk[s]]
    BY DEF Init
  <2> QED
    BY <1>4, <2>1
<1>6. dir \in [1 .. Slots -> Entry \cup {None}]
  <2>1. ASSUME NEW e \in 1 .. Slots, e <= Len(Programs)
        PROVE  [name |-> Programs[e], sector |-> 2 * e - 1] \in Entry
    <3>1. e \in 1 .. Len(Programs)
      BY <1>1, <2>1
    <3> QED
      BY <1>1, <1>2, <3>1 DEF Entry
  <2> QED
    BY <2>1 DEF Init
<1>7. /\ inode = [i \in Inode |-> None] /\ open_inodes = <<>> /\ file = [f \in File |-> None]
      /\ files = [p \in Proc |-> [d \in Fd |-> None]] /\ current_file = [p \in Proc |-> None]
      /\ pc \in [Proc -> {"new", "user"}] /\ call = [p \in Proc |-> NoCall]
      /\ clash = {} /\ result = <<>> /\ calls = 0
  BY DEF Init
<1>8. /\ inode \in [Inode -> InodeRecord \cup {None}] /\ open_inodes \in Seq(Inode)
      /\ file \in [File -> FileRecord \cup {None}]
      /\ files \in [Proc -> [Fd -> File \cup {None}]]
      /\ current_file \in [Proc -> File \cup {None}]
      /\ pc \in [Proc -> Location] /\ call \in [Proc -> Call] /\ clash \subseteq Shared
      /\ result \in Seq(Data \cup DiskInode) /\ Len(result) <= 1 /\ calls \in 0 .. MaxCalls
  BY <1>7, NoCallIs DEF Location
<1>9. TypeOK
  BY <1>3, <1>5, <1>6, <1>8 DEF TypeOK
<1>10. \A p \in Proc : pc[p] \in {"new", "user"} /\ call[p] = NoCall
  BY <1>7
<1>11. Shapes
  BY <1>10, NoCallIs DEF Shapes, Shape, AtInode, AtSector, AtNew
<1>12. Extents
  BY <1>4, <1>7 DEF Extents, InUse
<1>13. Descriptors
  BY <1>7, NoCallIs DEF Descriptors, Handle
<1>14. OneLocked
  BY <1>10, NoCallIs DEF OneLocked, Locked
<1>15. \A p \in Proc : ~InList(p) /\ ~InMap(p) /\ ~Removing(p) /\ ~Adding(p)
  BY <1>10, NoCallIs DEF InList, InMap, Removing, Adding
<1>16. Met \subseteq clash
  BY <1>15 DEF Met, Meet, Shared
<1> QED
  BY <1>9, <1>11, <1>12, <1>13, <1>14, <1>16 DEF Sound

LEMMA StepSound ==
  ASSUME Sound, NEW p \in Proc, Step(p)
  PROVE  /\ DiskTypeOK' /\ InodeTypeOK' /\ FileTypeOK'
         /\ pc' \in [Proc -> Location] /\ call' \in [Proc -> Call]
         /\ Shapes' /\ OneLocked'
<1>1. DiskTypeOK' /\ InodeTypeOK' /\ FileTypeOK'
  BY DiskSound, InodeSound, FileSound DEF Sound
<1>2. /\ TypeOK /\ Shapes /\ OneLocked
      /\ pc \in [Proc -> Location] /\ call \in [Proc -> Call]
  BY DEF Sound, TypeOK
<1>3. CASE UNCHANGED <<pc, call>>
  <2>1. Shapes'
    BY <1>3, <1>2 DEF Shapes
  <2>2. OneLocked'
    BY <1>3, <1>2 DEF OneLocked, Locked
  <2> QED
    BY <1>1, <1>3, <1>2, <2>1, <2>2
<1>4. CASE Moved(p)
  <2>1. PICK l, c : Moves(p, l, c)
    BY <1>4 DEF Moved
  <2> QED
    BY <1>1, <1>2, <2>1, MovesIs
<1>5. Moved(p) \/ UNCHANGED <<pc, call>>
  BY StepMoves DEF Sound
<1> QED
  BY <1>1, <1>3, <1>4, <1>5

\* A block of an extent.
LEMMA InExtent ==
  ASSUME NEW a \in Nat, NEW n \in Nat, NEW k \in Nat, k < n
  PROVE  a + k \in Extent(a, n)
  BY DEF Extent

LEMMA ReadResult ==
  ASSUME Sound, NEW p \in Proc, NEW d \in Fd, Read(p, d)
  PROVE  result' \in Seq(Data \cup DiskInode) /\ Len(result') <= 1
<1> DEFINE f == files[p][d]
           h == inode[file[f].inode].data
<1>1. /\ f # None /\ inode[file[f].inode] # None
      /\ result' = IF file[f].pos < h.length THEN <<disk[h.start + file[f].pos]>> ELSE <<>>
  BY DEF Read
<1>2. f \in Opened
  BY <1>1, HandleIs DEF Sound
<1>3. file[f].pos \in Nat /\ file[f].inode \in InUse
  BY <1>1, <1>2, MemoryIs DEF Sound
<1>4. h.start \in Nat /\ h.length \in Nat /\ Extent(h.start, h.length) \subseteq Sector
  <2>1. h.start \in Nat /\ h.length \in Lengths \cup {0}
    BY <1>3, MemoryIs DEF Sound
  <2>2. Extent(h.start, h.length) \subseteq Sector
    BY <1>3 DEF Sound, Extents
  <2> QED
    BY <2>1, <2>2, LengthsAre, Zenon
<1>5. CASE file[f].pos < h.length
  <2> HIDE DEF f, h
  <2>1. h.start + file[f].pos \in Extent(h.start, h.length)
    BY <1>3, <1>4, <1>5, InExtent
  <2>2. disk \in [Sector -> Data \cup DiskInode]
    BY DEF Sound, TypeOK
  <2>3. disk[h.start + file[f].pos] \in Data \cup DiskInode
    BY <1>4, <2>1, <2>2
  <2>4. result' = <<disk[h.start + file[f].pos]>>
    BY <1>1, <1>5
  <2> QED
    BY <2>3, <2>4
<1> HIDE DEF f, h
<1> QED
  BY <1>1, <1>5

LEMMA NextSound == Sound /\ [Next]_vars => Sound'
<1> SUFFICES ASSUME Sound, [Next]_vars PROVE Sound'
  OBVIOUS
<1>1. CASE UNCHANGED vars
  <2>1. /\ UNCHANGED <<free_map, disk, dir, inode, open_inodes, file, files, current_file>>
        /\ UNCHANGED <<pc, call, clash, result, calls>>
    BY <1>1 DEF vars, diskVars, memoryVars, procVars
  <2>2. TypeOK'
    BY <2>1 DEF Sound, TypeOK
  <2>3. Shapes' /\ OneLocked'
    BY <2>1 DEF Sound, Shapes, OneLocked, Locked
  <2>4. Extents'
    BY <2>1 DEF Sound, Extents, FileData, InUse
  <2>5. Descriptors'
    BY <2>1 DEF Sound, Descriptors, Handle, Opened
  <2>6. Met' = Met
    BY <2>1 DEF Met, Meet, Locked, InList, InMap, Removing, Finding, Adding
  <2> QED
    BY <2>1, <2>2, <2>3, <2>4, <2>5, <2>6 DEF Sound
<1>2. CASE Next
  <2>1. PICK p \in Proc :
          \/ Continue(p) /\ result' = <<>> /\ UNCHANGED calls
          \/ /\ calls < MaxCalls /\ calls' = calls + 1
             /\ \/ Begin(p) /\ result' = <<>>
                \/ \E d \in Fd : Read(p, d)
    BY <1>2 DEF Next
  <2>2. Step(p)
    BY <2>1 DEF Step
  <2>3. /\ DiskTypeOK' /\ InodeTypeOK' /\ FileTypeOK'
        /\ pc' \in [Proc -> Location] /\ call' \in [Proc -> Call] /\ Shapes' /\ OneLocked'
    BY <2>2, StepSound
  <2>4. result' \in Seq(Data \cup DiskInode) /\ Len(result') <= 1
    <3>1. CASE result' = <<>>
      BY <3>1
    <3> QED
      BY <2>1, <3>1, ReadResult
  <2>5. calls' \in 0 .. MaxCalls
    BY <2>1, FileSysAssumption DEF Sound, TypeOK
  <2>6. clash' = clash \cup Met'
    BY <1>2 DEF Next
  <2>7. clash' \subseteq Shared
    BY <2>6 DEF Sound, TypeOK, Met
  <2>8. TypeOK'
    BY <2>3, <2>4, <2>5, <2>7 DEF DiskTypeOK, InodeTypeOK, FileTypeOK, TypeOK
  <2>9. Extents' /\ Descriptors'
    BY <2>3 DEF DiskTypeOK, InodeTypeOK, FileTypeOK, Extents
  <2> QED
    BY <2>3, <2>6, <2>8, <2>9 DEF Sound
<1> QED
  BY <1>1, <1>2

-----------------------------------------------------------------------------
(* Inodes count their openers, until two calls have met on the list *)

One(b) == IF b THEN 1 ELSE 0

\* Sets that differ in one element at most.
LEMMA OneApart ==
  ASSUME NEW S, NEW T, IsFiniteSet(S), IsFiniteSet(T), NEW x, S \ {x} = T \ {x}
  PROVE  /\ Cardinality(S) \in Nat /\ Cardinality(T) \in Nat
         /\ Cardinality(T) = Cardinality(S) + One(x \in T) - One(x \in S)
<1>1. /\ Cardinality(S \ {x}) = IF x \in S THEN Cardinality(S) - 1 ELSE Cardinality(S)
      /\ Cardinality(T \ {x}) = IF x \in T THEN Cardinality(T) - 1 ELSE Cardinality(T)
  BY FS_RemoveElement
<1>2. Cardinality(S) \in Nat /\ Cardinality(T) \in Nat
  BY FS_CardinalityType
<1> QED
  BY <1>1, <1>2 DEF One

\* The inode that a call holds, that a file uses, that it denies writes to.
Held(p)    == IF Holding(p) THEN call[p].inode ELSE None
Uses(f)    == IF f \in Opened THEN file[f].inode ELSE None
DeniedBy(f) == IF f \in Opened /\ file[f].deny_write THEN file[f].inode ELSE None

LEMMA WhoIs ==
  /\ \A i \in Inode : Holders(i) = {p \in Proc : Held(p) = i}
  /\ \A i \in Inode : Users(i) = {f \in File : Uses(f) = i}
  /\ \A i \in Inode : Denying(i) = {f \in File : DeniedBy(f) = i}
  /\ \A i \in Inode : (Holders(i))' = {p \in Proc : Held(p)' = i}
  /\ \A i \in Inode : (Users(i))' = {f \in File : Uses(f)' = i}
  /\ \A i \in Inode : (Denying(i))' = {f \in File : DeniedBy(f)' = i}
<1>1. \A i \in Inode : i # None
  BY NoneIs
<1>2. \A i \in Inode : Holders(i) = {p \in Proc : Held(p) = i}
  BY <1>1 DEF Holders, Held
<1>3. \A i \in Inode : Users(i) = {f \in File : Uses(f) = i}
  BY <1>1 DEF Users, Uses, Opened
<1>4. \A i \in Inode : Denying(i) = {f \in File : DeniedBy(f) = i}
  BY <1>1 DEF Denying, Users, DeniedBy, Opened
<1>5. \A i \in Inode : (Holders(i))' = {p \in Proc : Held(p)' = i}
  BY <1>1 DEF Holders, Held
<1>6. \A i \in Inode : (Users(i))' = {f \in File : Uses(f)' = i}
  BY <1>1 DEF Users, Uses, Opened
<1>7. \A i \in Inode : (Denying(i))' = {f \in File : DeniedBy(f)' = i}
  BY <1>1 DEF Denying, Users, DeniedBy, Opened
<1> QED
  BY <1>2, <1>3, <1>4, <1>5, <1>6, <1>7

LEMMA WhoFinite ==
  ASSUME NEW i \in Inode
  PROVE  /\ IsFiniteSet(Holders(i)) /\ IsFiniteSet(Users(i)) /\ IsFiniteSet(Denying(i))
         /\ Cardinality(Holders(i)) \in Nat /\ Cardinality(Users(i)) \in Nat
         /\ Cardinality(Denying(i)) \in Nat
<1>1. Holders(i) \subseteq Proc /\ Users(i) \subseteq File /\ Denying(i) \subseteq File
  BY WhoIs
<1>2. IsFiniteSet(Proc) /\ IsFiniteSet(File)
  BY FileSysAssumption
<1>3. IsFiniteSet(Holders(i)) /\ IsFiniteSet(Users(i)) /\ IsFiniteSet(Denying(i))
  BY <1>1, <1>2, FS_Subset
<1> QED
  BY <1>3, FS_CardinalityType

\* Only p gets or gives away an inode.
LEMMA HoldersMove ==
  ASSUME NEW p \in Proc, \A q \in Proc : q # p => Held(q)' = Held(q), NEW i \in Inode
  PROVE  Cardinality(Holders(i))' =
           Cardinality(Holders(i)) + One(Held(p)' = i) - One(Held(p) = i)
<1>1. Holders(i) \ {p} = (Holders(i))' \ {p}
  BY WhoIs
<1>2. /\ p \in Holders(i) <=> Held(p) = i
      /\ p \in (Holders(i))' <=> Held(p)' = i
  BY WhoIs
<1>3. (Holders(i))' \subseteq Proc /\ IsFiniteSet(Proc)
  BY WhoIs, FileSysAssumption
<1>4. IsFiniteSet(Holders(i)) /\ IsFiniteSet((Holders(i))')
  BY <1>3, WhoFinite, FS_Subset
<1> QED
  BY <1>1, <1>2, <1>4, OneApart

\* Only f gets another inode, or denies writes.
LEMMA UsersMove ==
  ASSUME NEW f \in File, \A g \in File : g # f => Uses(g)' = Uses(g), NEW i \in Inode
  PROVE  Cardinality(Users(i))' = Cardinality(Users(i)) + One(Uses(f)' = i) - One(Uses(f) = i)
<1>1. Users(i) \ {f} = (Users(i))' \ {f}
  BY WhoIs
<1>2. /\ f \in Users(i) <=> Uses(f) = i
      /\ f \in (Users(i))' <=> Uses(f)' = i
  BY WhoIs
<1>3. (Users(i))' \subseteq File /\ IsFiniteSet(File)
  BY WhoIs, FileSysAssumption
<1>4. IsFiniteSet(Users(i)) /\ IsFiniteSet((Users(i))')
  BY <1>3, WhoFinite, FS_Subset
<1> QED
  BY <1>1, <1>2, <1>4, OneApart

LEMMA DenyingMove ==
  ASSUME NEW f \in File, \A g \in File : g # f => DeniedBy(g)' = DeniedBy(g), NEW i \in Inode
  PROVE  Cardinality(Denying(i))' =
           Cardinality(Denying(i)) + One(DeniedBy(f)' = i) - One(DeniedBy(f) = i)
<1>1. Denying(i) \ {f} = (Denying(i))' \ {f}
  BY WhoIs
<1>2. /\ f \in Denying(i) <=> DeniedBy(f) = i
      /\ f \in (Denying(i))' <=> DeniedBy(f)' = i
  BY WhoIs
<1>3. (Denying(i))' \subseteq File /\ IsFiniteSet(File)
  BY WhoIs, FileSysAssumption
<1>4. IsFiniteSet(Denying(i)) /\ IsFiniteSet((Denying(i))')
  BY <1>3, WhoFinite, FS_Subset
<1> QED
  BY <1>1, <1>2, <1>4, OneApart

\* The list has each of its inodes once.
LEMMA OnceEach ==
  ASSUME NEW l \in Seq(Inode)
  PROVE  Len(l) = Cardinality(Range(l)) <=> IsInjective(l)
<1>1. Len(l) \in Nat /\ DOMAIN l = 1 .. Len(l) /\ l \in [1 .. Len(l) -> Range(l)]
  BY LenProperties DEF Range
<1>2. IsFiniteSet(1 .. Len(l)) /\ Cardinality(1 .. Len(l)) = Len(l)
  BY <1>1, FS_Interval
<1>3. l \in Surjection(1 .. Len(l), Range(l))
  BY <1>1 DEF Surjection, Range
<1>4. Cardinality(Range(l)) = Cardinality(1 .. Len(l)) <=> l \in Injection(1 .. Len(l), Range(l))
  BY <1>2, <1>3, FS_Surjection
<1>5. l \in Injection(1 .. Len(l), Range(l)) <=> IsInjective(l)
  BY <1>1 DEF Injection, IsInjective
<1> QED
  BY <1>2, <1>4, <1>5

CountedNow ==
  /\ Listed /\ CountsMatch
  /\ \A f \in Opened : file[f].inode \in InUse
  /\ \A p \in Proc : KnowsInode(p)

\* No other call is in the list of open inodes with p.
AloneInList(p) == \A q \in Proc : q # p => ~(InList(p) /\ InList(q))

LEMMA ListApart ==
  ASSUME Sound, "list" \notin clash, NEW p \in Proc
  PROVE  AloneInList(p)
<1>1. "list" \notin Met /\ "list" \in Shared
  BY DEF Sound, Shared
<1>2. ASSUME NEW q \in Proc, q # p
      PROVE  ~(InList(p) /\ InList(q))
  <2>1. ~(Locked(p) /\ Locked(q))
    BY <1>2 DEF Sound, OneLocked
  <2>2. ~Meet("list", p, q)
    BY <1>1, <1>2, <2>1 DEF Met
  <2> QED
    BY <2>2 DEF Meet
<1> QED
  BY <1>2 DEF AloneInList

HoldingAt == {"header", "leave", "file", "erase", "mark", "drop"}
KnowingAt == {"unlist", "insert", "reopen", "header", "erase"}

\* The inode that p holds after it moves.
LEMMA HeldAfter ==
  ASSUME TypeOK, NEW p \in Proc, NEW l, NEW c, Moves(p, l, c)
  PROVE  /\ Held(p)' = IF l \in HoldingAt THEN c.inode ELSE None
         /\ Held(p) = IF pc[p] \in HoldingAt THEN call[p].inode ELSE None
         /\ \A q \in Proc : q # p => /\ Held(q)' = Held(q) /\ pc'[q] = pc[q] /\ call'[q] = call[q]
         /\ pc'[p] = l /\ call'[p] = c
<1>1. /\ pc'[p] = l /\ call'[p] = c
      /\ \A q \in Proc : q # p => pc'[q] = pc[q] /\ call'[q] = call[q]
  BY MovesIs
<1> QED
  BY <1>1 DEF Held, Holding, HoldingAt

\* p goes on with the inode that it holds or without one.
CalmMove(p) ==
  \E l \in Location, c \in Call :
    /\ Moves(p, l, c) /\ l \notin KnowingAt
    /\ c.inode = call[p].inode
    /\ c.inode = None \/ (pc[p] \in HoldingAt /\ l \in HoldingAt)

LEMMA CalmMoveIs ==
  ASSUME TypeOK, NEW p \in Proc, CalmMove(p) \/ UNCHANGED <<pc, call>>, KnowsInode(p),
         InUse' = InUse, pc[p] \notin KnowingAt \/ CalmMove(p)
  PROVE  /\ Held(p)' = Held(p) /\ KnowsInode(p)'
         /\ \A q \in Proc : q # p => /\ Held(q)' = Held(q) /\ pc'[q] = pc[q] /\ call'[q] = call[q]
<1>1. CASE CalmMove(p)
  <2>1. PICK l, c : /\ Moves(p, l, c) /\ l \notin KnowingAt /\ c.inode = call[p].inode
                    /\ c.inode = None \/ (pc[p] \in HoldingAt /\ l \in HoldingAt)
    BY <1>1 DEF CalmMove
  <2>2. pc'[p] = l /\ call'[p] = c
    BY <2>1, HeldAfter
  <2>3. KnowsInode(p)'
    BY <2>1, <2>2 DEF KnowsInode, KnowingAt
  <2> QED
    BY <2>1, <2>3, HeldAfter
<1>2. CASE UNCHANGED <<pc, call>> /\ pc[p] \notin KnowingAt
  BY <1>2 DEF KnowsInode, KnowingAt, Held, Holding
<1> QED
  BY <1>1, <1>2

\* The steps that have nothing to do with open inodes.
CalmStep(p) ==
  \/ DirOpenRoot(p) \/ Lookup(p) \/ Release(p) \/ ReleaseData(p) \/ Scan(p) \/ Flip(p)
  \/ ScanData(p) \/ FlipData(p) \/ WriteHeader(p) \/ WriteZeros(p) \/ CheckName(p)
  \/ FindSlot(p) \/ WriteEntry(p) \/ Undo(p) \/ EraseEntry(p) \/ DirClose(p)
  \/ Load(p) \/ Exit(p) \/ Kill(p)
  \/ \E n \in Name : \/ Exec(p, n) \/ Open(p, n) \/ RemoveFile(p, n)
                     \/ \E len \in Lengths : Create(p, n, len)

LEMMA CalmMoves ==
  ASSUME TypeOK, Shapes, NEW p \in Proc, CalmStep(p)
  PROVE  CalmMove(p)
<1>1. call[p] \in Call /\ Shape(pc[p], call[p])
  BY DEF TypeOK, Shapes
<1>2. pc[p] \notin AtInode \cup {"leave"} => call[p].inode = None
  BY <1>1 DEF Shape
<1> USE DEF KnowingAt, HoldingAt, AtInode
<1>3. ASSUME NEW l, NEW c, Moves(p, l, c), l \notin KnowingAt, c.inode = call[p].inode,
             c.inode = None \/ (pc[p] \in HoldingAt /\ l \in HoldingAt)
      PROVE  CalmMove(p)
  <2>1. l \in Location /\ c \in Call
    BY <1>3 DEF Moves
  <2> QED
    BY <1>3, <2>1 DEF CalmMove
<1>4. ASSUME NEW op \in Opening \cup {"create", "remove"}, NEW n \in Name,
             NEW len \in Lengths \cup {0}, Start(p, op, n, len), op = "open" => MutexUp,
             pc[p] \in {"new", "user"}
      PROVE  CalmMove(p)
  <2>1. Moves(p, "root", Beginning(op, n, len))
    BY <1>4, StartMoves
  <2>2. Beginning(op, n, len).inode = None
    BY FirstCall DEF Op, Opening
  <2> QED
    BY <1>2, <1>3, <1>4, <2>1, <2>2
<1>5. CASE DirOpenRoot(p)
  <2>1. pc[p] = "root"
    BY <1>5 DEF DirOpenRoot, At
  <2> QED
    BY <1>2, <1>3, <1>5, <2>1, DirOpenRootMoves
<1>6. CASE Lookup(p)
  <2>1. pc[p] = "lookup"
    BY <1>6 DEF Lookup, At
  <2> QED
    BY <1>2, <1>3, <1>6, <2>1, LookupMoves
<1>7. CASE Release(p)
  <2>1. Goto(p, "release_data") /\ pc[p] = "release" /\ "release_data" \in Location
    BY <1>7 DEF Release, At, Location
  <2>2. Moves(p, "release_data", call[p])
    BY <2>1, OnwardMoves
  <2> QED
    BY <1>2, <1>3, <2>1, <2>2
<1>8. CASE ReleaseData(p)
  <2>1. Closed(p) /\ pc[p] = "release_data"
    BY <1>8 DEF ReleaseData, At
  <2>2. PICK l \in {"leave", "exit", "user"}, c \in Call : Moves(p, l, c) /\ c.inode = None
    BY <2>1, ClosedMoves
  <2> QED
    BY <1>2, <1>3, <2>1, <2>2
<1>9. CASE Scan(p)
  <2>1. pc[p] = "scan"
    BY <1>9 DEF Scan, At
  <2> QED
    BY <1>2, <1>3, <1>9, <2>1, ScanMoves
<1>10. CASE Flip(p)
  <2>1. Goto(p, "scan_data") /\ pc[p] = "flip" /\ "scan_data" \in Location
    BY <1>10 DEF Flip, At, Location
  <2>2. Moves(p, "scan_data", call[p])
    BY <2>1, OnwardMoves
  <2> QED
    BY <1>2, <1>3, <2>1, <2>2
<1>11. CASE ScanData(p)
  <2>1. pc[p] = "scan_data"
    BY <1>11 DEF ScanData, At
  <2> QED
    BY <1>2, <1>3, <1>11, <2>1, ScanDataMoves
<1>12. CASE FlipData(p)
  <2>1. Goto(p, "write_header") /\ pc[p] = "flip_data" /\ "write_header" \in Location
    BY <1>12 DEF FlipData, At, Location
  <2>2. Moves(p, "write_header", call[p])
    BY <2>1, OnwardMoves
  <2> QED
    BY <1>2, <1>3, <2>1, <2>2
<1>13. CASE WriteHeader(p)
  <2>1. Goto(p, "zeros") /\ pc[p] = "write_header" /\ "zeros" \in Location
    BY <1>13 DEF WriteHeader, At, Location
  <2>2. Moves(p, "zeros", call[p])
    BY <2>1, OnwardMoves
  <2> QED
    BY <1>2, <1>3, <2>1, <2>2
<1>14. CASE WriteZeros(p)
  <2>1. pc[p] = "zeros"
    BY <1>14 DEF WriteZeros, At
  <2> QED
    BY <1>2, <1>3, <1>14, <2>1, WriteZerosMoves
<1>15. CASE CheckName(p)
  <2>1. pc[p] = "add"
    BY <1>15 DEF CheckName, At
  <2> QED
    BY <1>2, <1>3, <1>15, <2>1, CheckNameMoves
<1>16. CASE FindSlot(p)
  <2>1. pc[p] = "slot"
    BY <1>16 DEF FindSlot, At
  <2> QED
    BY <1>2, <1>3, <1>16, <2>1, FindSlotMoves
<1>17. CASE WriteEntry(p)
  <2>1. /\ To(p, "leave", [NoCall EXCEPT !.op = "create"]) /\ "create" \in Op \ {"open"}
        /\ pc[p] = "entry"
    BY <1>17 DEF WriteEntry, Op, At
  <2>2. Moves(p, "leave", Only("create")) /\ Only("create").inode = None
    BY <2>1, OnlyMoves
  <2> QED
    BY <1>2, <1>3, <2>1, <2>2
<1>18. CASE Undo(p)
  <2>1. /\ To(p, "leave", [NoCall EXCEPT !.op = "create"]) /\ "create" \in Op \ {"open"}
        /\ pc[p] = "undo"
    BY <1>18 DEF Undo, Op, At
  <2>2. Moves(p, "leave", Only("create")) /\ Only("create").inode = None
    BY <2>1, OnlyMoves
  <2> QED
    BY <1>2, <1>3, <2>1, <2>2
<1>19. CASE EraseEntry(p)
  <2>1. Goto(p, "mark") /\ pc[p] = "erase" /\ "mark" \in Location
    BY <1>19 DEF EraseEntry, At, Location
  <2>2. Moves(p, "mark", call[p])
    BY <2>1, OnwardMoves
  <2> QED
    BY <1>2, <1>3, <2>1, <2>2
<1>20. CASE DirClose(p)
  <2>1. pc[p] = "leave"
    BY <1>20 DEF DirClose, At
  <2>2. CASE Moves(p, "file", call[p])
    BY <1>3, <2>1, <2>2
  <2>3. CASE End(p) /\ call[p].inode = None
    BY <1>3, <2>3, EndMoves, NoCallIs
  <2>4. CASE Return(p) /\ call[p].inode = None
    BY <1>3, <2>4, ReturnMoves, NoCallIs
  <2> QED
    BY <1>20, <2>2, <2>3, <2>4, DirCloseMoves
<1>21. CASE Load(p)
  <2>1. Start(p, "load", Image[p], 0) /\ Image[p] \in Name /\ pc[p] = "new"
    BY <1>21, FileSysAssumption DEF Load, At
  <2> QED
    BY <2>1, <1>4 DEF Opening
<1>22. CASE Exit(p)
  <2>1. pc[p] = "user" /\ To(p, "exit", [NoCall EXCEPT !.op = "exit"]) /\ "exit" \in Op \ {"open"}
    BY <1>22 DEF Exit, Ready, At, Op
  <2>2. Moves(p, "exit", Only("exit")) /\ Only("exit").inode = None
    BY <2>1, OnlyMoves
  <2> QED
    BY <1>2, <1>3, <2>1, <2>2
<1>23. CASE Kill(p)
  <2>1. pc[p] = "user" /\ End(p)
    BY <1>23 DEF Kill, Ready, At
  <2> QED
    BY <1>2, <1>3, <2>1, EndMoves, NoCallIs
<1>24. ASSUME NEW n \in Name, Exec(p, n) \/ Open(p, n) \/ RemoveFile(p, n)
      PROVE  CalmMove(p)
  <2>1. /\ 0 \in Lengths \cup {0}
        /\ {"exec", "open", "remove"} \subseteq Opening \cup {"create", "remove"}
    BY DEF Opening
  <2>2. CASE Exec(p, n)
    BY <1>4, <2>1, <2>2 DEF Exec, Ready, At
  <2>3. CASE Open(p, n)
    BY <1>4, <2>1, <2>3 DEF Open, Ready, At
  <2>4. CASE RemoveFile(p, n)
    BY <1>4, <2>1, <2>4 DEF RemoveFile, Ready, At
  <2> QED
    BY <1>24, <2>2, <2>3, <2>4
<1>25. ASSUME NEW n \in Name, NEW len \in Lengths, Create(p, n, len)
      PROVE  CalmMove(p)
  BY <1>4, <1>25 DEF Create, Ready, At
<1> QED
  BY <1>5, <1>6, <1>7, <1>8, <1>9, <1>10, <1>11, <1>12, <1>13, <1>14, <1>15, <1>16, <1>17, <1>18,
     <1>19, <1>20, <1>21, <1>22, <1>23, <1>24, <1>25 DEF CalmStep

LEMMA CalmMemory ==
  ASSUME NEW p \in Proc, CalmStep(p)
  PROVE  UNCHANGED memoryVars
<1>1. CASE DirOpenRoot(p)
  BY <1>1 DEF DirOpenRoot
<1>2. CASE Lookup(p)
  BY <1>2 DEF Lookup
<1>3. CASE Release(p)
  BY <1>3 DEF Release
<1>4. CASE ReleaseData(p)
  BY <1>4 DEF ReleaseData
<1>5. CASE Scan(p)
  BY <1>5 DEF Scan
<1>6. CASE Flip(p)
  BY <1>6 DEF Flip
<1>7. CASE ScanData(p)
  BY <1>7 DEF ScanData
<1>8. CASE FlipData(p)
  BY <1>8 DEF FlipData
<1>9. CASE WriteHeader(p)
  BY <1>9 DEF WriteHeader
<1>10. CASE WriteZeros(p)
  BY <1>10 DEF WriteZeros
<1>11. CASE CheckName(p)
  BY <1>11 DEF CheckName
<1>12. CASE FindSlot(p)
  BY <1>12 DEF FindSlot
<1>13. CASE WriteEntry(p)
  BY <1>13 DEF WriteEntry
<1>14. CASE Undo(p)
  BY <1>14 DEF Undo
<1>15. CASE EraseEntry(p)
  BY <1>15 DEF EraseEntry
<1>16. CASE DirClose(p)
  BY <1>16 DEF DirClose
<1>17. CASE Load(p)
  BY <1>17 DEF Load, Start
<1>18. CASE Exit(p)
  BY <1>18 DEF Exit
<1>19. CASE Kill(p)
  BY <1>19 DEF Kill
<1>20. ASSUME NEW n \in Name, Exec(p, n) \/ Open(p, n) \/ RemoveFile(p, n)
      PROVE  UNCHANGED memoryVars
  BY <1>20 DEF Exec, Open, RemoveFile, Start
<1>21. ASSUME NEW n \in Name, NEW len \in Lengths, Create(p, n, len)
      PROVE  UNCHANGED memoryVars
  BY <1>21 DEF Create, Start
<1> QED
  BY <1>1, <1>2, <1>3, <1>4, <1>5, <1>6, <1>7, <1>8, <1>9, <1>10, <1>11, <1>12, <1>13, <1>14,
     <1>15, <1>16, <1>17, <1>18, <1>19, <1>20, <1>21
     DEF CalmStep

\* The list, and what others know, when no inode comes or goes.
LEMMA ListedSame ==
  ASSUME Listed, InUse' = InUse, open_inodes' = open_inodes,
         \A i \in InUse : inode'[i].sector = inode[i].sector
  PROVE  Listed'
BY DEF Listed

LEMMA KnowsSame ==
  ASSUME TypeOK, Shapes, NEW q \in Proc, KnowsInode(q), pc'[q] = pc[q], call'[q] = call[q],
         InUse' = InUse,
         \A i \in InUse : inode'[i].sector = inode[i].sector,
         pc[q] \in {"unlist", "header"} =>
           inode'[call[q].inode].open_cnt = inode[call[q].inode].open_cnt
  PROVE  KnowsInode(q)'
<1>1. pc[q] \in AtInode => call[q].inode # None
  BY DEF Shapes, Shape
<1>2. pc[q] \in AtInode => call[q].inode \in InUse
  BY <1>1 DEF KnowsInode
<1>3. \A s : InodeOf(s) = {} => (InodeOf(s))' = {}
  BY DEF InodeOf
<1> QED
  BY <1>2, <1>3 DEF KnowsInode, AtInode

\* Nobody becomes an opener or stops being one.
LEMMA SameCounts ==
  ASSUME TypeOK, CountsMatch, NEW p \in Proc, \A q \in Proc : Held(q)' = Held(q),
         \A f \in File : Uses(f)' = Uses(f) /\ DeniedBy(f)' = DeniedBy(f),
         InUse' = InUse,
         \A i \in InUse : /\ inode'[i].open_cnt = inode[i].open_cnt
                          /\ inode'[i].deny_write_cnt = inode[i].deny_write_cnt
  PROVE  CountsMatch'
<1>1. ASSUME NEW i \in Inode
      PROVE  /\ (Holders(i))' = Holders(i) /\ (Users(i))' = Users(i)
             /\ (Denying(i))' = Denying(i)
  <2>1. {q \in Proc : Held(q)' = i} = {q \in Proc : Held(q) = i}
    OBVIOUS
  <2>2. (Holders(i))' = Holders(i)
    BY <2>1, WhoIs
  <2>3. (Users(i))' = Users(i)
    BY WhoIs
  <2>4. (Denying(i))' = Denying(i)
    BY WhoIs
  <2> QED
    BY <2>2, <2>3, <2>4
<1>2. InUse \subseteq Inode
  BY DEF InUse
<1> QED
  BY <1>1, <1>2 DEF CountsMatch

\* What files use when the records of open files keep what matters.
LEMMA FilesSame ==
  ASSUME TypeOK, file' \in [File -> FileRecord \cup {None}],
         \A f \in File : /\ file'[f] = None <=> file[f] = None
                         /\ file[f] # None => /\ file'[f].inode = file[f].inode
                                              /\ file'[f].deny_write = file[f].deny_write
  PROVE  /\ Opened' = Opened
         /\ \A f \in File : Uses(f)' = Uses(f) /\ DeniedBy(f)' = DeniedBy(f)
<1>1. Opened' = Opened
  BY DEF Opened
<1>2. \A f \in Opened : file[f] # None /\ f \in File
  BY DEF Opened
<1> QED
  BY <1>1, <1>2 DEF Uses, DeniedBy

\* A step that changes no count.
LEMMA QuietCounted ==
  ASSUME TypeOK, Shapes, CountedNow, NEW p \in Proc,
         Held(p)' = Held(p), KnowsInode(p)',
         \A q \in Proc : q # p => /\ Held(q)' = Held(q) /\ pc'[q] = pc[q] /\ call'[q] = call[q],
         file' \in [File -> FileRecord \cup {None}],
         \A f \in File : /\ file'[f] = None <=> file[f] = None
                         /\ file[f] # None => /\ file'[f].inode = file[f].inode
                                              /\ file'[f].deny_write = file[f].deny_write,
         InUse' = InUse, open_inodes' = open_inodes,
         \A i \in InUse : /\ inode'[i].sector = inode[i].sector
                          /\ inode'[i].open_cnt = inode[i].open_cnt
                          /\ inode'[i].deny_write_cnt = inode[i].deny_write_cnt
  PROVE  CountedNow'
<1>1. /\ Opened' = Opened
      /\ \A f \in File : Uses(f)' = Uses(f) /\ DeniedBy(f)' = DeniedBy(f)
  BY FilesSame
<1>2. Listed'
  BY ListedSame DEF CountedNow
<1>3. CountsMatch'
  BY <1>1, SameCounts DEF CountedNow
<1>4. \A q \in Proc : pc[q] \in {"unlist", "header"} => call[q].inode \in InUse
  BY DEF CountedNow, KnowsInode, Shapes, Shape, AtInode
<1>5. \A q \in Proc : KnowsInode(q)'
  BY <1>4, KnowsSame DEF CountedNow
<1>6. \A f \in Opened' : file'[f].inode \in InUse'
  BY <1>1 DEF CountedNow, Opened
<1> QED
  BY <1>2, <1>3, <1>5, <1>6 DEF CountedNow

\* p and the file f: openers change.
LEMMA OpenersCounted ==
  ASSUME TypeOK, Shapes, CountedNow, NEW p \in Proc, NEW f \in File,
         \A q \in Proc : q # p => Held(q)' = Held(q),
         \A g \in File : g # f => Uses(g)' = Uses(g) /\ DeniedBy(g)' = DeniedBy(g),
         Uses(f)' \in InUse \cup {None}, file' \in [File -> FileRecord \cup {None}],
         \A q \in Proc : KnowsInode(q)',
         InUse' = InUse, open_inodes' = open_inodes,
         \A i \in InUse :
           /\ inode'[i].sector = inode[i].sector
           /\ inode'[i].open_cnt = inode[i].open_cnt + One(Uses(f)' = i) - One(Uses(f) = i)
                                   + One(Held(p)' = i) - One(Held(p) = i)
           /\ inode'[i].deny_write_cnt =
                inode[i].deny_write_cnt + One(DeniedBy(f)' = i) - One(DeniedBy(f) = i)
  PROVE  CountedNow'
<1>1. Listed'
  BY ListedSame DEF CountedNow
<1>2. ASSUME NEW i \in InUse
      PROVE  /\ inode'[i].open_cnt = Cardinality(Users(i))' + Cardinality(Holders(i))'
             /\ inode'[i].deny_write_cnt = Cardinality(Denying(i))'
  <2>1. i \in Inode
    BY DEF InUse
  <2>2. /\ Cardinality(Users(i)) \in Nat /\ Cardinality(Holders(i)) \in Nat
        /\ Cardinality(Denying(i)) \in Nat
    BY <2>1, WhoFinite
  <2>3. /\ Cardinality(Users(i))' = Cardinality(Users(i)) + One(Uses(f)' = i) - One(Uses(f) = i)
        /\ Cardinality(Denying(i))' =
             Cardinality(Denying(i)) + One(DeniedBy(f)' = i) - One(DeniedBy(f) = i)
        /\ Cardinality(Holders(i))' =
             Cardinality(Holders(i)) + One(Held(p)' = i) - One(Held(p) = i)
    BY <2>1, UsersMove, DenyingMove, HoldersMove
  <2>4. /\ inode[i].open_cnt = Cardinality(Users(i)) + Cardinality(Holders(i))
        /\ inode[i].deny_write_cnt = Cardinality(Denying(i))
    BY DEF CountedNow, CountsMatch
  <2>5. \A b \in BOOLEAN : One(b) \in {0, 1}
    BY DEF One
  <2> QED
    BY <2>2, <2>3, <2>4 DEF One
<1>3. CountsMatch'
  BY <1>2 DEF CountsMatch
<1>4. ASSUME NEW g \in Opened'
      PROVE  file'[g].inode \in InUse'
  <2>1. g \in File /\ Uses(g)' = file'[g].inode
    BY DEF Opened, Uses
  <2>2. file'[g].inode \in InUse \cup {None} \/ g # f
    BY <2>1
  <2>3. g # f => Uses(g) = file'[g].inode /\ (Uses(g) \in InUse \/ Uses(g) = None)
    BY <2>1 DEF Uses, CountedNow
  <2>4. file'[g].inode # None
    BY <2>1, NoneIs DEF Opened, FileRecord
  <2> QED
    BY <2>1, <2>2, <2>3, <2>4
<1> QED
  BY <1>1, <1>3, <1>4 DEF CountedNow

\* An inode has at least its holders as openers.
LEMMA HoldersCount ==
  ASSUME TypeOK, CountsMatch, NEW i \in InUse, NEW p \in Proc, Held(p) = i
  PROVE  /\ inode[i].open_cnt >= 1
         /\ \A q \in Proc : q # p /\ Held(q) = i => inode[i].open_cnt >= 2
<1>1. i \in Inode /\ inode[i].open_cnt = Cardinality(Users(i)) + Cardinality(Holders(i))
  BY DEF InUse, CountsMatch
<1>2. /\ IsFiniteSet(Holders(i)) /\ Cardinality(Users(i)) \in Nat
      /\ Cardinality(Holders(i)) \in Nat /\ p \in Holders(i)
  BY <1>1, WhoFinite, WhoIs
<1>3. IsFiniteSet(Holders(i) \ {p}) /\ Cardinality(Holders(i) \ {p}) = Cardinality(Holders(i)) - 1
      /\ Cardinality(Holders(i) \ {p}) \in Nat
  BY <1>2, FS_RemoveElement, FS_CardinalityType
<1>4. ASSUME NEW q \in Proc, q # p, Held(q) = i
      PROVE  inode[i].open_cnt >= 2
  <2>1. q \in Holders(i) \ {p}
    BY <1>1, <1>4, WhoIs
  <2>2. Holders(i) \ {p} # {}
    BY <2>1
  <2>3. Cardinality(Holders(i) \ {p}) # 0
    BY <1>3, <2>2, FS_EmptySet
  <2> QED
    BY <1>1, <1>2, <1>3, <2>3
<1> QED
  BY <1>1, <1>2, <1>3, <1>4

\* An inode that counts none has none.
LEMMA NoneCount ==
  ASSUME TypeOK, CountsMatch, NEW i \in InUse, inode[i].open_cnt = 0
  PROVE  /\ \A q \in Proc : Held(q) # i
         /\ \A f \in Opened : file[f].inode # i
<1>1. i \in Inode /\ inode[i].open_cnt = Cardinality(Users(i)) + Cardinality(Holders(i))
  BY DEF InUse, CountsMatch
<1>2. /\ IsFiniteSet(Users(i)) /\ IsFiniteSet(Holders(i))
      /\ Cardinality(Users(i)) \in Nat /\ Cardinality(Holders(i)) \in Nat
  BY <1>1, WhoFinite
<1>3. Cardinality(Users(i)) = 0 /\ Cardinality(Holders(i)) = 0
  BY <1>1, <1>2
<1>4. Users(i) = {} /\ Holders(i) = {}
  BY <1>2, <1>3, FS_EmptySet
<1> QED
  BY <1>1, <1>4, WhoIs DEF Users

\* Only p becomes an opener or stops being one, as a call.
LEMMA HoldersCounted ==
  ASSUME TypeOK, Shapes, CountedNow, NEW p \in Proc, UNCHANGED <<file, open_inodes>>,
         \A q \in Proc : q # p => Held(q)' = Held(q), \A q \in Proc : KnowsInode(q)',
         InUse' = InUse,
         \A i \in InUse :
           /\ inode'[i].sector = inode[i].sector
           /\ inode'[i].open_cnt =
                inode[i].open_cnt + One(Held(p)' = i) - One(Held(p) = i)
           /\ inode'[i].deny_write_cnt = inode[i].deny_write_cnt
  PROVE  CountedNow'
<1>1. Listed'
  BY ListedSame DEF CountedNow
<1>2. ASSUME NEW i \in InUse
      PROVE  /\ inode'[i].open_cnt = Cardinality(Users(i))' + Cardinality(Holders(i))'
             /\ inode'[i].deny_write_cnt = Cardinality(Denying(i))'
  <2>1. i \in Inode
    BY DEF InUse
  <2>2. /\ Cardinality(Users(i)) \in Nat /\ Cardinality(Holders(i)) \in Nat
        /\ Cardinality(Denying(i)) \in Nat
    BY <2>1, WhoFinite
  <2>3. (Users(i))' = Users(i) /\ (Denying(i))' = Denying(i)
    BY DEF Users, Denying, Opened
  <2>4. Cardinality(Holders(i))' =
             Cardinality(Holders(i)) + One(Held(p)' = i) - One(Held(p) = i)
    BY <2>1, HoldersMove
  <2>5. /\ inode[i].open_cnt = Cardinality(Users(i)) + Cardinality(Holders(i))
        /\ inode[i].deny_write_cnt = Cardinality(Denying(i))
    BY DEF CountedNow, CountsMatch
  <2> QED
    BY <2>2, <2>3, <2>4, <2>5 DEF One
<1>3. CountsMatch'
  BY <1>2 DEF CountsMatch
<1>4. \A f \in Opened' : file'[f].inode \in InUse'
  BY DEF CountedNow, Opened
<1> QED
  BY <1>1, <1>3, <1>4 DEF CountedNow

LEMMA CalmCounted ==
  ASSUME Sound, CountedNow, NEW p \in Proc, CalmMove(p), UNCHANGED memoryVars
  PROVE  CountedNow'
<1>1. TypeOK /\ Shapes /\ KnowsInode(p) /\ UNCHANGED <<inode, open_inodes, file>>
  BY DEF Sound, CountedNow, memoryVars
<1>2. InUse' = InUse /\ file' \in [File -> FileRecord \cup {None}]
  BY <1>1 DEF InUse, TypeOK
<1>3. /\ Held(p)' = Held(p) /\ KnowsInode(p)'
      /\ \A q \in Proc : q # p => /\ Held(q)' = Held(q) /\ pc'[q] = pc[q] /\ call'[q] = call[q]
  BY <1>1, <1>2, CalmMoveIs
<1> QED
  BY <1>1, <1>2, <1>3, QuietCounted

\* inode_open()'s search finds every open inode.
LEMMA NotFound ==
  ASSUME TypeOK, Listed, NEW s, Found(s) = None
  PROVE  InodeOf(s) = {}
<1> DEFINE hits == {k \in 1 .. Len(open_inodes) : inode[open_inodes[k]] # None
                                                 /\ inode[open_inodes[k]].sector = s}
<1>1. DOMAIN open_inodes = 1 .. Len(open_inodes) /\ Len(open_inodes) \in Nat
      /\ \A k \in 1 .. Len(open_inodes) : open_inodes[k] \in Inode
  BY LenProperties DEF TypeOK
<1>2. hits \in SUBSET Nat
  BY <1>1
<1>3. hits = {}
  <2>1. SUFFICES ASSUME hits # {} PROVE FALSE
    OBVIOUS
  <2>2. Min(hits) \in hits
    BY <1>2, <2>1, MinIs
  <2>3. open_inodes[Min(hits)] \in Inode
    BY <1>1, <2>2
  <2>4. Found(s) = open_inodes[Min(hits)]
    BY <2>1 DEF Found
  <2> QED
    BY <2>3, <2>4, NoneIs
<1>4. ASSUME NEW i \in InUse, inode[i].sector = s
      PROVE  FALSE
  <2>1. PICK k \in DOMAIN open_inodes : open_inodes[k] = i
    BY DEF Listed, Range
  <2>2. k \in hits
    BY <1>1, <1>4, <2>1 DEF InUse
  <2> QED
    BY <1>3, <2>2
<1> QED
  BY <1>4 DEF InodeOf

LEMMA SearchCounted ==
  ASSUME Sound, CountedNow, NEW p \in Proc, Search(p)
  PROVE  CountedNow'
<1>1. TypeOK /\ Shapes /\ KnowsInode(p) /\ Listed
  BY DEF Sound, CountedNow
<1>2. UNCHANGED <<inode, open_inodes, file>> /\ pc[p] = "search"
  BY DEF Search, memoryVars, At
<1>3. InUse' = InUse /\ file' \in [File -> FileRecord \cup {None}]
      /\ \A s : (InodeOf(s))' = InodeOf(s)
  BY <1>1, <1>2 DEF InUse, TypeOK, InodeOf
<1>4. call[p].inode = None
  BY <1>1, <1>2 DEF Shapes, Shape, AtInode
<1>5. ASSUME NEW l \in {"insert", "reopen"}, NEW c, Moves(p, l, c), KnowsInode(p)'
      PROVE  CountedNow'
  <2>1. /\ Held(p)' = Held(p)
        /\ \A q \in Proc : q # p => /\ Held(q)' = Held(q) /\ pc'[q] = pc[q] /\ call'[q] = call[q]
    BY <1>1, <1>2, <1>5, HeldAfter DEF HoldingAt
  <2> QED
    BY <1>1, <1>2, <1>3, <1>5, <2>1, QuietCounted
<1>6. CASE Moves(p, "insert", call[p]) /\ Found(call[p].sector) = None
  <2>1. pc'[p] = "insert" /\ call'[p] = call[p]
    BY <1>1, <1>6, HeldAfter
  <2>2. InodeOf(call[p].sector) = {}
    BY <1>1, <1>6, NotFound
  <2>3. KnowsInode(p)'
    BY <1>3, <1>4, <2>1, <2>2 DEF KnowsInode
  <2> QED
    BY <1>5, <1>6, <2>3
<1>7. ASSUME NEW i \in Inode, NEW c \in Call, Moves(p, "reopen", c), c.inode = i,
             c.sector = call[p].sector, i = Found(call[p].sector)
      PROVE  CountedNow'
  <2>1. pc'[p] = "reopen" /\ call'[p] = c
    BY <1>1, <1>7, HeldAfter
  <2>2. i \in InUse /\ inode[i].sector = c.sector
    BY <1>1, <1>7, FoundIn, NoneIs DEF InUse
  <2>3. KnowsInode(p)'
    BY <1>2, <1>3, <1>7, <2>1, <2>2 DEF KnowsInode
  <2> QED
    BY <1>5, <1>7, <2>3
<1> QED
  BY <1>1, <1>6, <1>7, SearchMoves

\* p is to change the struct inode i, and may become an opener of it or stop
\* being one.
LEMMA SetsCounted ==
  ASSUME Sound, CountedNow, NEW p \in Proc, NEW l, NEW c, Moves(p, l, c), KnowsInode(p)',
         NEW i \in InUse, NEW cnt \in Int, NEW removed \in BOOLEAN, NEW data \in DiskInode,
         Sets(i, inode[i].sector, cnt, inode[i].deny_write_cnt, removed, data),
         UNCHANGED <<open_inodes, file>>, Held(p) \in {i, None}, Held(p)' \in {i, None},
         cnt = inode[i].open_cnt + One(Held(p)' = i) - One(Held(p) = i),
         \A q \in Proc : q # p /\ pc[q] \in {"unlist", "header"} /\ call[q].inode = i =>
           cnt = inode[i].open_cnt
  PROVE  CountedNow'
<1>1. TypeOK /\ Shapes /\ \A q \in Proc : KnowsInode(q)
  BY DEF Sound, CountedNow
<1>2. /\ i \in Inode /\ inode[i].sector \in Sector /\ inode[i].deny_write_cnt \in Int
      /\ inode[i].open_cnt \in Int
  BY <1>1, MemoryIs DEF InodeRecord
<1>3. /\ inode'[i].sector = inode[i].sector /\ inode'[i].open_cnt = cnt
      /\ inode'[i].deny_write_cnt = inode[i].deny_write_cnt
      /\ \A j \in Inode : j # i => inode'[j] = inode[j]
      /\ InUse' = InUse \cup {i}
  BY <1>1, <1>2, SetsIs
<1>4. InUse' = InUse /\ InUse \subseteq Inode /\ i # None
  BY <1>2, <1>3, NoneIs DEF InUse
<1>5. \A q \in Proc : q # p => /\ Held(q)' = Held(q) /\ pc'[q] = pc[q] /\ call'[q] = call[q]
  BY <1>1, HeldAfter
<1>6. ASSUME NEW q \in Proc, q # p
      PROVE  KnowsInode(q)'
  <2>1. pc[q] \in {"unlist", "header"} => call[q].inode \in InUse
    BY <1>1 DEF KnowsInode, Shapes, Shape, AtInode
  <2>2. pc[q] \in {"unlist", "header"} =>
          inode'[call[q].inode].open_cnt = inode[call[q].inode].open_cnt
    BY <1>3, <1>4, <1>6, <2>1
  <2>3. \A j \in InUse : inode'[j].sector = inode[j].sector
    BY <1>3, <1>4
  <2> QED
    BY <1>1, <1>4, <1>5, <1>6, <2>2, <2>3, KnowsSame
<1>7. ASSUME NEW j \in InUse
      PROVE  /\ inode'[j].sector = inode[j].sector
             /\ inode'[j].open_cnt = inode[j].open_cnt + One(Held(p)' = j) - One(Held(p) = j)
             /\ inode'[j].deny_write_cnt = inode[j].deny_write_cnt
  <2>1. CASE j = i
    BY <1>3, <2>1
  <2>2. CASE j # i
    <3>1. j \in Inode /\ j # None /\ inode'[j] = inode[j] /\ inode[j].open_cnt \in Int
      BY <1>1, <1>3, <2>2, MemoryIs, NoneIs DEF InodeRecord
    <3> QED
      BY <2>2, <3>1 DEF One
  <2> QED
    BY <2>1, <2>2
<1>8. \A q \in Proc : KnowsInode(q)'
  BY <1>6
<1> QED
  BY <1>1, <1>4, <1>5, <1>7, <1>8, HoldersCounted

\* inode_reopen().
LEMMA ReopenCounted ==
  ASSUME Sound, CountedNow, NEW p \in Proc, AloneInList(p), Reopen(p)
  PROVE  CountedNow'
<1> DEFINE i == call[p].inode
<1>1. TypeOK /\ Shapes /\ KnowsInode(p)
  BY DEF Sound, CountedNow
<1>2. /\ pc[p] = "reopen" /\ i \in InUse /\ UNCHANGED <<open_inodes, file>>
      /\ Sets(i, inode[i].sector, inode[i].open_cnt + 1, inode[i].deny_write_cnt,
              inode[i].removed, inode[i].data)
  BY <1>1, ReopenSets
<1>3. /\ i \in Inode /\ inode[i].sector \in Sector /\ inode[i].deny_write_cnt \in Int
      /\ inode[i].open_cnt \in Int /\ inode[i].open_cnt + 1 \in Int
      /\ inode[i].removed \in BOOLEAN /\ inode[i].data \in DiskInode
  BY <1>1, <1>2, MemoryIs DEF InodeRecord
<1>4. inode'[i].sector = inode[i].sector /\ InUse' = InUse \cup {i}
  BY <1>1, <1>2, <1>3, SetsIs
<1>5. Moves(p, WithInode(p), call[p]) /\ WithInode(p) \in {"leave", "erase"}
  BY <1>1, HeldMoves DEF WithInode
<1>6. /\ Held(p) = None /\ Held(p)' = i /\ pc'[p] = WithInode(p) /\ call'[p] = call[p]
  BY <1>1, <1>2, <1>5, HeldAfter DEF HoldingAt
<1>7. KnowsInode(p)'
  BY <1>1, <1>2, <1>4, <1>5, <1>6 DEF KnowsInode
<1>8. \A q \in Proc : q # p => pc[q] \notin {"unlist", "header"}
  BY <1>2 DEF AloneInList, InList
<1>9. i # None
  BY <1>3, NoneIs
<1>10. inode[i].open_cnt + 1 = inode[i].open_cnt + One(Held(p)' = i) - One(Held(p) = i)
  BY <1>3, <1>6, <1>9 DEF One
<1> QED
  BY <1>2, <1>3, <1>5, <1>6, <1>7, <1>8, <1>10, SetsCounted

\* The header of a new struct inode is read.
LEMMA ReadHeaderCounted ==
  ASSUME Sound, CountedNow, NEW p \in Proc, ReadHeader(p)
  PROVE  CountedNow'
<1> DEFINE i == call[p].inode
           h == IF disk[call[p].sector] \in DiskInode THEN disk[call[p].sector] ELSE NoHeader
<1>1. TypeOK /\ Shapes /\ KnowsInode(p)
  BY DEF Sound, CountedNow
<1>2. /\ pc[p] = "header" /\ i \in InUse /\ UNCHANGED <<open_inodes, file>>
      /\ Sets(i, inode[i].sector, inode[i].open_cnt, inode[i].deny_write_cnt,
              inode[i].removed, h)
  BY <1>1, ReadHeaderSets
<1>3. /\ i \in Inode /\ inode[i].sector \in Sector /\ inode[i].deny_write_cnt \in Int
      /\ inode[i].open_cnt \in Int /\ inode[i].removed \in BOOLEAN /\ h \in DiskInode
  <2>1. NoHeader \in DiskInode
    BY HeaderIs DEF NoHeader
  <2> QED
    BY <1>1, <1>2, <2>1, MemoryIs DEF InodeRecord
<1>4. inode'[i].sector = inode[i].sector /\ InUse' = InUse \cup {i}
  BY <1>1, <1>2, <1>3, SetsIs
<1>5. Moves(p, WithInode(p), call[p]) /\ WithInode(p) \in {"leave", "erase"}
  BY <1>1, HeldMoves DEF WithInode
<1>6. /\ Held(p) = i /\ Held(p)' = i /\ pc'[p] = WithInode(p) /\ call'[p] = call[p]
  BY <1>1, <1>2, <1>5, HeldAfter DEF HoldingAt
<1>7. KnowsInode(p)'
  BY <1>1, <1>2, <1>4, <1>5, <1>6 DEF KnowsInode
<1>8. inode[i].open_cnt = inode[i].open_cnt + One(Held(p)' = i) - One(Held(p) = i)
  BY <1>3, <1>6 DEF One
<1> HIDE DEF h
<1> QED
  BY <1>2, <1>3, <1>5, <1>6, <1>7, <1>8, SetsCounted

\* inode_close(), the count: with 0 nobody has the inode.
LEMMA DropCounted ==
  ASSUME Sound, CountedNow, NEW p \in Proc, Drop(p)
  PROVE  CountedNow'
<1> DEFINE i == call[p].inode
<1>1. TypeOK /\ Shapes /\ CountsMatch /\ \A q \in Proc : KnowsInode(q)
  BY DEF Sound, CountedNow
<1>2. /\ pc[p] = "drop" /\ i \in InUse /\ UNCHANGED <<open_inodes, file>>
      /\ Sets(i, inode[i].sector, inode[i].open_cnt - 1, inode[i].deny_write_cnt,
              inode[i].removed, inode[i].data)
  BY <1>1, DropSets
<1>3. /\ i \in Inode /\ inode[i].sector \in Sector /\ inode[i].deny_write_cnt \in Int
      /\ inode[i].open_cnt \in Int /\ inode[i].open_cnt - 1 \in Int
      /\ inode[i].removed \in BOOLEAN /\ inode[i].data \in DiskInode /\ i # None
  BY <1>1, <1>2, MemoryIs, NoneIs DEF InodeRecord
<1>4. inode'[i].open_cnt = inode[i].open_cnt - 1 /\ InUse' = InUse \cup {i}
  BY <1>1, <1>2, <1>3, SetsIs
<1>5. Held(p) = i
  BY <1>2 DEF Held, Holding
<1>6. \A q \in Proc : q # p /\ pc[q] \in {"unlist", "header"} => call[q].inode # i
  <2>1. SUFFICES ASSUME NEW q \in Proc, q # p, pc[q] \in {"unlist", "header"}, call[q].inode = i
                 PROVE  FALSE
    OBVIOUS
  <2>2. pc[q] = "header" => Held(q) = i /\ inode[i].open_cnt = 1
    BY <1>1, <2>1 DEF Held, Holding, KnowsInode
  <2>3. pc[q] = "unlist" => inode[i].open_cnt = 0
    BY <1>1, <2>1 DEF KnowsInode
  <2>4. inode[i].open_cnt >= 1 /\ (Held(q) = i => inode[i].open_cnt >= 2)
    BY <1>1, <1>2, <1>5, <2>1, HoldersCount
  <2> QED
    BY <1>3, <2>1, <2>2, <2>3, <2>4
<1>7. ASSUME NEW l, NEW c, Moves(p, l, c), l \notin HoldingAt \/ c.inode = None, KnowsInode(p)'
      PROVE  CountedNow'
  <2>1. Held(p)' = None
    BY <1>1, <1>7, HeldAfter
  <2>2. inode[i].open_cnt - 1 = inode[i].open_cnt + One(Held(p)' = i) - One(Held(p) = i)
    BY <1>3, <1>5, <2>1 DEF One
  <2> QED
    BY <1>2, <1>3, <1>5, <1>6, <1>7, <2>1, <2>2, SetsCounted
<1>8. CASE Moves(p, "unlist", call[p]) /\ IsLast(i)
  <2>1. pc'[p] = "unlist" /\ call'[p] = call[p]
    BY <1>1, <1>8, HeldAfter
  <2>2. inode'[i].open_cnt = 0
    BY <1>3, <1>4, <1>8 DEF IsLast
  <2>3. KnowsInode(p)'
    BY <1>2, <1>4, <2>1, <2>2 DEF KnowsInode
  <2> QED
    BY <1>7, <1>8, <2>3 DEF HoldingAt
<1>9. CASE Closed(p)
  <2>1. PICK l \in {"leave", "exit", "user"}, c \in Call : Moves(p, l, c) /\ c.inode = None
    BY <1>9, ClosedMoves
  <2>2. pc'[p] = l /\ call'[p] = c
    BY <1>1, <2>1, HeldAfter
  <2>3. KnowsInode(p)'
    BY <2>1, <2>2 DEF KnowsInode
  <2> QED
    BY <1>7, <2>1, <2>3
<1> QED
  BY <1>1, <1>8, <1>9, DropMoves

\* inode_remove().
LEMMA InodeRemoveCounted ==
  ASSUME Sound, CountedNow, NEW p \in Proc, InodeRemove(p)
  PROVE  CountedNow'
<1> DEFINE i == call[p].inode
           gone == TRUE
<1>1. TypeOK /\ Shapes /\ KnowsInode(p)
  BY DEF Sound, CountedNow
<1>2. /\ pc[p] = "mark" /\ i \in InUse /\ UNCHANGED <<open_inodes, file>>
      /\ Sets(i, inode[i].sector, inode[i].open_cnt, inode[i].deny_write_cnt, gone, inode[i].data)
  BY <1>1, InodeRemoveSets
<1>3. /\ i \in Inode /\ inode[i].sector \in Sector /\ inode[i].deny_write_cnt \in Int
      /\ inode[i].open_cnt \in Int /\ inode[i].data \in DiskInode /\ gone \in BOOLEAN
  BY <1>1, <1>2, MemoryIs DEF InodeRecord
<1> HIDE DEF gone
<1>4. InUse' = InUse \cup {i}
  BY <1>1, <1>2, <1>3, SetsIs
<1>5. PICK c \in Call : Moves(p, "drop", c) /\ c.inode = i
  BY <1>1, InodeRemoveMoves
<1>6. /\ Held(p) = i /\ Held(p)' = i /\ pc'[p] = "drop" /\ call'[p] = c
  BY <1>1, <1>2, <1>5, HeldAfter DEF HoldingAt
<1>7. KnowsInode(p)'
  BY <1>1, <1>2, <1>4, <1>5, <1>6 DEF KnowsInode
<1>8. inode[i].open_cnt = inode[i].open_cnt + One(Held(p)' = i) - One(Held(p) = i)
  BY <1>3, <1>6 DEF One
<1> QED
  BY <1>2, <1>3, <1>5, <1>6, <1>7, <1>8, SetsCounted

\* A new element in front.
LEMMA ConsFacts ==
  ASSUME NEW S, NEW l \in Seq(S), NEW e \in S
  PROVE  /\ <<e>> \o l \in Seq(S) /\ Range(<<e>> \o l) = {e} \cup Range(l)
         /\ IsInjective(l) /\ e \notin Range(l) => IsInjective(<<e>> \o l)
<1> DEFINE r == <<e>> \o l
<1>1. /\ r \in Seq(S) /\ Len(r) = Len(l) + 1 /\ Len(l) \in Nat
      /\ r[1] = e /\ \A k \in 2 .. Len(l) + 1 : r[k] = l[k - 1]
  OBVIOUS
<1>2. DOMAIN r = 1 .. Len(l) + 1 /\ DOMAIN l = 1 .. Len(l)
  BY <1>1, LenProperties
<1> HIDE DEF r
<1>3. Range(r) \subseteq {e} \cup Range(l)
  <2>1. \A k \in DOMAIN r : k = 1 \/ (k \in 2 .. Len(l) + 1 /\ k - 1 \in DOMAIN l)
    BY <1>1, <1>2
  <2> QED
    BY <1>1, <2>1 DEF Range
<1>4. e \in Range(r)
  BY <1>1, <1>2 DEF Range
<1>5. ASSUME NEW k \in DOMAIN l PROVE l[k] \in Range(r)
  <2>1. k + 1 \in 2 .. Len(l) + 1 /\ k + 1 \in DOMAIN r /\ (k + 1) - 1 = k
    BY <1>1, <1>2
  <2>2. r[k + 1] = l[k]
    BY <1>1, <2>1
  <2> QED
    BY <2>1, <2>2 DEF Range
<1>6. ASSUME IsInjective(l), e \notin Range(l) PROVE IsInjective(r)
  <2>1. SUFFICES ASSUME NEW j \in DOMAIN r, NEW k \in DOMAIN r, j < k, r[j] = r[k] PROVE FALSE
    BY <1>1, <1>2 DEF IsInjective
  <2>2. k \in 2 .. Len(l) + 1 /\ k - 1 \in DOMAIN l /\ r[k] = l[k - 1]
    BY <1>1, <1>2, <2>1
  <2>3. CASE j = 1
    BY <1>1, <1>6, <2>1, <2>2, <2>3 DEF Range
  <2>4. CASE j # 1
    <3>1. j \in 2 .. Len(l) + 1 /\ j - 1 \in DOMAIN l /\ r[j] = l[j - 1] /\ j - 1 # k - 1
      BY <1>1, <1>2, <2>1, <2>4
    <3> QED
      BY <1>6, <2>1, <2>2, <3>1 DEF IsInjective
  <2> QED
    BY <2>3, <2>4
<1>7. Range(l) \subseteq Range(r)
  BY <1>5 DEF Range
<1>8. r \in Seq(S) /\ Range(r) = {e} \cup Range(l)
      /\ (IsInjective(l) /\ e \notin Range(l) => IsInjective(r))
  BY <1>1, <1>3, <1>4, <1>6, <1>7
<1> QED
  BY <1>8 DEF r

\* Who has an inode has one that is in use.
LEMMA WhoseInUse ==
  ASSUME Sound, CountedNow
  PROVE  /\ \A q \in Proc : Held(q) \in InUse \cup {None}
         /\ \A f \in File : Uses(f) \in InUse \cup {None} /\ DeniedBy(f) \in InUse \cup {None}
BY DEF CountedNow, KnowsInode, Held, Uses, DeniedBy

\* Only p and inode i are concerned: the counts of the others stay.
LEMMA OtherCounts ==
  ASSUME TypeOK, CountsMatch, UNCHANGED file, NEW i \in Inode,
         \A q \in Proc, j \in Inode : j # i => (Held(q)' = j <=> Held(q) = j),
         NEW j \in InUse, j # i, inode'[j] = inode[j]
  PROVE  /\ inode'[j].open_cnt = Cardinality(Users(j))' + Cardinality(Holders(j))'
         /\ inode'[j].deny_write_cnt = Cardinality(Denying(j))'
<1>1. j \in Inode
  BY DEF InUse
<1>2. (Users(j))' = Users(j) /\ (Denying(j))' = Denying(j)
  BY DEF Users, Denying, Opened
<1>3. {q \in Proc : Held(q)' = j} = {q \in Proc : Held(q) = j}
  BY <1>1
<1>4. (Holders(j))' = Holders(j)
  BY <1>1, <1>3, WhoIs
<1> QED
  BY <1>2, <1>4 DEF CountsMatch

\* A new struct inode, with the call that made it as its only opener.
LEMMA InsertCounted ==
  ASSUME Sound, CountedNow, NEW p \in Proc, AloneInList(p), Insert(p)
  PROVE  CountedNow'
<1>1. TypeOK /\ Shapes /\ Listed /\ CountsMatch /\ \A q \in Proc : KnowsInode(q)
  BY DEF Sound, CountedNow
<1>2. pc[p] = "insert" /\ call[p].sector \in Sector /\ file' = file
  BY <1>1, InsertSets
<1>3. call[p].inode = None /\ Held(p) = None
  BY <1>1, <1>2 DEF Shapes, Shape, AtInode, Held, Holding
<1>4. CASE Moves(p, "leave", call[p]) /\ UNCHANGED <<inode, open_inodes>>
  <2>1. "leave" \in Location /\ call[p] \in Call
    BY <1>4 DEF Moves
  <2>2. CalmMove(p)
    BY <1>3, <1>4, <2>1 DEF CalmMove, KnowingAt
  <2> QED
    BY <1>2, <1>4, <2>2, CalmCounted DEF memoryVars
<1>5. ASSUME NEW i \in FreeInodes, NEW c \in Call, Moves(p, "header", c), c.inode = i,
             c.sector = call[p].sector, Sets(i, call[p].sector, 1, 0, FALSE, NoHeader),
             open_inodes' = <<i>> \o open_inodes
      PROVE  CountedNow'
  <2>1. i \in Inode /\ i \notin InUse /\ i # None /\ InUse \subseteq Inode
    BY <1>5, NoneIs DEF FreeInodes, InUse
  <2>2. /\ inode' = [inode EXCEPT ![i] =
             [sector |-> call[p].sector, open_cnt |-> 1, deny_write_cnt |-> 0,
              removed |-> FALSE, data |-> NoHeader]]
        /\ inode \in [Inode -> InodeRecord \cup {None}]
    BY <1>1, <1>5 DEF Sets, TypeOK
  <2>3. /\ inode'[i].sector = call[p].sector /\ inode'[i].open_cnt = 1
        /\ inode'[i].deny_write_cnt = 0
        /\ \A j \in Inode : j # i => inode'[j] = inode[j]
    BY <2>1, <2>2
  <2>4. InUse' = InUse \cup {i}
    <3>1. NoHeader \in DiskInode
      BY HeaderIs DEF NoHeader
    <3>2. inode'[i] \in InodeRecord
      BY <1>2, <2>1, <2>2, <3>1 DEF InodeRecord
    <3> QED
      BY <2>1, <2>3, <3>2, NoneIs DEF InUse
  <2>5. /\ Held(p)' = i /\ pc'[p] = "header" /\ call'[p] = c
        /\ \A q \in Proc : q # p => /\ Held(q)' = Held(q) /\ pc'[q] = pc[q] /\ call'[q] = call[q]
    BY <1>1, <1>5, HeldAfter DEF HoldingAt
  <2>6. Listed'
    <3>1. Range(open_inodes) = InUse /\ IsInjective(open_inodes) /\ open_inodes \in Seq(Inode)
      BY <1>1 DEF Listed, TypeOK
    <3>2. Range(open_inodes') = InUse' /\ IsInjective(open_inodes')
      BY <1>5, <2>1, <2>4, <3>1, ConsFacts
    <3>3. \A j \in InUse : inode[j].sector # call[p].sector
      BY <1>1, <1>2 DEF KnowsInode, InodeOf
    <3>4. \A j, k \in InUse' : inode'[j].sector = inode'[k].sector => j = k
      BY <1>1, <2>1, <2>3, <2>4, <3>3 DEF Listed
    <3> QED
      BY <3>2, <3>4 DEF Listed
  <2>7. /\ inode'[i].open_cnt = Cardinality(Users(i))' + Cardinality(Holders(i))'
        /\ inode'[i].deny_write_cnt = Cardinality(Denying(i))'
    <3>1. \A f \in File : Uses(f)' = Uses(f) /\ DeniedBy(f)' = DeniedBy(f)
      BY <1>2 DEF Uses, DeniedBy, Opened
    <3>2. \A f \in File : Uses(f) # i /\ DeniedBy(f) # i
      BY <2>1, WhoseInUse
    <3>3. (Users(i))' = {} /\ (Denying(i))' = {}
      BY <2>1, <3>1, <3>2, WhoIs
    <3>4. \A q \in Proc : Held(q)' = i <=> q = p
      BY <2>1, <2>5, WhoseInUse
    <3>5. (Holders(i))' = {p}
      BY <2>1, <3>4, WhoIs
    <3>6. Cardinality(Users(i))' = 0 /\ Cardinality(Denying(i))' = 0 /\ Cardinality(Holders(i))' = 1
      BY <3>3, <3>5, FS_EmptySet, FS_Singleton
    <3> QED
      BY <2>3, <3>6
  <2>8. CountsMatch'
    <3>1. \A q \in Proc, j \in Inode : j # i => (Held(q)' = j <=> Held(q) = j)
      BY <1>3, <2>5, NoneIs
    <3>2. ASSUME NEW j \in InUse'
          PROVE  /\ inode'[j].open_cnt = Cardinality(Users(j))' + Cardinality(Holders(j))'
                 /\ inode'[j].deny_write_cnt = Cardinality(Denying(j))'
      <4>1. CASE j = i
        BY <2>7, <4>1
      <4>2. CASE j # i
        <5>1. j \in InUse /\ inode'[j] = inode[j]
          BY <2>1, <2>3, <2>4, <4>2
        <5> QED
          BY <1>1, <1>2, <2>1, <3>1, <4>2, <5>1, OtherCounts
      <4> QED
        BY <4>1, <4>2
    <3> QED
      BY <3>2 DEF CountsMatch
  <2>9. \A f \in Opened' : file'[f].inode \in InUse'
    BY <1>2, <2>4 DEF CountedNow, Opened
  <2>10. ASSUME NEW q \in Proc PROVE KnowsInode(q)'
    <3>1. CASE q = p
      BY <1>5, <2>3, <2>4, <2>5, <3>1 DEF KnowsInode
    <3>2. CASE q # p
      <4>1. pc[q] # "insert" /\ pc'[q] = pc[q] /\ call'[q] = call[q]
        BY <1>2, <2>5, <3>2 DEF AloneInList, InList
      <4>2. call[q].inode # None => /\ call[q].inode \in InUse
                                    /\ inode'[call[q].inode] = inode[call[q].inode]
        BY <1>1, <2>1, <2>3 DEF KnowsInode
      <4>3. pc[q] \in AtInode => call[q].inode # None
        BY <1>1 DEF Shapes, Shape
      <4> QED
        BY <1>1, <2>4, <4>1, <4>2, <4>3 DEF KnowsInode, AtInode
    <3> QED
      BY <3>1, <3>2
  <2> QED
    BY <2>6, <2>8, <2>9, <2>10 DEF CountedNow
<1> QED
  BY <1>1, <1>4, <1>5, InsertSets

\* inode_close(), the end of the last: nobody has the inode any more.
LEMMA UnlistCounted ==
  ASSUME Sound, CountedNow, NEW p \in Proc, AloneInList(p), Unlist(p)
  PROVE  CountedNow'
<1> DEFINE i == call[p].inode
<1>1. TypeOK /\ Shapes /\ Listed /\ CountsMatch /\ \A q \in Proc : KnowsInode(q)
  BY DEF Sound, CountedNow
<1>2. /\ pc[p] = "unlist" /\ i \in InUse /\ file' = file /\ InUse' = InUse \ {i}
      /\ \A j \in Inode : j # i => inode'[j] = inode[j]
      /\ open_inodes' = ListRemove(open_inodes, {i})
  BY <1>1, UnlistClears
<1>3. inode[i].open_cnt = 0
  BY <1>1, <1>2 DEF KnowsInode
<1>4. (\A q \in Proc : Held(q) # i) /\ \A f \in Opened : file[f].inode # i
  BY <1>1, <1>2, <1>3, NoneCount
<1>5. i \in Inode /\ i # None /\ InUse \subseteq Inode
  BY <1>2, NoneIs DEF InUse
<1>6. PICK l \in {"leave", "exit", "user", "release"}, c \in Call : Moves(p, l, c) /\ c.inode = None
  BY <1>1, UnlistMoves, ClosedMoves
<1>7. /\ Held(p)' = None /\ Held(p) = None /\ pc'[p] = l /\ call'[p] = c
      /\ \A q \in Proc : q # p => /\ Held(q)' = Held(q) /\ pc'[q] = pc[q] /\ call'[q] = call[q]
  BY <1>1, <1>2, <1>6, HeldAfter DEF HoldingAt
<1>8. Listed'
  <2>1. Range(open_inodes) = InUse /\ IsInjective(open_inodes) /\ open_inodes \in Seq(Inode)
    BY <1>1 DEF Listed, TypeOK
  <2>2. Range(open_inodes') = InUse' /\ IsInjective(open_inodes')
    BY <1>2, <2>1, ListRemoveFacts
  <2>3. \A j, k \in InUse' : inode'[j].sector = inode'[k].sector => j = k
    BY <1>1, <1>2, <1>5 DEF Listed
  <2> QED
    BY <2>2, <2>3 DEF Listed
<1>9. CountsMatch'
  <2>1. \A q \in Proc : Held(q)' = Held(q)
    BY <1>7
  <2>2. \A q \in Proc, j \in Inode : j # i => (Held(q)' = j <=> Held(q) = j)
    BY <2>1
  <2>3. ASSUME NEW j \in InUse'
        PROVE  /\ inode'[j].open_cnt = Cardinality(Users(j))' + Cardinality(Holders(j))'
               /\ inode'[j].deny_write_cnt = Cardinality(Denying(j))'
    <3>1. j \in InUse /\ j # i /\ inode'[j] = inode[j]
      BY <1>2, <1>5
    <3> QED
      BY <1>1, <1>2, <1>5, <2>2, <3>1, OtherCounts
  <2> QED
    BY <2>3 DEF CountsMatch
<1>10. \A f \in Opened' : file'[f].inode \in InUse'
  BY <1>2, <1>4 DEF CountedNow, Opened
<1>11. ASSUME NEW q \in Proc PROVE KnowsInode(q)'
  <2>1. CASE q = p
    BY <1>6, <1>7, <2>1 DEF KnowsInode
  <2>2. CASE q # p
    <3>1. /\ pc[q] \notin {"root", "search", "reopen", "insert", "header", "leave", "unlist"}
          /\ pc'[q] = pc[q] /\ call'[q] = call[q]
      BY <1>2, <1>7, <2>2 DEF AloneInList, InList
    <3>2. call[q].inode # None => pc[q] \in AtInode \cup {"leave"}
      BY <1>1 DEF Shapes, Shape
    <3>3. call[q].inode # None => call[q].inode # i
      BY <1>4, <3>1, <3>2 DEF Held, Holding, AtInode
    <3>4. call[q].inode # None => /\ call[q].inode \in InUse'
                                  /\ inode'[call[q].inode] = inode[call[q].inode]
      BY <1>1, <1>2, <1>5, <3>3 DEF KnowsInode
    <3>5. pc[q] \in AtInode => call[q].inode # None
      BY <1>1 DEF Shapes, Shape
    <3> QED
      BY <1>1, <3>1, <3>4, <3>5 DEF KnowsInode, AtInode
  <2> QED
    BY <2>1, <2>2
<1> QED
  BY <1>8, <1>9, <1>10, <1>11 DEF CountedNow

\* Others know what they knew while the counts of openers stay.
LEMMA OthersKnow ==
  ASSUME Sound, CountedNow, NEW p \in Proc,
         \A q \in Proc : q # p => pc'[q] = pc[q] /\ call'[q] = call[q], InUse' = InUse,
         \A i \in InUse : /\ inode'[i].sector = inode[i].sector
                          /\ inode'[i].open_cnt = inode[i].open_cnt
  PROVE  \A q \in Proc : q # p => KnowsInode(q)'
<1>1. TypeOK /\ Shapes /\ \A q \in Proc : KnowsInode(q)
  BY DEF Sound, CountedNow
<1>2. \A q \in Proc : pc[q] \in {"unlist", "header"} => call[q].inode \in InUse
  BY <1>1 DEF KnowsInode, Shapes, Shape, AtInode
<1>3. ASSUME NEW q \in Proc, q # p PROVE KnowsInode(q)'
  BY <1>1, <1>2, <1>3, KnowsSame
<1> QED
  BY <1>3

\* file_open(): the inode goes from the call to the file.
LEMMA FileOpenCounted ==
  ASSUME Sound, CountedNow, NEW p \in Proc, FileOpen(p)
  PROVE  CountedNow'
<1> DEFINE i == call[p].inode
<1>1. TypeOK /\ Shapes /\ KnowsInode(p)
  BY DEF Sound, CountedNow
<1>2. pc[p] = "file" /\ UNCHANGED <<inode, open_inodes>>
  BY DEF FileOpen, At
<1>3. i # None /\ i \in InUse /\ InUse' = InUse
  BY <1>1, <1>2 DEF Shapes, Shape, AtInode, KnowsInode, InUse
<1>4. ASSUME NEW f \in FreeFiles, FileMade(p, f)
      PROVE  CountedNow'
  <2>1. f \in File /\ f \notin Opened /\ i \in Inode
    BY <1>3, <1>4 DEF FreeFiles, Opened, InUse
  <2>2. PICK l \in {"loaded", "user"}, c \in Call : Moves(p, l, c) /\ c.inode = None
    BY <1>4, <2>1, LoadedCall, NoCallIs DEF FileMade
  <2>3. /\ Held(p) = i /\ Held(p)' = None /\ pc'[p] = l /\ call'[p] = c
        /\ \A q \in Proc : q # p => /\ Held(q)' = Held(q) /\ pc'[q] = pc[q] /\ call'[q] = call[q]
    BY <1>1, <1>2, <2>2, HeldAfter DEF HoldingAt
  <2>4. /\ file' = [file EXCEPT ![f] = [inode |-> i, pos |-> 0, deny_write |-> FALSE]]
        /\ [inode |-> i, pos |-> 0, deny_write |-> FALSE] \in FileRecord
        /\ file \in [File -> FileRecord \cup {None}]
    BY <1>1, <1>4, <2>1 DEF FileMade, FileRecord, TypeOK
  <2>5. /\ file' \in [File -> FileRecord \cup {None}] /\ file'[f] # None
        /\ file'[f].inode = i /\ file'[f].deny_write = FALSE
        /\ \A g \in File : g # f => file'[g] = file[g]
    BY <2>1, <2>4, NoneIs
  <2>6. /\ Uses(f) = None /\ Uses(f)' = i /\ DeniedBy(f) = None /\ DeniedBy(f)' = None
        /\ \A g \in File : g # f => Uses(g)' = Uses(g) /\ DeniedBy(g)' = DeniedBy(g)
    BY <2>1, <2>5 DEF Uses, DeniedBy, Opened
  <2>7. KnowsInode(p)'
    BY <2>2, <2>3 DEF KnowsInode
  <2>8. \A q \in Proc : KnowsInode(q)'
    BY <1>2, <1>3, <2>3, <2>7, OthersKnow
  <2>9. ASSUME NEW j \in InUse
        PROVE  /\ inode'[j].sector = inode[j].sector
               /\ inode'[j].open_cnt = inode[j].open_cnt + One(Uses(f)' = j) - One(Uses(f) = j)
                                       + One(Held(p)' = j) - One(Held(p) = j)
               /\ inode'[j].deny_write_cnt =
                    inode[j].deny_write_cnt + One(DeniedBy(f)' = j) - One(DeniedBy(f) = j)
    <3>1. j # None /\ inode[j].open_cnt \in Int /\ inode[j].deny_write_cnt \in Int
      BY <1>1, MemoryIs, NoneIs DEF InodeRecord, InUse
    <3> QED
      BY <1>2, <2>3, <2>6, <3>1 DEF One
  <2> QED
    BY <1>1, <1>2, <1>3, <2>1, <2>3, <2>5, <2>6, <2>8, <2>9, OpenersCounted
<1>5. CASE (\E c \in Call : Moves(p, "drop", c) /\ c.inode = call[p].inode) /\ file' = file
  <2>1. CalmMove(p)
    BY <1>2, <1>5 DEF CalmMove, Moves, KnowingAt, HoldingAt
  <2> QED
    BY <1>2, <1>5, <2>1, CalmCounted DEF memoryVars
<1> QED
  BY <1>1, <1>4, <1>5, FileOpenMoves

\* file_close(): the inode goes from the file to the call that is to close it.
LEMMA FileCloseCounted ==
  ASSUME Sound, CountedNow, NEW p \in Proc, pc[p] \in {"user", "loaded", "exit"},
         NEW op \in Op \ {"open"}, NEW f \in Opened, FileClose(p, op, f)
  PROVE  CountedNow'
<1> DEFINE i == file[f].inode
           deny == IF file[f].deny_write THEN inode[i].deny_write_cnt - 1
                   ELSE inode[i].deny_write_cnt
<1>1. TypeOK /\ Shapes
  BY DEF Sound
<1>2. /\ i \in InUse /\ open_inodes' = open_inodes /\ file' = [file EXCEPT ![f] = None]
      /\ Sets(i, inode[i].sector, inode[i].open_cnt, deny, inode[i].removed, inode[i].data)
  BY <1>1, FileCloseSets
<1>3. /\ i \in Inode /\ inode[i].sector \in Sector /\ inode[i].deny_write_cnt \in Int
      /\ inode[i].open_cnt \in Int /\ deny \in Int
      /\ inode[i].removed \in BOOLEAN /\ inode[i].data \in DiskInode /\ i # None
      /\ f \in File /\ file[f].deny_write \in BOOLEAN
  BY <1>1, <1>2, MemoryIs, NoneIs DEF InodeRecord
<1>4. deny = inode[i].deny_write_cnt - One(file[f].deny_write)
  BY <1>3 DEF One
<1> HIDE DEF deny
<1>5. /\ inode'[i].sector = inode[i].sector /\ inode'[i].open_cnt = inode[i].open_cnt
      /\ inode'[i].deny_write_cnt = deny
      /\ \A j \in Inode : j # i => inode'[j] = inode[j]
      /\ InUse' = InUse \cup {i}
  BY <1>1, <1>2, <1>3, SetsIs
<1>6. InUse' = InUse /\ InUse \subseteq Inode
  BY <1>2, <1>5 DEF InUse
<1>7. Moves(p, "drop", Closing(op, i)) /\ Closing(op, i).inode = i
  BY <1>1, FileCloseMoves
<1>8. /\ Held(p) = None /\ Held(p)' = i /\ pc'[p] = "drop" /\ call'[p] = Closing(op, i)
      /\ \A q \in Proc : q # p => /\ Held(q)' = Held(q) /\ pc'[q] = pc[q] /\ call'[q] = call[q]
  BY <1>1, <1>7, HeldAfter DEF HoldingAt
<1>9. /\ file' \in [File -> FileRecord \cup {None}] /\ file'[f] = None
      /\ \A g \in File : g # f => file'[g] = file[g]
  BY <1>1, <1>2, <1>3 DEF TypeOK
<1>10. /\ Uses(f) = i /\ Uses(f)' = None /\ DeniedBy(f)' = None
       /\ DeniedBy(f) = (IF file[f].deny_write THEN i ELSE None)
       /\ \A g \in File : g # f => Uses(g)' = Uses(g) /\ DeniedBy(g)' = DeniedBy(g)
  BY <1>3, <1>9 DEF Uses, DeniedBy, Opened
<1>11. KnowsInode(p)'
  BY <1>2, <1>6, <1>7, <1>8 DEF KnowsInode
<1>12. \A j \in InUse : /\ inode'[j].sector = inode[j].sector
                        /\ inode'[j].open_cnt = inode[j].open_cnt
  BY <1>5, <1>6
<1>13. \A q \in Proc : KnowsInode(q)'
  BY <1>6, <1>8, <1>11, <1>12, OthersKnow
<1>14. ASSUME NEW j \in InUse
       PROVE  /\ inode'[j].sector = inode[j].sector
              /\ inode'[j].open_cnt = inode[j].open_cnt + One(Uses(f)' = j) - One(Uses(f) = j)
                                      + One(Held(p)' = j) - One(Held(p) = j)
              /\ inode'[j].deny_write_cnt =
                   inode[j].deny_write_cnt + One(DeniedBy(f)' = j) - One(DeniedBy(f) = j)
  <2>1. j # None /\ inode[j].open_cnt \in Int /\ inode[j].deny_write_cnt \in Int
    BY <1>1, <1>6, MemoryIs, NoneIs DEF InodeRecord
  <2>2. One(Uses(f)' = j) = 0 /\ One(Held(p) = j) = 0 /\ One(DeniedBy(f)' = j) = 0
    BY <1>8, <1>10, <2>1 DEF One
  <2>3. One(Uses(f) = j) = One(Held(p)' = j) /\ One(Uses(f) = j) \in Int
    BY <1>8, <1>10 DEF One
  <2>4. inode'[j].deny_write_cnt = inode[j].deny_write_cnt - One(DeniedBy(f) = j)
    <3>1. CASE j = i
      BY <1>3, <1>4, <1>5, <1>10, <3>1 DEF One
    <3>2. CASE j # i
      BY <1>5, <1>6, <1>10, <2>1, <3>2 DEF One
    <3> QED
      BY <3>1, <3>2
  <2>5. One(DeniedBy(f) = j) \in Int
    BY DEF One
  <2> QED
    BY <1>12, <2>1, <2>2, <2>3, <2>4, <2>5
<1> QED
  BY <1>1, <1>3, <1>6, <1>2, <1>8, <1>9, <1>10, <1>13, <1>14, OpenersCounted

\* A step that leaves the calls and only moves positions in files.
LEMMA PositionCounted ==
  ASSUME Sound, CountedNow, NEW p \in Proc, UNCHANGED <<inode, open_inodes, pc, call>>,
         NEW f \in Opened, NEW n \in Nat, file' = [file EXCEPT ![f].pos = n] \/ file' = file
  PROVE  CountedNow'
<1>1. TypeOK /\ Shapes /\ \A q \in Proc : KnowsInode(q)
  BY DEF Sound, CountedNow
<1>2. /\ f \in File /\ file[f] \in FileRecord /\ file \in [File -> FileRecord \cup {None}]
      /\ [file[f] EXCEPT !.pos = n] \in FileRecord
      /\ [file[f] EXCEPT !.pos = n].inode = file[f].inode
      /\ [file[f] EXCEPT !.pos = n].deny_write = file[f].deny_write
  BY <1>1, MemoryIs, FileFields DEF TypeOK
<1>3. /\ file' \in [File -> FileRecord \cup {None}]
      /\ \A g \in File : /\ file'[g] = None <=> file[g] = None
                         /\ file[g] # None => /\ file'[g].inode = file[g].inode
                                              /\ file'[g].deny_write = file[g].deny_write
  <2>1. CASE file' = [file EXCEPT ![f].pos = n]
    BY <1>2, <2>1, NoneIs
  <2>2. CASE file' = file
    BY <1>2, <2>2
  <2> QED
    BY <2>1, <2>2
<1>4. InUse' = InUse
  BY DEF InUse
<1>5. /\ KnowsInode(p)' /\ Held(p)' = Held(p)
      /\ \A q \in Proc : q # p => /\ Held(q)' = Held(q) /\ pc'[q] = pc[q] /\ call'[q] = call[q]
  BY <1>1, <1>4 DEF KnowsInode, Held, Holding, InodeOf
<1> QED
  BY <1>1, <1>3, <1>4, <1>5, QuietCounted

\* write() to the executable: the file denies writes.
Refused(f) ==
  /\ ~file[f].deny_write /\ file' = [file EXCEPT ![f].deny_write = TRUE]
  /\ Sets(file[f].inode, inode[file[f].inode].sector, inode[file[f].inode].open_cnt,
          inode[file[f].inode].deny_write_cnt + 1, inode[file[f].inode].removed,
          inode[file[f].inode].data)

LEMMA RefusedCounted ==
  ASSUME Sound, CountedNow, NEW p \in Proc, UNCHANGED <<open_inodes, pc, call>>,
         NEW f \in Opened, Refused(f)
  PROVE  CountedNow'
<1> DEFINE i == file[f].inode
<1>1. TypeOK /\ Shapes /\ \A q \in Proc : KnowsInode(q)
  BY DEF Sound, CountedNow
<1>2. i \in InUse /\ InUse \subseteq Inode
  BY DEF CountedNow, InUse
<1>3. /\ i \in Inode /\ inode[i].sector \in Sector /\ inode[i].deny_write_cnt \in Int
      /\ inode[i].deny_write_cnt + 1 \in Int /\ inode[i].open_cnt \in Int
      /\ inode[i].removed \in BOOLEAN /\ inode[i].data \in DiskInode /\ i # None
      /\ f \in File
  BY <1>1, <1>2, MemoryIs, NoneIs DEF InodeRecord
<1>4. /\ inode'[i].sector = inode[i].sector /\ inode'[i].open_cnt = inode[i].open_cnt
      /\ inode'[i].deny_write_cnt = inode[i].deny_write_cnt + 1
      /\ \A j \in Inode : j # i => inode'[j] = inode[j]
      /\ InUse' = InUse \cup {i}
  BY <1>1, <1>3, SetsIs DEF Refused
<1>5. InUse' = InUse
  BY <1>2, <1>4
<1>6. /\ file[f] \in FileRecord /\ file \in [File -> FileRecord \cup {None}]
      /\ [file[f] EXCEPT !.deny_write = TRUE] \in FileRecord
      /\ [file[f] EXCEPT !.deny_write = TRUE].inode = i
      /\ [file[f] EXCEPT !.deny_write = TRUE].deny_write
  BY <1>1, MemoryIs, FileFields DEF TypeOK
<1>7. /\ file' \in [File -> FileRecord \cup {None}] /\ file'[f] # None /\ file'[f].inode = i
      /\ file'[f].deny_write /\ \A g \in File : g # f => file'[g] = file[g]
  BY <1>3, <1>6, NoneIs DEF Refused
<1>8. /\ Uses(f) = i /\ Uses(f)' = i /\ DeniedBy(f)' = i /\ DeniedBy(f) = None
      /\ \A g \in File : g # f => Uses(g)' = Uses(g) /\ DeniedBy(g)' = DeniedBy(g)
  BY <1>3, <1>7 DEF Uses, DeniedBy, Opened, Refused
<1>9. \A q \in Proc : Held(q)' = Held(q) /\ pc'[q] = pc[q] /\ call'[q] = call[q]
  BY DEF Held, Holding
<1>10. \A j \in InUse : /\ inode'[j].sector = inode[j].sector
                        /\ inode'[j].open_cnt = inode[j].open_cnt
  BY <1>2, <1>4
<1>11. \A q \in Proc : KnowsInode(q)'
  <2>1. \A q \in Proc : pc[q] \in {"unlist", "header"} => call[q].inode \in InUse
    BY <1>1 DEF KnowsInode, Shapes, Shape, AtInode
  <2> QED
    BY <1>1, <1>5, <1>9, <1>10, <2>1, KnowsSame
<1>12. ASSUME NEW j \in InUse
       PROVE  /\ inode'[j].sector = inode[j].sector
              /\ inode'[j].open_cnt = inode[j].open_cnt + One(Uses(f)' = j) - One(Uses(f) = j)
                                      + One(Held(p)' = j) - One(Held(p) = j)
              /\ inode'[j].deny_write_cnt =
                   inode[j].deny_write_cnt + One(DeniedBy(f)' = j) - One(DeniedBy(f) = j)
  <2>1. j # None /\ inode[j].open_cnt \in Int /\ inode[j].deny_write_cnt \in Int
    BY <1>1, <1>2, MemoryIs, NoneIs DEF InodeRecord
  <2>2. /\ One(Uses(f)' = j) = One(Uses(f) = j) /\ One(Held(p)' = j) = One(Held(p) = j)
        /\ One(Uses(f) = j) \in Int /\ One(Held(p) = j) \in Int
    BY <1>8, <1>9 DEF One
  <2>3. inode'[j].deny_write_cnt =
          inode[j].deny_write_cnt + One(DeniedBy(f)' = j) - One(DeniedBy(f) = j)
    <3>1. CASE j = i
      BY <1>3, <1>4, <1>8, <3>1 DEF One
    <3>2. CASE j # i
      BY <1>2, <1>4, <1>8, <2>1, <3>2 DEF One
    <3> QED
      BY <3>1, <3>2
  <2> QED
    BY <1>10, <2>1, <2>2, <2>3
<1>13. /\ open_inodes' = open_inodes /\ Uses(f)' \in InUse \cup {None}
       /\ \A q \in Proc : q # p => Held(q)' = Held(q)
  BY <1>2, <1>8, <1>9
<1> HIDE DEF i
<1> QED
  BY <1>1, <1>3, <1>5, <1>7, <1>8, <1>11, <1>12, <1>13, OpenersCounted

\* The calls on descriptors that stay in one step.
LEMMA InPlaceCounted ==
  ASSUME Sound, CountedNow, NEW p \in Proc, NEW d \in Fd,
         \/ \E v \in Data : Write(p, d, v)
         \/ \E position \in 0 .. Max(Lengths) : Seek(p, d, position)
         \/ Read(p, d)
  PROVE  CountedNow'
<1> DEFINE f == files[p][d]
<1>1. TypeOK /\ Shapes /\ Descriptors
  BY DEF Sound
<1>2. ASSUME NEW v \in Data, Write(p, d, v)
      PROVE  CountedNow'
  <2>1. /\ f \in Opened /\ UNCHANGED <<open_inodes, pc, call>> /\ Written(f, file[f].inode, v)
    BY <1>1, <1>2, WriteSets
  <2>2. f \in File /\ file[f].pos \in Nat /\ file[f].pos + 1 \in Nat
    BY <1>1, <2>1, MemoryIs
  <2>3. CASE /\ inode' = inode /\ file' = [file EXCEPT ![f].pos = @ + 1]
    BY <2>1, <2>2, <2>3, PositionCounted
  <2>4. CASE UNCHANGED <<inode, file>>
    BY <2>1, <2>4, PositionCounted
  <2>5. CASE Refused(f)
    BY <2>1, <2>5, RefusedCounted
  <2> QED
    BY <2>1, <2>3, <2>4, <2>5 DEF Written, Refused
<1>3. ASSUME NEW position \in 0 .. Max(Lengths), Seek(p, d, position)
      PROVE  CountedNow'
  <2>1. f \in Opened
    BY <1>1, <1>3, HandleIs DEF Seek
  <2>2. UNCHANGED <<inode, open_inodes, pc, call>> /\ file' = [file EXCEPT ![f].pos = position]
    BY <1>3 DEF Seek
  <2>3. position \in Nat
    BY MaxLengthIs
  <2> QED
    BY <2>1, <2>2, <2>3, PositionCounted
<1>4. CASE Read(p, d)
  <2>1. f \in Opened
    BY <1>1, <1>4, HandleIs DEF Read
  <2>2. UNCHANGED <<inode, open_inodes, pc, call>>
        /\ (file' = [file EXCEPT ![f].pos = @ + 1] \/ file' = file)
    BY <1>4 DEF Read
  <2>3. file[f].pos \in Nat /\ file[f].pos + 1 \in Nat
    BY <1>1, <2>1, MemoryIs
  <2> QED
    BY <2>1, <2>2, <2>3, PositionCounted
<1> QED
  BY <1>2, <1>3, <1>4

LEMMA StepCounted ==
  ASSUME Sound, CountedNow, NEW p \in Proc, AloneInList(p), Step(p)
  PROVE  CountedNow'
<1>1. TypeOK /\ Shapes /\ Descriptors
  BY DEF Sound
<1>2. "load" \in Op \ {"open"} /\ "close" \in Op \ {"open"} /\ "exit" \in Op \ {"open"}
  BY DEF Op
<1>3. CASE CalmStep(p)
  BY <1>1, <1>3, CalmMoves, CalmMemory, CalmCounted
<1>4. CASE Search(p)
  BY <1>4, SearchCounted
<1>5. CASE Reopen(p)
  BY <1>5, ReopenCounted
<1>6. CASE Insert(p)
  BY <1>6, InsertCounted
<1>7. CASE ReadHeader(p)
  BY <1>7, ReadHeaderCounted
<1>8. CASE Drop(p)
  BY <1>8, DropCounted
<1>9. CASE Unlist(p)
  BY <1>9, UnlistCounted
<1>10. CASE InodeRemove(p)
  BY <1>10, InodeRemoveCounted
<1>11. CASE FileOpen(p)
  BY <1>11, FileOpenCounted
<1>12. CASE LoadDone(p)
  <2>1. pc[p] = "loaded" /\ FileClose(p, "load", call[p].file)
    BY <1>12 DEF LoadDone, At
  <2>2. call[p].file \in Opened
    BY <1>1, <2>1, HandleIs
  <2> QED
    BY <1>2, <2>1, <2>2, FileCloseCounted
<1>13. CASE ExitNext(p)
  <2>1. pc[p] = "exit"
    BY <1>1, <1>13, ExitNextIs
  <2>2. ASSUME NEW d \in Fd, files[p][d] # None, FileClose(p, "exit", files[p][d])
        PROVE  CountedNow'
    BY <1>1, <1>2, <2>1, <2>2, HandleIs, FileCloseCounted
  <2>3. CASE End(p) /\ UNCHANGED <<diskVars, memoryVars>>
    <3>1. call[p].inode = None
      BY <1>1, <2>1 DEF Shapes, Shape, AtInode
    <3>2. Moves(p, "ended", NoCall) /\ NoCall.inode = None /\ NoCall \in Call
      BY <2>3, EndMoves, NoCallIs
    <3>3. CalmMove(p)
      BY <3>1, <3>2 DEF CalmMove, Moves, KnowingAt
    <3> QED
      BY <2>3, <3>3, CalmCounted
  <2> QED
    BY <1>1, <1>13, <2>2, <2>3, ExitNextIs
<1>14. ASSUME NEW d \in Fd, Close(p, d)
       PROVE  CountedNow'
  <2>1. files[p][d] # None /\ pc[p] = "user" /\ FileClose(p, "close", files[p][d])
    BY <1>14 DEF Close, Ready, At
  <2>2. files[p][d] \in Opened
    BY <1>1, <2>1, HandleIs
  <2> QED
    BY <1>2, <2>1, <2>2, FileCloseCounted
<1>15. ASSUME NEW d \in Fd,
              \/ \E v \in Data : Write(p, d, v)
              \/ \E position \in 0 .. Max(Lengths) : Seek(p, d, position)
              \/ Read(p, d)
       PROVE  CountedNow'
  BY <1>15, InPlaceCounted
<1>16. CASE Continue(p)
  BY <1>3, <1>4, <1>5, <1>6, <1>7, <1>8, <1>9, <1>10, <1>11, <1>12, <1>13, <1>16
     DEF Continue, CalmStep
<1>17. CASE Begin(p)
  <2>1. CASE \E d \in Fd : \/ Close(p, d)
                           \/ \E v \in Data : Write(p, d, v)
                           \/ \E position \in 0 .. Max(Lengths) : Seek(p, d, position)
    BY <1>14, <1>15, <2>1
  <2>2. CASE \/ Load(p) \/ Exit(p) \/ Kill(p)
             \/ \E n \in Name : \/ Exec(p, n) \/ Open(p, n) \/ RemoveFile(p, n)
                                \/ \E len \in Lengths : Create(p, n, len)
    BY <1>3, <2>2 DEF CalmStep
  <2> QED
    BY <1>17, <2>1, <2>2 DEF Begin
<1> QED
  BY <1>15, <1>16, <1>17 DEF Step

LEMMA InitCounted == Init => Counted
<1> SUFFICES ASSUME Init PROVE CountedNow
  BY DEF Counted, CountedNow
<1>1. InUse = {} /\ Opened = {} /\ open_inodes = <<>>
  BY DEF Init, InUse, Opened
<1>2. Listed
  BY <1>1 DEF Listed, Range, IsInjective
<1>3. CountsMatch /\ \A f \in Opened : file[f].inode \in InUse
  BY <1>1 DEF CountsMatch
<1>4. \A p \in Proc : KnowsInode(p)
  BY NoCallIs DEF Init, KnowsInode
<1> QED
  BY <1>2, <1>3, <1>4 DEF CountedNow

LEMMA NextCounted == Sound /\ Counted /\ [Next]_vars => Counted'
<1> SUFFICES ASSUME Sound, Counted, [Next]_vars PROVE Counted'
  OBVIOUS
<1>1. CASE UNCHANGED vars
  <2>1. UNCHANGED <<inode, open_inodes, file, pc, call, clash>>
    BY <1>1 DEF vars, memoryVars
  <2>2. InUse' = InUse /\ Opened' = Opened
    BY <2>1 DEF InUse, Opened
  <2>3. Listed' <=> Listed
    BY <2>1, <2>2 DEF Listed
  <2>4. CountsMatch' <=> CountsMatch
    BY <2>1, <2>2 DEF CountsMatch, Users, Denying, Holders, Holding, Opened
  <2>5. \A p \in Proc : KnowsInode(p)' <=> KnowsInode(p)
    BY <2>1, <2>2 DEF KnowsInode, InodeOf
  <2> QED
    BY <2>1, <2>2, <2>3, <2>4, <2>5 DEF Counted
<1>2. CASE Next /\ "list" \notin clash'
  <2>1. PICK p \in Proc :
          \/ Continue(p) /\ result' = <<>> /\ UNCHANGED calls
          \/ /\ calls < MaxCalls /\ calls' = calls + 1
             /\ \/ Begin(p) /\ result' = <<>>
                \/ \E d \in Fd : Read(p, d)
    BY <1>2 DEF Next
  <2>2. Step(p)
    BY <2>1 DEF Step
  <2>3. "list" \notin clash
    BY <1>2 DEF Next
  <2>4. CountedNow /\ AloneInList(p)
    BY <2>3, ListApart DEF Counted, CountedNow
  <2>5. CountedNow'
    BY <2>2, <2>4, StepCounted
  <2> QED
    BY <2>5 DEF Counted, CountedNow
<1> QED
  BY <1>1, <1>2 DEF Counted

\* In every run, for any number of processes, files, inodes, sectors and calls:
\* what memory, disk and calls hold has its type, every call is at a place where
\* it knows what it needs there, blocks are inside the device, a struct file has
\* one descriptor at most, and one process at most is in open().
THEOREM FileSysSound == Spec => []Sound
<1>1. Init => Sound
  BY InitSound
<1>2. Sound /\ [Next]_vars => Sound'
  BY NextSound
<1> QED
  BY <1>1, <1>2, PTL DEF Spec

\* However many calls interleave, one access at a time: until two have met on
\* the list of open inodes, the list holds every struct inode in use, once and
\* one for a sector, and each counts its openers and those that deny writes
\* (CountsOpeners of FileSys).
THEOREM OpenersAreCounted == Spec => []CountsOpeners
<1>1. Init => Sound /\ Counted
  BY InitSound, InitCounted
<1>2. Sound /\ Counted /\ [Next]_vars => (Sound /\ Counted)'
  BY NextSound, NextCounted
<1>3. Sound /\ Counted => CountsOpeners
  <2> SUFFICES ASSUME Sound, Counted PROVE CountsOpeners
    OBVIOUS
  <2>1. TypeOK /\ open_inodes \in Seq(Inode)
    BY DEF Sound, TypeOK
  <2>2. ASSUME Listed
        PROVE  Len(open_inodes) = Cardinality(InUse)
    BY <2>1, <2>2, OnceEach DEF Listed
  <2> QED
    BY <2>1, <2>2 DEF CountsOpeners, Counted, Listed, CountsMatch
<1> QED
  BY <1>1, <1>2, <1>3, PTL DEF Spec

-----------------------------------------------------------------------------
(* Files own their sectors, until two calls have met *)

OwnedNow ==
  /\ FilesOwn /\ CallsOwn /\ HeadersRead
  /\ OneRemoving /\ EntriesApart /\ RemovedUnnamed /\ \A p \in Proc : KnowsSectors(p)

\* No other call is in the free map with p, nor where it must not be in the
\* directory.
AloneInMap(p) == \A q \in Proc : q # p => ~(InMap(p) /\ InMap(q))

AloneInDirectory(p) ==
  \A q \in Proc : q # p =>
    /\ ~(Removing(p) /\ (Finding(q) \/ Adding(q)))
    /\ ~(Removing(q) /\ (Finding(p) \/ Adding(p)))
    /\ ~(Adding(p) /\ Adding(q))

LEMMA AllApart ==
  ASSUME Sound, clash = {}, NEW p \in Proc
  PROVE  AloneInList(p) /\ AloneInMap(p) /\ AloneInDirectory(p)
<1>1. AloneInList(p)
  BY ListApart
<1>2. Met = {} /\ Shared = {"list", "map", "directory"}
  BY DEF Sound, Shared
<1>3. \A q, r \in Proc : q # r => ~(Locked(q) /\ Locked(r))
  BY DEF Sound, OneLocked
<1>4. \A c \in Shared : \A q, r \in Proc : q # r => ~Meet(c, q, r)
  BY <1>2, <1>3 DEF Met
<1>5. AloneInMap(p)
  <2>1. \A q, r \in Proc : q # r => ~Meet("map", q, r)
    BY <1>2, <1>4
  <2> QED
    BY <2>1 DEF Meet, AloneInMap
<1>6. AloneInDirectory(p)
  <2>1. \A q, r \in Proc : q # r => ~Meet("directory", q, r)
    BY <1>2, <1>4
  <2>2. \A q, r \in Proc : q # r => ~(Removing(q) /\ (Finding(r) \/ Adding(r)))
                                    /\ ~(Adding(q) /\ Adding(r))
    BY <2>1 DEF Meet
  <2> QED
    BY <2>2 DEF AloneInDirectory
<1> QED
  BY <1>1, <1>5, <1>6

\* What a call claims at place l, where it knows c and d is on the disk.
Claims(l, c, d) ==
  IF l \in {"scan_data", "flip_data", "undo"} THEN {c.sector}
  ELSE IF l \in {"write_header", "zeros", "release"}
       THEN {c.sector} \cup Extent(c.start, c.length)
  ELSE IF l \in {"add", "slot", "entry"}
       THEN {c.sector} \cup Extent(d[c.sector].start, d[c.sector].length)
  ELSE IF l = "release_data" THEN Extent(c.start, c.length) ELSE {}

LEMMA ClaimedIs ==
  ASSUME NEW p \in Proc
  PROVE  /\ Claimed(p) = Claims(pc[p], call[p], disk)
         /\ Claimed(p)' = Claims(pc'[p], call'[p], disk')
<1>1. Claimed(p) = Claims(pc[p], call[p], disk)
  BY DEF Claimed, Claims, Adding, FileData
<1>2. Claimed(p)' = Claims(pc'[p], call'[p], disk')
  BY DEF Claimed, Claims, Adding, FileData
<1> QED
  BY <1>1, <1>2

\* What a call knows of sectors at place l.
Sure(l, c, map, d, entries) ==
  /\ l = "flip" => c.sector \notin map
  /\ l = "flip_data" => Extent(c.start, c.length) \cap map = {}
  /\ l \in {"write_header", "zeros", "release"} => c.sector \notin Extent(c.start, c.length)
  /\ l = "zeros" => d[c.sector] = [start |-> c.start, length |-> c.length]
  /\ l \in {"add", "slot", "entry"} =>
       /\ d[c.sector] \in DiskInode
       /\ c.sector \notin Extent(d[c.sector].start, d[c.sector].length)
  /\ l = "entry" => c.entry \in 1 .. Slots /\ entries[c.entry] = None
  /\ l \in {"search", "reopen", "insert"} \/ (c.op = "remove" /\ l \in {"header", "erase"}) =>
       /\ c.entry \in 1 .. Slots /\ entries[c.entry] # None
       /\ entries[c.entry].sector = c.sector

LEMMA KnowsIs ==
  ASSUME NEW p \in Proc
  PROVE  /\ KnowsSectors(p) <=> /\ Sure(pc[p], call[p], free_map, disk, dir)
                                /\ pc[p] = "mark" => ~Named(inode[call[p].inode].sector)
         /\ KnowsSectors(p)' <=>
              /\ Sure(pc'[p], call'[p], free_map', disk', dir')
              /\ pc'[p] = "mark" => ~Named(inode[call[p].inode].sector)'
<1>1. KnowsSectors(p) <=> /\ Sure(pc[p], call[p], free_map, disk, dir)
                          /\ pc[p] = "mark" => ~Named(inode[call[p].inode].sector)
  BY DEF KnowsSectors, Sure, Adding, AtEntry, FileData, FreeSlots
<1>2. KnowsSectors(p)' <=> /\ Sure(pc'[p], call'[p], free_map', disk', dir')
                           /\ pc'[p] = "mark" => ~Named(inode[call[p].inode].sector)'
  BY DEF KnowsSectors, Sure, Adding, AtEntry, FileData, FreeSlots
<1> QED
  BY <1>1, <1>2

\* Files and calls keep what they own or own less, but for sectors F that were
\* free.
LEMMA OwnersKept ==
  ASSUME FilesOwn, CallsOwn, NEW p \in Proc, NEW F, F \cap free_map = {},
         Live' \subseteq Live, \A s \in Live : disk'[s] = disk[s],
         \A q \in Proc : q # p => Claimed(q)' \subseteq Claimed(q),
         Claimed(p)' \subseteq Claimed(p) \cup F,
         \A s \in Live : s \in Live' => Region(s) \subseteq free_map',
         \A q \in Proc : Claimed(q)' \subseteq free_map'
  PROVE  FilesOwn' /\ CallsOwn'
<1>1. \A s \in Live : Region(s)' = Region(s) /\ FileData(s)' = FileData(s)
  BY DEF Region, FileData
<1>2. ASSUME NEW s \in Live'
      PROVE  /\ disk'[s] \in DiskInode /\ s \notin FileData(s)' /\ Region(s)' \subseteq free_map'
             /\ \A t \in Live' \ {s} : Region(s)' \cap Region(t)' = {}
             /\ \A q \in Proc : Region(s)' \cap Claimed(q)' = {}
  <2>1. s \in Live /\ Region(s)' = Region(s) /\ FileData(s)' = FileData(s) /\ disk'[s] = disk[s]
    BY <1>1
  <2>2. /\ disk[s] \in DiskInode /\ s \notin FileData(s) /\ Region(s) \subseteq free_map
        /\ \A t \in Live \ {s} : Region(s) \cap Region(t) = {}
        /\ \A q \in Proc : Region(s) \cap Claimed(q) = {}
    BY <2>1 DEF FilesOwn
  <2>3. \A t \in Live' \ {s} : Region(s)' \cap Region(t)' = {}
    BY <1>1, <2>1, <2>2
  <2>4. Region(s)' \cap Claimed(p)' = {}
    BY <2>1, <2>2
  <2>5. \A q \in Proc : Region(s)' \cap Claimed(q)' = {}
    BY <2>1, <2>2, <2>4
  <2> QED
    BY <2>1, <2>2, <2>3, <2>5
<1>3. FilesOwn'
  BY <1>2 DEF FilesOwn
<1>4. ASSUME NEW q \in Proc, NEW r \in Proc \ {q}
      PROVE  Claimed(q)' \cap Claimed(r)' = {}
  <2>1. \A u \in Proc : Claimed(u) \subseteq free_map
    BY DEF CallsOwn
  <2>2. Claimed(q) \cap Claimed(r) = {}
    BY <1>4 DEF CallsOwn
  <2>3. CASE q = p
    BY <1>4, <2>1, <2>2, <2>3
  <2>4. CASE r = p
    BY <1>4, <2>1, <2>2, <2>4
  <2>5. CASE q # p /\ r # p
    BY <1>4, <2>2, <2>5
  <2> QED
    BY <2>3, <2>4, <2>5
<1>5. CallsOwn'
  BY <1>4 DEF CallsOwn
<1> QED
  BY <1>3, <1>5

\* Another call, when what it relies on stays.
LEMMA OtherKept ==
  ASSUME NEW q \in Proc, KnowsSectors(q), pc'[q] = pc[q], call'[q] = call[q],
         pc[q] \in {"flip", "flip_data"} => free_map' \subseteq free_map,
         Adding(q) \/ pc[q] = "zeros" => disk'[call[q].sector] = disk[call[q].sector],
         pc[q] = "entry" \/ AtEntry(q) => dir'[call[q].entry] = dir[call[q].entry],
         pc[q] = "mark" => ~Named(inode[call[q].inode].sector)'
  PROVE  KnowsSectors(q)' /\ Claimed(q)' = Claimed(q)
<1>1. Claimed(q)' = Claimed(q)
  BY ClaimedIs DEF Claims, Adding
<1>2. Sure(pc[q], call[q], free_map, disk, dir)
  BY KnowsIs
<1>3. Sure(pc[q], call[q], free_map', disk', dir')
  BY <1>2 DEF Sure, Adding, AtEntry
<1> QED
  BY <1>1, <1>3, KnowsIs

\* Two calls do not come to remove at once.
LEMMA OneRemovingKept ==
  ASSUME Sound', clash' = {}, OneRemoving, NEW p \in Proc,
         \A q \in Proc : q # p => pc'[q] = pc[q] /\ call'[q] = call[q],
         pc'[p] \in {"header", "erase"} /\ call'[p].op = "remove" => Removing(p)
  PROVE  OneRemoving'
<1>1. (Met = {})' /\ \A q, r \in Proc : q # r => ~(Locked(q)' /\ Locked(r)')
  BY DEF Sound, OneLocked
<1>2. \A q \in Proc : q # p => ~(Removing(q)' /\ Finding(p)')
  <2>1. \A q, r \in Proc : q # r => ~Meet("directory", q, r)'
    BY <1>1 DEF Met, Shared
  <2> QED
    BY <2>1 DEF Meet
<1>3. \A q \in Proc : q # p => (Removing(q)' <=> Removing(q))
  BY DEF Removing, Finding
<1>4. Removing(p)' => Finding(p)' \/ Removing(p)
  BY DEF Removing
<1>5. \A q, r \in Proc : Removing(q) /\ Removing(r) => q = r
  BY DEF OneRemoving
<1>6. \A q \in Proc : q # p => ~(Removing(q)' /\ Removing(p)')
  BY <1>2, <1>3, <1>4, <1>5
<1>7. \A q, r \in Proc : Removing(q)' /\ Removing(r)' => q = r
  BY <1>3, <1>5, <1>6
<1> QED
  BY <1>7 DEF OneRemoving

\* What the inodes in use say.
InodesSame ==
  /\ InUse' = InUse
  /\ \A i \in InUse : /\ inode'[i].sector = inode[i].sector
                      /\ inode'[i].removed = inode[i].removed
                      /\ inode'[i].data = inode[i].data

LEMMA LiveSame ==
  ASSUME InodesSame, dir' = dir
  PROVE  Live' = Live /\ \A s \in Sector : Named(s)' = Named(s)
<1>1. \A s \in Sector : Named(s)' = Named(s)
  BY DEF Named
<1>2. \A s \in Sector : (InodeOf(s))' = InodeOf(s)
  BY DEF InodesSame, InodeOf
<1> QED
  BY <1>1, <1>2 DEF Live

LEMMA InodesLive ==
  ASSUME TypeOK
  PROVE  /\ \A i \in InUse : inode[i].sector \in Live
         /\ \A e \in 1 .. Slots : dir[e] # None => dir[e].sector \in Live
<1>1. \A i \in InUse : inode[i].sector \in Sector
  BY MemoryIs
<1>2. \A e \in 1 .. Slots : dir[e] # None => dir[e].sector \in Sector
  BY DEF TypeOK, Entry
<1>3. \A i \in InUse : i \in InodeOf(inode[i].sector)
  BY DEF InodeOf
<1>4. \A e \in 1 .. Slots : dir[e] # None => Named(dir[e].sector)
  BY DEF Named
<1> QED
  BY <1>1, <1>2, <1>3, <1>4 DEF Live

\* A call that is to mark an inode has one in use.
LEMMA MarkInUse ==
  ASSUME Sound, CountedNow, NEW q \in Proc, pc[q] = "mark"
  PROVE  call[q].inode \in InUse /\ Held(q) = call[q].inode
<1>1. call[q].inode # None
  BY DEF Sound, Shapes, Shape, AtInode
<1> QED
  BY <1>1 DEF CountedNow, KnowsInode, Held, Holding

\* The header of an open inode is read unless the call that made it is to.
LEMMA HeadersKept ==
  ASSUME TypeOK, HeadersRead, InodesSame, NEW p \in Proc, pc[p] # "header",
         \A q \in Proc : q # p => pc'[q] = pc[q] /\ call'[q] = call[q],
         \A s \in Live : disk'[s] = disk[s]
  PROVE  HeadersRead'
<1>1. ASSUME NEW i \in InUse'
      PROVE  inode'[i].data = disk'[inode'[i].sector]
             \/ \E q \in Proc : pc'[q] = "header" /\ call'[q].inode = i
  <2>1. i \in InUse /\ inode[i].sector \in Live
    BY InodesLive DEF InodesSame
  <2>2. CASE inode[i].data = disk[inode[i].sector]
    BY <2>1, <2>2 DEF InodesSame
  <2>3. CASE \E q \in Proc : pc[q] = "header" /\ call[q].inode = i
    BY <2>3
  <2> QED
    BY <2>1, <2>2, <2>3 DEF HeadersRead
<1> QED
  BY <1>1 DEF HeadersRead

\* A step of p on the disk or the free map that leaves the directory and what
\* the inodes say.
LEMMA SectorsOwnedMove ==
  ASSUME Sound, CountedNow, OwnedNow, Sound', clash' = {}, NEW p \in Proc,
         \A q \in Proc : q # p => pc'[q] = pc[q] /\ call'[q] = call[q],
         InodesSame, dir' = dir, pc[p] # "header", pc'[p] \notin {"header", "mark"},
         pc'[p] = "erase" => Removing(p),
         NEW F, F \cap free_map = {}, Claimed(p)' \subseteq Claimed(p) \cup F,
         \A s \in Live : disk'[s] = disk[s] /\ Region(s) \subseteq free_map',
         \A q \in Proc : q # p =>
           /\ Adding(q) \/ pc[q] = "zeros" => disk'[call[q].sector] = disk[call[q].sector]
           /\ pc[q] \in {"flip", "flip_data"} => free_map' \subseteq free_map
           /\ Claimed(q) \subseteq free_map',
         Claimed(p)' \subseteq free_map', Sure(pc'[p], call'[p], free_map', disk', dir')
  PROVE  OwnedNow'
<1>1. /\ TypeOK /\ FilesOwn /\ CallsOwn /\ HeadersRead /\ OneRemoving /\ EntriesApart
      /\ RemovedUnnamed /\ \A q \in Proc : KnowsSectors(q)
  BY DEF OwnedNow, Sound
<1>2. Live' = Live /\ \A s \in Sector : Named(s)' = Named(s)
  BY LiveSame
<1>3. ASSUME NEW q \in Proc, q # p
      PROVE  KnowsSectors(q)' /\ Claimed(q)' = Claimed(q)
  <2>1. pc[q] = "mark" => ~Named(inode[call[q].inode].sector)'
    <3>1. SUFFICES ASSUME pc[q] = "mark" PROVE ~Named(inode[call[q].inode].sector)'
      OBVIOUS
    <3>2. call[q].inode \in InUse /\ call'[q] = call[q]
      BY <1>3, <3>1, MarkInUse
    <3>3. ~Named(inode[call[q].inode].sector)
      BY <1>1, <3>1 DEF KnowsSectors
    <3>4. inode'[call'[q].inode].sector = inode[call[q].inode].sector
      BY <3>2 DEF InodesSame
    <3> QED
      BY <3>3, <3>4 DEF Named
  <2> QED
    BY <1>1, <1>3, <2>1, OtherKept
<1>4. KnowsSectors(p)'
  BY KnowsIs
<1>5. \A q \in Proc : KnowsSectors(q)'
  BY <1>3, <1>4
<1>6. FilesOwn' /\ CallsOwn'
  <2>1. \A q \in Proc : q # p => Claimed(q)' \subseteq Claimed(q)
    BY <1>3
  <2>2. \A q \in Proc : Claimed(q)' \subseteq free_map'
    BY <1>3
  <2> QED
    BY <1>1, <1>2, <2>1, <2>2, OwnersKept
<1>7. HeadersRead'
  BY <1>1, HeadersKept
<1>8. OneRemoving'
  BY <1>1, OneRemovingKept
<1>9. EntriesApart'
  BY <1>1 DEF EntriesApart
<1>10. RemovedUnnamed'
  BY <1>1, <1>2, MemoryIs DEF RemovedUnnamed, InodesSame
<1> QED
  BY <1>5, <1>6, <1>7, <1>8, <1>9, <1>10 DEF OwnedNow

\* A step that leaves the disk, and of inodes all but their counts.
LEMMA QuietOwned ==
  ASSUME Sound, CountedNow, OwnedNow, Sound', clash' = {}, NEW p \in Proc,
         \A q \in Proc : q # p => pc'[q] = pc[q] /\ call'[q] = call[q],
         InodesSame, UNCHANGED <<free_map, disk, dir>>,
         pc[p] # "header", pc'[p] \notin {"header", "mark"}, pc'[p] = "erase" => Removing(p),
         Claimed(p)' \subseteq Claimed(p), Sure(pc'[p], call'[p], free_map, disk, dir)
  PROVE  OwnedNow'
<1>1. \A q \in Proc : Claimed(q) \subseteq free_map
  BY DEF OwnedNow, CallsOwn
<1>2. \A s \in Live : disk'[s] = disk[s] /\ Region(s) \subseteq free_map'
  BY DEF OwnedNow, FilesOwn
<1>3. {} \cap free_map = {} /\ Claimed(p)' \subseteq Claimed(p) \cup {}
  OBVIOUS
<1> QED
  BY <1>1, <1>2, <1>3, SectorsOwnedMove

\* Places where a call claims no sector and relies on no entry.
PlainAt == {"new", "user", "ended", "root", "lookup", "leave", "file", "loaded", "drop", "unlist",
            "exit", "scan"}

LEMMA PlainOwned ==
  ASSUME Sound, CountedNow, OwnedNow, Sound', clash' = {}, NEW p \in Proc,
         \A q \in Proc : q # p => pc'[q] = pc[q] /\ call'[q] = call[q],
         InodesSame, UNCHANGED <<free_map, disk, dir>>, pc[p] # "header", pc'[p] \in PlainAt
  PROVE  OwnedNow'
<1>1. Claimed(p)' = {} /\ Sure(pc'[p], call'[p], free_map, disk, dir)
  BY ClaimedIs DEF Claims, Sure, PlainAt
<1>2. pc'[p] \notin {"header", "mark", "erase"}
  BY DEF PlainAt
<1> QED
  BY <1>1, <1>2, QuietOwned

LEMMA SetsSame ==
  ASSUME TypeOK, NEW i \in InUse, NEW cnt \in Int, NEW deny \in Int,
         Sets(i, inode[i].sector, cnt, deny, inode[i].removed, inode[i].data)
  PROVE  InodesSame
<1>1. /\ i \in Inode /\ inode[i].sector \in Sector /\ inode[i].removed \in BOOLEAN
      /\ inode[i].data \in DiskInode
  BY MemoryIs DEF InodeRecord
<1>2. /\ inode'[i].sector = inode[i].sector /\ inode'[i].removed = inode[i].removed
      /\ inode'[i].data = inode[i].data
      /\ \A j \in Inode : j # i => inode'[j] = inode[j]
      /\ InUse' = InUse \cup {i}
  BY <1>1, SetsIs
<1> QED
  BY <1>2 DEF InodesSame, InUse

LEMMA MemorySame ==
  ASSUME inode' = inode
  PROVE  InodesSame
BY DEF InodesSame, InUse

\* The same for a step that takes p to place l.
LEMMA PlainMove ==
  ASSUME Sound, CountedNow, OwnedNow, Sound', clash' = {}, NEW p \in Proc, NEW l \in PlainAt,
         NEW c, Moves(p, l, c), InodesSame, UNCHANGED <<free_map, disk, dir>>, pc[p] # "header"
  PROVE  OwnedNow'
BY MovesIs, PlainOwned DEF Sound

\* A step that takes p to a place where it owns no more than it did.
LEMMA QuietMove ==
  ASSUME Sound, CountedNow, OwnedNow, Sound', clash' = {}, NEW p \in Proc, NEW l, NEW c,
         Moves(p, l, c), InodesSame, UNCHANGED <<free_map, disk, dir>>, pc[p] # "header",
         l \notin {"header", "mark"}, l = "erase" => Removing(p),
         Claims(l, c, disk) \subseteq Claimed(p), Sure(l, c, free_map, disk, dir)
  PROVE  OwnedNow'
<1>1. /\ pc'[p] = l /\ call'[p] = c
      /\ \A q \in Proc : q # p => pc'[q] = pc[q] /\ call'[q] = call[q]
  BY MovesIs DEF Sound
<1>2. Claimed(p)' \subseteq Claimed(p)
  BY <1>1, ClaimedIs
<1> QED
  BY <1>1, <1>2, QuietOwned

\* inode_close() ends.
LEMMA ClosedOwned ==
  ASSUME Sound, CountedNow, OwnedNow, Sound', clash' = {}, NEW p \in Proc, Closed(p),
         InodesSame, UNCHANGED <<free_map, disk, dir>>, pc[p] # "header"
  PROVE  OwnedNow'
BY ClosedMoves, PlainMove DEF PlainAt

\* dir_open_root(), lookup(), inode_open()'s search, inode_reopen().
LEMMA LookupOwned ==
  ASSUME Sound, CountedNow, OwnedNow, Sound', clash' = {}, NEW p \in Proc, AloneInList(p),
         DirOpenRoot(p) \/ Lookup(p) \/ Search(p) \/ Reopen(p)
  PROVE  OwnedNow'
<1>1. TypeOK /\ Shapes /\ \A q \in Proc : KnowsSectors(q)
  BY DEF Sound, OwnedNow
<1>2. CASE DirOpenRoot(p)
  <2>1. pc[p] = "root" /\ UNCHANGED <<free_map, disk, dir>> /\ inode' = inode
    BY <1>2 DEF DirOpenRoot, At, diskVars, memoryVars
  <2>2. PICK l \in {"scan", "lookup", "leave"} : Moves(p, l, call[p])
    BY <1>1, <1>2, DirOpenRootMoves
  <2> QED
    BY <2>1, <2>2, MemorySame, PlainMove DEF PlainAt
<1>3. CASE Lookup(p)
  <2>1. pc[p] = "lookup" /\ UNCHANGED <<free_map, disk, dir>> /\ inode' = inode
    BY <1>3 DEF Lookup, At, diskVars, memoryVars
  <2>2. CASE Moves(p, "leave", call[p])
    BY <2>1, <2>2, MemorySame, PlainMove DEF PlainAt
  <2>3. ASSUME NEW e \in 1 .. Slots, NEW c \in Call, Moves(p, "search", c),
               e \in Matches(call[p].name), c.entry = e, c.sector = dir[e].sector
        PROVE  OwnedNow'
    <3>1. c.entry \in 1 .. Slots /\ dir[c.entry] # None /\ dir[c.entry].sector = c.sector
      BY <2>3 DEF Matches
    <3>2. Sure("search", c, free_map, disk, dir) /\ Claims("search", c, disk) = {}
      BY <3>1 DEF Sure, Claims
    <3> QED
      BY <2>1, <2>3, <3>2, MemorySame, QuietMove
  <2> QED
    BY <1>1, <1>3, <2>2, <2>3, LookupMoves
<1>4. CASE Search(p)
  <2>1. pc[p] = "search" /\ UNCHANGED <<free_map, disk, dir>> /\ inode' = inode
    BY <1>4 DEF Search, At, diskVars, memoryVars
  <2>2. /\ call[p].entry \in 1 .. Slots /\ dir[call[p].entry] # None
        /\ dir[call[p].entry].sector = call[p].sector
    BY <1>1, <2>1 DEF KnowsSectors, AtEntry, FreeSlots
  <2>3. ASSUME NEW l \in {"insert", "reopen"}, NEW c, Moves(p, l, c), c.entry = call[p].entry,
               c.sector = call[p].sector
        PROVE  OwnedNow'
    <3>1. Sure(l, c, free_map, disk, dir) /\ Claims(l, c, disk) = {}
      BY <2>2, <2>3 DEF Sure, Claims
    <3> QED
      BY <2>1, <2>3, <3>1, MemorySame, QuietMove
  <2> QED
    BY <1>1, <1>4, <2>3, SearchMoves
<1>5. CASE Reopen(p)
  <2> DEFINE i == call[p].inode
             l == WithInode(p)
  <2>1. /\ pc[p] = "reopen" /\ i \in InUse /\ UNCHANGED <<free_map, disk, dir>>
        /\ Sets(i, inode[i].sector, inode[i].open_cnt + 1, inode[i].deny_write_cnt,
                inode[i].removed, inode[i].data)
    BY <1>1, <1>5, ReopenSets DEF Reopen, diskVars
  <2>2. inode[i].open_cnt + 1 \in Int /\ inode[i].deny_write_cnt \in Int
    BY <1>1, <2>1, MemoryIs DEF InodeRecord
  <2>3. InodesSame
    BY <1>1, <2>1, <2>2, SetsSame
  <2>4. Moves(p, l, call[p]) /\ l \in {"leave", "erase"} /\ (l = "erase" => call[p].op = "remove")
    BY <1>1, <1>5, HeldMoves DEF WithInode
  <2>5. /\ call[p].entry \in 1 .. Slots /\ dir[call[p].entry] # None
        /\ dir[call[p].entry].sector = call[p].sector
    BY <1>1, <2>1 DEF KnowsSectors, AtEntry, FreeSlots
  <2>6. l = "erase" => Removing(p)
    BY <2>1, <2>4 DEF Removing, Finding
  <2> HIDE DEF l
  <2>7. Sure(l, call[p], free_map, disk, dir) /\ Claims(l, call[p], disk) = {}
    BY <2>4, <2>5 DEF Sure, Claims
  <2> QED
    BY <2>1, <2>3, <2>4, <2>6, <2>7, QuietMove
<1> QED
  BY <1>2, <1>3, <1>4, <1>5

\* The searches of free_map_allocate() and dir_add().
LEMMA ScansOwned ==
  ASSUME Sound, CountedNow, OwnedNow, Sound', clash' = {}, NEW p \in Proc,
         Scan(p) \/ ScanData(p) \/ CheckName(p) \/ FindSlot(p)
  PROVE  OwnedNow'
<1>1. TypeOK /\ Shapes /\ \A q \in Proc : KnowsSectors(q)
  BY DEF Sound, OwnedNow
<1>2. UNCHANGED <<free_map, disk, dir>> /\ inode' = inode /\ InodesSame
  BY MemorySame DEF Scan, ScanData, CheckName, FindSlot, diskVars, memoryVars
<1>3. Claimed(p) = Claims(pc[p], call[p], disk)
  BY ClaimedIs
<1>4. CASE Scan(p)
  <2>1. pc[p] = "scan"
    BY <1>4 DEF Scan, At
  <2>2. CASE Moves(p, "leave", call[p])
    BY <1>2, <2>1, <2>2, PlainMove DEF PlainAt
  <2>3. ASSUME NEW s \in Sector, NEW c \in Call, Moves(p, "flip", c), c.sector = s, s \notin free_map
        PROVE  OwnedNow'
    <3>1. Sure("flip", c, free_map, disk, dir) /\ Claims("flip", c, disk) = {}
      BY <2>3 DEF Sure, Claims
    <3> QED
      BY <1>2, <2>1, <2>3, <3>1, QuietMove
  <2> QED
    BY <1>1, <1>4, <2>2, <2>3, ScanMoves
<1>5. CASE ScanData(p)
  <2>1. pc[p] = "scan_data"
    BY <1>5 DEF ScanData, At
  <2>2. CASE Moves(p, "undo", call[p])
    <3>1. Sure("undo", call[p], free_map, disk, dir) /\ Claims("undo", call[p], disk) = Claimed(p)
      BY <1>3, <2>1 DEF Sure, Claims
    <3> QED
      BY <1>2, <2>1, <2>2, <3>1, QuietMove
  <2>3. ASSUME NEW c \in Call, Moves(p, "flip_data", c), c.sector = call[p].sector,
               Extent(c.start, c.length) \cap free_map = {}
        PROVE  OwnedNow'
    <3>1. Sure("flip_data", c, free_map, disk, dir) /\ Claims("flip_data", c, disk) = Claimed(p)
      BY <1>3, <2>1, <2>3 DEF Sure, Claims
    <3> QED
      BY <1>2, <2>1, <2>3, <3>1, QuietMove
  <2> QED
    BY <1>1, <1>5, <2>2, <2>3, ScanDataMoves
<1>6. ASSUME pc[p] \in {"add", "slot"}, NEW l \in {"slot", "entry", "undo"}, NEW c,
             Moves(p, l, c), c.sector = call[p].sector,
             l = "entry" => c.entry \in 1 .. Slots /\ dir[c.entry] = None
      PROVE  OwnedNow'
  <2>1. /\ disk[c.sector] \in DiskInode
        /\ c.sector \notin Extent(disk[c.sector].start, disk[c.sector].length)
    BY <1>1, <1>6 DEF KnowsSectors, Adding, FileData
  <2>2. Sure(l, c, free_map, disk, dir)
    BY <1>6, <2>1 DEF Sure
  <2>3. Claims(l, c, disk) \subseteq Claimed(p)
    BY <1>3, <1>6 DEF Claims
  <2>4. pc[p] # "header" /\ l \notin {"header", "mark", "erase"}
    BY <1>6
  <2> QED
    BY <1>2, <1>6, <2>2, <2>3, <2>4, QuietMove
<1>7. CASE CheckName(p)
  <2>1. pc[p] = "add"
    BY <1>7 DEF CheckName, At
  <2> QED
    BY <1>1, <1>6, <1>7, <2>1, CheckNameMoves
<1>8. CASE FindSlot(p)
  <2>1. pc[p] = "slot"
    BY <1>8 DEF FindSlot, At
  <2> QED
    BY <1>1, <1>6, <1>8, <2>1, FindSlotMoves
<1> QED
  BY <1>4, <1>5, <1>7, <1>8

\* The beginning of a call by name, exit(), the end of a process.
LEMMA BeginOwned ==
  ASSUME Sound, CountedNow, OwnedNow, Sound', clash' = {}, NEW p \in Proc,
         \/ Load(p) \/ Exit(p) \/ Kill(p) \/ DirClose(p)
         \/ \E n \in Name : \/ Exec(p, n) \/ Open(p, n) \/ RemoveFile(p, n)
                            \/ \E len \in Lengths : Create(p, n, len)
  PROVE  OwnedNow'
<1>1. TypeOK /\ Shapes
  BY DEF Sound
<1>2. ASSUME NEW op \in Opening \cup {"create", "remove"}, NEW n \in Name,
             NEW len \in Lengths \cup {0}, Start(p, op, n, len), op = "open" => MutexUp,
             pc[p] \in {"new", "user"}
      PROVE  OwnedNow'
  <2>1. Moves(p, "root", Beginning(op, n, len)) /\ "root" \in PlainAt
    BY <1>1, <1>2, StartMoves DEF PlainAt
  <2>2. UNCHANGED <<free_map, disk, dir>> /\ inode' = inode
    BY <1>2 DEF Start, diskVars, memoryVars
  <2> QED
    BY <1>2, <2>1, <2>2, MemorySame, PlainMove
<1>3. CASE Load(p)
  <2>1. Start(p, "load", Image[p], 0) /\ Image[p] \in Name /\ pc[p] = "new"
    BY <1>3, FileSysAssumption DEF Load, At
  <2> QED
    BY <1>2, <2>1 DEF Opening
<1>4. CASE Exit(p)
  <2>1. pc[p] = "user" /\ To(p, "exit", [NoCall EXCEPT !.op = "exit"]) /\ "exit" \in Op \ {"open"}
    BY <1>4 DEF Exit, Ready, At, Op
  <2>2. Moves(p, "exit", Only("exit")) /\ "exit" \in PlainAt
    BY <2>1, OnlyMoves DEF PlainAt
  <2>3. UNCHANGED <<free_map, disk, dir>> /\ inode' = inode
    BY <1>4 DEF Exit, diskVars, memoryVars
  <2> QED
    BY <2>1, <2>2, <2>3, MemorySame, PlainMove
<1>5. CASE Kill(p)
  <2>1. pc[p] = "user" /\ Moves(p, "ended", NoCall) /\ "ended" \in PlainAt
    BY <1>5, EndMoves DEF Kill, Ready, At, PlainAt
  <2>2. UNCHANGED <<free_map, disk, dir>> /\ inode' = inode
    BY <1>5 DEF Kill, diskVars, memoryVars
  <2> QED
    BY <2>1, <2>2, MemorySame, PlainMove
<1>6. CASE DirClose(p)
  <2>1. pc[p] = "leave" /\ UNCHANGED <<free_map, disk, dir>> /\ inode' = inode
    BY <1>6 DEF DirClose, At, diskVars, memoryVars
  <2>2. \/ Moves(p, "file", call[p]) \/ Moves(p, "ended", NoCall) \/ Moves(p, "user", NoCall)
    BY <1>1, <1>6, DirCloseMoves, EndMoves, ReturnMoves
  <2> QED
    BY <2>1, <2>2, MemorySame, PlainMove DEF PlainAt
<1>7. ASSUME NEW n \in Name, Exec(p, n) \/ Open(p, n) \/ RemoveFile(p, n)
      PROVE  OwnedNow'
  <2>1. /\ 0 \in Lengths \cup {0}
        /\ {"exec", "open", "remove"} \subseteq Opening \cup {"create", "remove"}
    BY DEF Opening
  <2>2. CASE Exec(p, n)
    BY <1>2, <2>1, <2>2 DEF Exec, Ready, At
  <2>3. CASE Open(p, n)
    BY <1>2, <2>1, <2>3 DEF Open, Ready, At
  <2>4. CASE RemoveFile(p, n)
    BY <1>2, <2>1, <2>4 DEF RemoveFile, Ready, At
  <2> QED
    BY <1>7, <2>2, <2>3, <2>4
<1>8. ASSUME NEW n \in Name, NEW len \in Lengths, Create(p, n, len)
      PROVE  OwnedNow'
  BY <1>2, <1>8 DEF Create, Ready, At
<1> QED
  BY <1>3, <1>4, <1>5, <1>6, <1>7, <1>8

\* inode_close()'s count, file_open(), file_close().
LEMMA CloseOwned ==
  ASSUME Sound, CountedNow, OwnedNow, Sound', clash' = {}, NEW p \in Proc,
         \/ Drop(p) \/ FileOpen(p) \/ LoadDone(p) \/ ExitNext(p)
         \/ \E d \in Fd : Close(p, d)
  PROVE  OwnedNow'
<1>1. TypeOK /\ Shapes /\ Descriptors
  BY DEF Sound
<1>2. CASE Drop(p)
  <2> DEFINE i == call[p].inode
  <2>1. /\ pc[p] = "drop" /\ i \in InUse /\ UNCHANGED <<free_map, disk, dir>>
        /\ Sets(i, inode[i].sector, inode[i].open_cnt - 1, inode[i].deny_write_cnt,
                inode[i].removed, inode[i].data)
    BY <1>1, <1>2, DropSets DEF Drop, diskVars
  <2>2. inode[i].open_cnt - 1 \in Int /\ inode[i].deny_write_cnt \in Int
    BY <1>1, <2>1, MemoryIs DEF InodeRecord
  <2>3. InodesSame
    BY <1>1, <2>1, <2>2, SetsSame
  <2>4. CASE Moves(p, "unlist", call[p])
    BY <2>1, <2>3, <2>4, PlainMove DEF PlainAt
  <2>5. CASE Closed(p)
    BY <2>1, <2>3, <2>5, ClosedOwned
  <2> QED
    BY <1>1, <1>2, <2>4, <2>5, DropMoves
<1>3. CASE FileOpen(p)
  <2>1. pc[p] = "file" /\ UNCHANGED <<free_map, disk, dir>> /\ inode' = inode
    BY <1>3 DEF FileOpen, At, diskVars
  <2>2. \E l \in {"loaded", "user", "drop"}, c \in Call : Moves(p, l, c)
    <3>1. CASE \E f \in FreeFiles : FileMade(p, f)
      <4>1. PICK f \in FreeFiles : FileMade(p, f)
        BY <3>1
      <4>2. f \in File
        BY DEF FreeFiles
      <4>3. \/ Moves(p, "loaded", Loading(f)) /\ Loading(f) \in Call
            \/ Moves(p, "user", NoCall) /\ NoCall \in Call
        BY <4>1, <4>2, LoadedCall, NoCallIs DEF FileMade
      <4> QED
        BY <4>3, Zenon
    <3>2. CASE \E c \in Call : Moves(p, "drop", c)
      BY <3>2, Zenon
    <3> QED
      BY <1>1, <1>3, <3>1, <3>2, FileOpenMoves
  <2> QED
    BY <2>1, <2>2, MemorySame, PlainMove DEF PlainAt
<1>4. ASSUME NEW f \in Opened, NEW op \in Op \ {"open"}, FileClose(p, op, f),
             pc[p] \in {"user", "loaded", "exit"}
      PROVE  OwnedNow'
  <2> DEFINE i == file[f].inode
             deny == IF file[f].deny_write THEN inode[i].deny_write_cnt - 1
                     ELSE inode[i].deny_write_cnt
  <2>1. /\ i \in InUse /\ UNCHANGED <<free_map, disk, dir>>
        /\ Sets(i, inode[i].sector, inode[i].open_cnt, deny, inode[i].removed, inode[i].data)
    BY <1>1, <1>4, FileCloseSets DEF diskVars
  <2>2. inode[i].open_cnt \in Int /\ deny \in Int
    BY <1>1, <2>1, MemoryIs DEF InodeRecord
  <2> HIDE DEF deny
  <2>3. InodesSame
    BY <1>1, <2>1, <2>2, SetsSame
  <2>4. Moves(p, "drop", Closing(op, i)) /\ "drop" \in PlainAt
    BY <1>1, <1>4, FileCloseMoves DEF PlainAt
  <2> QED
    BY <1>4, <2>1, <2>3, <2>4, PlainMove
<1>5. "load" \in Op \ {"open"} /\ "close" \in Op \ {"open"} /\ "exit" \in Op \ {"open"}
  BY DEF Op
<1>6. CASE LoadDone(p)
  <2>1. pc[p] = "loaded" /\ FileClose(p, "load", call[p].file)
    BY <1>6 DEF LoadDone, At
  <2>2. call[p].file \in Opened
    BY <1>1, <2>1, HandleIs
  <2> QED
    BY <1>4, <1>5, <2>1, <2>2
<1>7. CASE ExitNext(p)
  <2>1. pc[p] = "exit"
    BY <1>1, <1>7, ExitNextIs
  <2>2. ASSUME NEW d \in Fd, files[p][d] # None, FileClose(p, "exit", files[p][d])
        PROVE  OwnedNow'
    BY <1>1, <1>4, <1>5, <2>1, <2>2, HandleIs
  <2>3. CASE End(p) /\ UNCHANGED <<diskVars, memoryVars>>
    <3>1. Moves(p, "ended", NoCall) /\ "ended" \in PlainAt
      BY <2>3, EndMoves DEF PlainAt
    <3>2. UNCHANGED <<free_map, disk, dir>> /\ inode' = inode
      BY <2>3 DEF diskVars, memoryVars
    <3> QED
      BY <2>1, <3>1, <3>2, MemorySame, PlainMove
  <2> QED
    BY <1>1, <1>7, <2>2, <2>3, ExitNextIs
<1>8. ASSUME NEW d \in Fd, Close(p, d)
      PROVE  OwnedNow'
  <2>1. files[p][d] # None /\ pc[p] = "user" /\ FileClose(p, "close", files[p][d])
    BY <1>8 DEF Close, Ready, At
  <2>2. files[p][d] \in Opened
    BY <1>1, <2>1, HandleIs
  <2> QED
    BY <1>4, <1>5, <2>1, <2>2
<1> QED
  BY <1>2, <1>3, <1>6, <1>7, <1>8

\* What is written only in sectors that p claims is nothing to others.
LEMMA WritesOwn ==
  ASSUME Sound, OwnedNow, NEW p \in Proc,
         \A s \in Sector : s \notin Claimed(p) => disk'[s] = disk[s]
  PROVE  /\ \A s \in Live : disk'[s] = disk[s]
         /\ \A q \in Proc : q # p /\ (Adding(q) \/ pc[q] = "zeros") =>
              disk'[call[q].sector] = disk[call[q].sector]
<1>1. FilesOwn /\ CallsOwn /\ TypeOK /\ Shapes
  BY DEF OwnedNow, Sound
<1>2. ASSUME NEW s \in Live PROVE disk'[s] = disk[s]
  <2>1. s \in Sector /\ s \in Region(s)
    BY DEF Live, Region
  <2>2. Region(s) \cap Claimed(p) = {}
    BY <1>1 DEF FilesOwn
  <2> QED
    BY <2>1, <2>2
<1>3. ASSUME NEW q \in Proc, q # p, Adding(q) \/ pc[q] = "zeros"
      PROVE  disk'[call[q].sector] = disk[call[q].sector]
  <2>1. call[q].sector \in Claimed(q)
    BY <1>3, ClaimedIs DEF Claims, Adding
  <2>2. call[q].sector \in Sector
    BY <1>1, <1>3, CallAt DEF AtSector, AtNew, Adding
  <2>3. Claimed(p) \cap Claimed(q) = {}
    BY <1>1, <1>3 DEF CallsOwn
  <2> QED
    BY <2>1, <2>2, <2>3
<1> QED
  BY <1>2, <1>3

\* A step of p that keeps the directory and memory.
LEMMA OwnMove ==
  ASSUME Sound, CountedNow, OwnedNow, Sound', clash' = {}, NEW p \in Proc,
         NEW l \in Location \ {"header", "mark", "erase"}, NEW c, Moves(p, l, c),
         UNCHANGED <<inode, dir>>, pc[p] # "header", NEW F, F \cap free_map = {},
         Claims(l, c, disk') \subseteq Claimed(p) \cup F,
         \A s \in Sector : s \notin Claimed(p) => disk'[s] = disk[s],
         \A q \in Proc : q # p => (pc[q] \in {"flip", "flip_data"} => free_map' \subseteq free_map),
         \A s \in free_map : s \notin Claimed(p) => s \in free_map',
         Claims(l, c, disk') \subseteq free_map', Sure(l, c, free_map', disk', dir)
  PROVE  OwnedNow'
<1>1. /\ pc'[p] = l /\ call'[p] = c
      /\ \A q \in Proc : q # p => pc'[q] = pc[q] /\ call'[q] = call[q]
  BY MovesIs DEF Sound
<1>2. Claimed(p)' = Claims(l, c, disk')
  BY <1>1, ClaimedIs
<1>3. InodesSame
  BY MemorySame
<1>4. FilesOwn /\ CallsOwn
  BY DEF OwnedNow
<1>5. ASSUME NEW s \in Live PROVE Region(s) \subseteq free_map'
  <2>1. Region(s) \subseteq free_map /\ Region(s) \cap Claimed(p) = {}
    BY <1>4 DEF FilesOwn
  <2> QED
    BY <2>1
<1>6. ASSUME NEW q \in Proc, q # p PROVE Claimed(q) \subseteq free_map'
  <2>1. Claimed(q) \subseteq free_map /\ Claimed(p) \cap Claimed(q) = {}
    BY <1>4, <1>6 DEF CallsOwn
  <2> QED
    BY <2>1
<1>7. /\ \A s \in Live : disk'[s] = disk[s]
      /\ \A q \in Proc : q # p /\ (Adding(q) \/ pc[q] = "zeros") =>
           disk'[call[q].sector] = disk[call[q].sector]
  BY WritesOwn
<1>8. \A q \in Proc : q # p =>
           /\ Adding(q) \/ pc[q] = "zeros" => disk'[call[q].sector] = disk[call[q].sector]
           /\ pc[q] \in {"flip", "flip_data"} => free_map' \subseteq free_map
           /\ Claimed(q) \subseteq free_map'
  BY <1>6, <1>7
<1>9. \A s \in Live : disk'[s] = disk[s] /\ Region(s) \subseteq free_map'
  BY <1>5, <1>7
<1>10. Claimed(p)' \subseteq Claimed(p) \cup F /\ Claimed(p)' \subseteq free_map'
       /\ Sure(pc'[p], call'[p], free_map', disk', dir')
  BY <1>1, <1>2
<1> QED
  BY <1>1, <1>3, <1>8, <1>9, <1>10, SectorsOwnedMove

\* Steps that go on with what the call knows.
LEMMA OnwardIs ==
  ASSUME Sound, NEW p \in Proc
  PROVE  /\ Flip(p) => Moves(p, "scan_data", call[p]) /\ pc[p] = "flip"
         /\ FlipData(p) => Moves(p, "write_header", call[p]) /\ pc[p] = "flip_data"
         /\ WriteHeader(p) => Moves(p, "zeros", call[p]) /\ pc[p] = "write_header"
         /\ Release(p) => Moves(p, "release_data", call[p]) /\ pc[p] = "release"
         /\ EraseEntry(p) => Moves(p, "mark", call[p]) /\ pc[p] = "erase"
<1>1. TypeOK /\ Shapes
  BY DEF Sound
<1>2. {"scan_data", "write_header", "zeros", "release_data", "mark"} \subseteq Location
  BY DEF Location
<1>3. CASE Flip(p)
  <2>1. Goto(p, "scan_data") /\ pc[p] = "flip"
    BY <1>3 DEF Flip, At
  <2> QED
    BY <1>1, <1>2, <2>1, OnwardMoves DEF FlipData, WriteHeader, Release, EraseEntry, At
<1>4. CASE FlipData(p)
  <2>1. Goto(p, "write_header") /\ pc[p] = "flip_data"
    BY <1>4 DEF FlipData, At
  <2> QED
    BY <1>1, <1>2, <2>1, OnwardMoves DEF Flip, WriteHeader, Release, EraseEntry, At
<1>5. CASE WriteHeader(p)
  <2>1. Goto(p, "zeros") /\ pc[p] = "write_header"
    BY <1>5 DEF WriteHeader, At
  <2> QED
    BY <1>1, <1>2, <2>1, OnwardMoves DEF Flip, FlipData, Release, EraseEntry, At
<1>6. CASE Release(p)
  <2>1. Goto(p, "release_data") /\ pc[p] = "release"
    BY <1>6 DEF Release, At
  <2> QED
    BY <1>1, <1>2, <2>1, OnwardMoves DEF Flip, FlipData, WriteHeader, EraseEntry, At
<1>7. CASE EraseEntry(p)
  <2>1. Goto(p, "mark") /\ pc[p] = "erase"
    BY <1>7 DEF EraseEntry, At
  <2> QED
    BY <1>1, <1>2, <2>1, OnwardMoves DEF Flip, FlipData, WriteHeader, Release, At
<1> QED
  BY <1>3, <1>4, <1>5, <1>6, <1>7

\* free_map_allocate(): a call marks sectors that were free.
LEMMA FlipOwned ==
  ASSUME Sound, CountedNow, OwnedNow, Sound', clash' = {}, NEW p \in Proc, AloneInMap(p),
         Flip(p) \/ FlipData(p)
  PROVE  OwnedNow'
<1>1. KnowsSectors(p) /\ Claimed(p) \subseteq free_map
  BY DEF OwnedNow, CallsOwn
<1>2. UNCHANGED <<inode, dir>> /\ disk' = disk /\ pc[p] \in {"flip", "flip_data"}
  BY DEF Flip, FlipData, memoryVars, At
<1>3. \A q \in Proc : q # p => pc[q] \notin {"flip", "flip_data"}
  BY <1>2 DEF AloneInMap, InMap
<1>4. Claimed(p) = Claims(pc[p], call[p], disk)
  BY ClaimedIs
<1>5. CASE Flip(p)
  <2> DEFINE F == {call[p].sector}
             l == "scan_data"
  <2>1. Moves(p, l, call[p]) /\ pc[p] = "flip" /\ free_map' = free_map \cup F
    BY <1>5, OnwardIs DEF Flip
  <2>2. F \cap free_map = {}
    BY <1>1, <2>1 DEF KnowsSectors
  <2>3. Claims(l, call[p], disk') = F /\ Sure(l, call[p], free_map', disk', dir)
    BY DEF Claims, Sure
  <2>4. l \in Location \ {"header", "mark", "erase"}
    BY DEF Location
  <2> HIDE DEF F, l
  <2> QED
    BY <1>2, <1>3, <2>1, <2>2, <2>3, <2>4, OwnMove
<1>6. CASE FlipData(p)
  <2> DEFINE F == Extent(call[p].start, call[p].length)
             l == "write_header"
  <2>1. Moves(p, l, call[p]) /\ pc[p] = "flip_data" /\ free_map' = free_map \cup F
    BY <1>6, OnwardIs DEF FlipData
  <2>2. F \cap free_map = {}
    BY <1>1, <2>1 DEF KnowsSectors
  <2>3. Claimed(p) = {call[p].sector}
    BY <1>4, <2>1 DEF Claims
  <2>4. Claims(l, call[p], disk') = {call[p].sector} \cup F
    BY DEF Claims
  <2>5. Sure(l, call[p], free_map', disk', dir)
    BY <1>1, <2>2, <2>3 DEF Sure
  <2>6. l \in Location \ {"header", "mark", "erase"}
    BY DEF Location
  <2> HIDE DEF F, l
  <2> QED
    BY <1>1, <1>2, <1>3, <2>1, <2>2, <2>3, <2>4, <2>5, <2>6, OwnMove
<1> QED
  BY <1>5, <1>6

\* inode_create(): a call writes what it has marked.
LEMMA CreateOwned ==
  ASSUME Sound, CountedNow, OwnedNow, Sound', clash' = {}, NEW p \in Proc,
         WriteHeader(p) \/ WriteZeros(p)
  PROVE  OwnedNow'
<1> DEFINE x == call[p].sector
           F == Extent(call[p].start, call[p].length)
           h == [start |-> call[p].start, length |-> call[p].length]
<1>1. KnowsSectors(p) /\ Claimed(p) \subseteq free_map /\ TypeOK /\ Shapes
  BY DEF OwnedNow, CallsOwn, Sound
<1>2. UNCHANGED <<inode, dir>> /\ free_map' = free_map /\ pc[p] \in {"write_header", "zeros"}
  BY DEF WriteHeader, WriteZeros, memoryVars, At
<1>3. Claimed(p) = {x} \cup F
  BY <1>2, ClaimedIs DEF Claims
<1>4. x \notin F /\ x \in Sector /\ disk \in [Sector -> Data \cup DiskInode]
  BY <1>1, <1>2, CallAt DEF KnowsSectors, AtSector, AtNew, TypeOK
<1>5. CASE WriteHeader(p)
  <2> DEFINE l == "zeros"
  <2>1. Moves(p, l, call[p]) /\ disk' = [disk EXCEPT ![x] = h]
    BY <1>5, OnwardIs DEF WriteHeader
  <2>2. disk'[x] = h /\ \A s \in Sector : s # x => disk'[s] = disk[s]
    BY <1>4, <2>1
  <2>3. Claims(l, call[p], disk') = Claimed(p) /\ Sure(l, call[p], free_map', disk', dir)
    BY <1>3, <1>4, <2>2 DEF Claims, Sure
  <2>4. l \in Location \ {"header", "mark", "erase"} /\ {} \cap free_map = {}
        /\ Claims(l, call[p], disk') \subseteq Claimed(p) \cup {}
    BY <2>3 DEF Location
  <2>5. \A s \in Sector : s \notin Claimed(p) => disk'[s] = disk[s]
    BY <1>3, <2>2
  <2> HIDE DEF F, l
  <2> QED
    BY <1>1, <1>2, <2>1, <2>3, <2>4, <2>5, OwnMove
<1>6. CASE WriteZeros(p)
  <2> DEFINE l == "add"
  <2>1. PICK c \in Call : Moves(p, l, c) /\ c.sector = x
    BY <1>1, <1>6, WriteZerosMoves
  <2>2. /\ pc[p] = "zeros"
        /\ disk' = [s \in Sector |-> IF s \in F THEN Zero ELSE disk[s]]
    BY <1>6 DEF WriteZeros, At
  <2>3. disk'[x] = h /\ \A s \in Sector : s \notin F => disk'[s] = disk[s]
    BY <1>1, <1>4, <2>2 DEF KnowsSectors
  <2>4. h \in DiskInode /\ h.start = call[p].start /\ h.length = call[p].length
    BY <1>1, CallIs DEF DiskInode, TypeOK
  <2> HIDE DEF h
  <2>5. Claims(l, c, disk') = Claimed(p) /\ Sure(l, c, free_map', disk', dir)
    BY <1>3, <1>4, <2>1, <2>3, <2>4 DEF Claims, Sure
  <2>6. l \in Location \ {"header", "mark", "erase"} /\ {} \cap free_map = {}
        /\ Claims(l, c, disk') \subseteq Claimed(p) \cup {}
    BY <2>5 DEF Location
  <2>7. \A s \in Sector : s \notin Claimed(p) => disk'[s] = disk[s]
    BY <1>3, <2>3
  <2> HIDE DEF F, l
  <2> QED
    BY <1>1, <1>2, <2>1, <2>5, <2>6, <2>7, OwnMove
<1> QED
  BY <1>5, <1>6

\* free_map_release(): a call gives up sectors that it claims.
LEMMA ReleaseOwned ==
  ASSUME Sound, CountedNow, OwnedNow, Sound', clash' = {}, NEW p \in Proc,
         Release(p) \/ ReleaseData(p) \/ Undo(p)
  PROVE  OwnedNow'
<1>1. KnowsSectors(p) /\ Claimed(p) \subseteq free_map
  BY DEF OwnedNow, CallsOwn
<1>2. UNCHANGED <<inode, dir>> /\ disk' = disk
  BY DEF Release, ReleaseData, Undo, memoryVars
<1>3. Claimed(p) = Claims(pc[p], call[p], disk)
  BY ClaimedIs
<1>4. ASSUME NEW l \in Location \ {"header", "mark", "erase"}, NEW c, Moves(p, l, c),
             pc[p] # "header", NEW G, G \subseteq Claimed(p), free_map' = free_map \ G,
             Claims(l, c, disk) \subseteq Claimed(p) \ G, Sure(l, c, free_map', disk, dir)
      PROVE  OwnedNow'
  <2>1. {} \cap free_map = {} /\ Claims(l, c, disk') \subseteq Claimed(p) \cup {}
    BY <1>2, <1>4
  <2>2. Claims(l, c, disk') \subseteq free_map' /\ Sure(l, c, free_map', disk', dir)
    BY <1>1, <1>2, <1>4
  <2> QED
    BY <1>2, <1>4, <2>1, <2>2, OwnMove
<1>5. CASE Release(p)
  <2> DEFINE l == "release_data"
  <2>1. /\ Moves(p, l, call[p]) /\ pc[p] = "release" /\ l \in Location \ {"header", "mark", "erase"}
        /\ free_map' = free_map \ {call[p].sector}
    BY <1>5, OnwardIs DEF Release, Location
  <2>2. call[p].sector \notin Extent(call[p].start, call[p].length)
    BY <1>1, <2>1 DEF KnowsSectors
  <2>3. /\ Claimed(p) = {call[p].sector} \cup Extent(call[p].start, call[p].length)
        /\ Claims(l, call[p], disk) = Extent(call[p].start, call[p].length)
        /\ Sure(l, call[p], free_map', disk, dir)
    BY <1>3, <2>1 DEF Claims, Sure
  <2> HIDE DEF l
  <2> QED
    BY <1>4, <2>1, <2>2, <2>3
<1>6. CASE ReleaseData(p)
  <2>1. /\ Closed(p) /\ pc[p] = "release_data"
        /\ free_map' = free_map \ Extent(call[p].start, call[p].length)
    BY <1>6 DEF ReleaseData, At
  <2>2. PICK l \in {"leave", "exit", "user"}, c \in Call : Moves(p, l, c)
    BY <2>1, ClosedMoves
  <2>3. /\ Claimed(p) = Extent(call[p].start, call[p].length)
        /\ Claims(l, c, disk) = {} /\ Sure(l, c, free_map', disk, dir)
    BY <1>3, <2>1, <2>2 DEF Claims, Sure
  <2>4. l \in Location \ {"header", "mark", "erase"}
    BY <2>2 DEF Location
  <2> QED
    BY <1>4, <2>1, <2>2, <2>3, <2>4
<1>7. CASE Undo(p)
  <2> DEFINE l == "leave"
             c == Only("create")
  <2>1. /\ To(p, l, [NoCall EXCEPT !.op = "create"]) /\ "create" \in Op \ {"open"}
        /\ pc[p] = "undo" /\ free_map' = free_map \ {call[p].sector}
    BY <1>7 DEF Undo, At, Op
  <2>2. Moves(p, l, c) /\ c.op = "create" /\ l \in Location \ {"header", "mark", "erase"}
    BY <2>1, OnlyMoves DEF Location
  <2>3. Claimed(p) = {call[p].sector} /\ Claims(l, c, disk) = {} /\ Sure(l, c, free_map', disk, dir)
    BY <1>3, <2>1 DEF Claims, Sure
  <2> HIDE DEF l, c
  <2> QED
    BY <1>4, <2>1, <2>2, <2>3
<1> QED
  BY <1>5, <1>6, <1>7

\* A step of p that leaves the disk: what there is to show of inodes.
LEMMA InodesOwned ==
  ASSUME Sound, CountedNow, OwnedNow, Sound', clash' = {}, NEW p \in Proc,
         \A q \in Proc : q # p => pc'[q] = pc[q] /\ call'[q] = call[q],
         UNCHANGED <<free_map, disk, dir>>,
         FilesOwn', CallsOwn', HeadersRead', RemovedUnnamed', KnowsSectors(p)',
         \A q \in Proc : q # p /\ pc[q] = "mark" =>
           inode'[call[q].inode].sector = inode[call[q].inode].sector,
         pc'[p] \in {"header", "erase"} /\ call'[p].op = "remove" => Removing(p)
  PROVE  OwnedNow'
<1>1. OneRemoving /\ EntriesApart /\ \A q \in Proc : KnowsSectors(q)
  BY DEF OwnedNow
<1>2. ASSUME NEW q \in Proc, q # p
      PROVE  KnowsSectors(q)'
  <2>1. pc[q] = "mark" => ~Named(inode[call[q].inode].sector)'
    <3>1. SUFFICES ASSUME pc[q] = "mark" PROVE ~Named(inode[call[q].inode].sector)'
      OBVIOUS
    <3>2. ~Named(inode[call[q].inode].sector)
      BY <1>1, <3>1 DEF KnowsSectors
    <3>3. inode'[call'[q].inode].sector = inode[call[q].inode].sector
      BY <1>2, <3>1
    <3> QED
      BY <3>2, <3>3 DEF Named
  <2> QED
    BY <1>1, <1>2, <2>1, OtherKept
<1>3. \A q \in Proc : KnowsSectors(q)'
  BY <1>2
<1>4. EntriesApart'
  BY <1>1 DEF EntriesApart
<1>5. OneRemoving'
  BY <1>1, OneRemovingKept
<1> QED
  BY <1>3, <1>4, <1>5 DEF OwnedNow

\* Owners while files go and p claims no more than it did.
LEMMA OwnersStay ==
  ASSUME OwnedNow, NEW p \in Proc,
         \A q \in Proc : q # p => pc'[q] = pc[q] /\ call'[q] = call[q],
         UNCHANGED <<free_map, disk>>, Live' \subseteq Live, Claimed(p)' \subseteq Claimed(p)
  PROVE  FilesOwn' /\ CallsOwn'
<1>1. FilesOwn /\ CallsOwn
  BY DEF OwnedNow
<1>2. \A q \in Proc : q # p => Claimed(q)' = Claimed(q)
  BY ClaimedIs
<1>3. \A q \in Proc : Claimed(q)' \subseteq free_map'
  BY <1>1, <1>2 DEF CallsOwn
<1>4. \A s \in Live : Region(s) \subseteq free_map'
  BY <1>1 DEF FilesOwn
<1> DEFINE F == {}
<1>5. F \cap free_map = {} /\ Claimed(p)' \subseteq Claimed(p) \cup F
  OBVIOUS
<1>6. /\ \A s \in Live : disk'[s] = disk[s]
      /\ \A s \in Live : s \in Live' => Region(s) \subseteq free_map'
      /\ \A q \in Proc : q # p => Claimed(q)' \subseteq Claimed(q)
  BY <1>2, <1>4
<1> HIDE DEF F
<1> QED
  BY <1>1, <1>3, <1>5, <1>6, OwnersKept

\* The same inodes are in use, for the same sectors.
LEMMA SameLive ==
  ASSUME InUse' = InUse, dir' = dir, \A i \in InUse : inode'[i].sector = inode[i].sector
  PROVE  Live' = Live
<1>1. \A s \in Sector : Named(s)' = Named(s)
  BY DEF Named
<1>2. \A s \in Sector : (InodeOf(s))' = InodeOf(s)
  BY DEF InodeOf
<1> QED
  BY <1>1, <1>2 DEF Live

\* inode_open() reads the header of a file that has an owner: itself.
LEMMA ReadHeaderOwned ==
  ASSUME Sound, CountedNow, OwnedNow, Sound', clash' = {}, NEW p \in Proc, ReadHeader(p)
  PROVE  OwnedNow'
<1> DEFINE i == call[p].inode
           s == call[p].sector
           h == IF disk[s] \in DiskInode THEN disk[s] ELSE NoHeader
           l == WithInode(p)
<1>1. /\ TypeOK /\ Shapes /\ HeadersRead /\ RemovedUnnamed /\ FilesOwn
      /\ KnowsSectors(p) /\ KnowsInode(p)
  BY DEF Sound, OwnedNow, CountedNow
<1>2. /\ pc[p] = "header" /\ i \in InUse /\ i \in Inode /\ s \in Sector
      /\ UNCHANGED <<free_map, disk, dir>>
      /\ Sets(i, inode[i].sector, inode[i].open_cnt, inode[i].deny_write_cnt, inode[i].removed, h)
  BY <1>1, ReadHeaderSets DEF ReadHeader, diskVars, InUse
<1>3. inode[i].sector = s
  BY <1>1, <1>2 DEF KnowsInode
<1>4. disk[s] \in DiskInode /\ h = disk[s]
  <2>1. s \in Live
    BY <1>1, <1>2, <1>3, InodesLive
  <2> QED
    BY <1>1, <2>1 DEF FilesOwn
<1>5. /\ inode[i].open_cnt \in Int /\ inode[i].deny_write_cnt \in Int
      /\ inode[i].removed \in BOOLEAN /\ inode[i].sector \in Sector /\ h \in DiskInode
  BY <1>1, <1>2, <1>4, MemoryIs DEF InodeRecord
<1> HIDE DEF h, l
<1>6. /\ inode'[i].sector = inode[i].sector /\ inode'[i].removed = inode[i].removed
      /\ inode'[i].data = disk[s] /\ InUse' = InUse
      /\ \A j \in Inode : j # i => inode'[j] = inode[j]
  <2>1. InUse' = InUse \cup {i}
    BY <1>1, <1>2, <1>5, SetsIs
  <2> QED
    BY <1>1, <1>2, <1>4, <1>5, <2>1, SetsIs
<1>7. /\ Moves(p, l, call[p]) /\ l \in {"leave", "erase"}
      /\ (l = "erase" => call[p].op = "remove")
  BY <1>1, HeldMoves DEF WithInode, l
<1>8. /\ pc'[p] = l /\ call'[p] = call[p]
      /\ \A q \in Proc : q # p => pc'[q] = pc[q] /\ call'[q] = call[q]
  BY <1>1, <1>7, MovesIs
<1>9. \A j \in InUse : inode'[j].sector = inode[j].sector /\ inode'[j].removed = inode[j].removed
                       /\ j \in Inode
  BY <1>6 DEF InUse
<1>10. Live' = Live
  BY <1>2, <1>6, <1>9, SameLive
<1>11. Claimed(p)' = {}
  BY <1>7, <1>8, ClaimedIs DEF Claims
<1>12. FilesOwn' /\ CallsOwn'
  BY <1>2, <1>8, <1>10, <1>11, OwnersStay
<1>13. HeadersRead'
  <2>1. ASSUME NEW j \in InUse'
        PROVE  inode'[j].data = disk'[inode'[j].sector]
               \/ \E q \in Proc : pc'[q] = "header" /\ call'[q].inode = j
    <3>1. CASE j = i
      BY <1>2, <1>3, <1>6, <3>1
    <3>2. CASE j # i
      <4>1. j \in InUse /\ inode'[j] = inode[j]
        BY <1>6, <1>9, <3>2
      <4>2. CASE \E q \in Proc : pc[q] = "header" /\ call[q].inode = j
        <5>1. PICK q \in Proc : pc[q] = "header" /\ call[q].inode = j
          BY <4>2
        <5>2. q # p
          BY <3>2, <5>1
        <5> QED
          BY <1>8, <5>1, <5>2
      <4> QED
        BY <1>1, <1>2, <4>1, <4>2 DEF HeadersRead
    <3> QED
      BY <3>1, <3>2
  <2> QED
    BY <2>1 DEF HeadersRead
<1>14. RemovedUnnamed'
  <2>1. \A t \in Sector : Named(t)' = Named(t)
    BY <1>2 DEF Named
  <2>2. ASSUME NEW j \in InUse', inode'[j].removed PROVE ~Named(inode[j].sector)'
    <3>1. j \in InUse /\ inode[j].removed /\ inode'[j].sector = inode[j].sector
      BY <1>6, <1>9, <2>2
    <3>2. ~Named(inode[j].sector)
      BY <1>1, <3>1 DEF RemovedUnnamed
    <3> QED
      BY <1>2, <3>1, <3>2 DEF Named
  <2> QED
    BY <2>2 DEF RemovedUnnamed
<1>15. KnowsSectors(p)'
  <2>1. Sure(pc[p], call[p], free_map, disk, dir)
    BY <1>1, KnowsIs
  <2>2. Sure(l, call[p], free_map, disk, dir)
    BY <1>2, <1>7, <2>1 DEF Sure
  <2> QED
    BY <1>2, <1>7, <1>8, <2>2, KnowsIs
<1>16. \A q \in Proc : q # p /\ pc[q] = "mark" =>
         inode'[call[q].inode].sector = inode[call[q].inode].sector
  BY <1>9, MarkInUse
<1>17. pc'[p] \in {"header", "erase"} /\ call'[p].op = "remove" => Removing(p)
  BY <1>2, <1>8 DEF Removing
<1> QED
  BY <1>2, <1>8, <1>12, <1>13, <1>14, <1>15, <1>16, <1>17, InodesOwned

\* inode_remove(): the file has no name any more.
LEMMA InodeRemoveOwned ==
  ASSUME Sound, CountedNow, OwnedNow, Sound', clash' = {}, NEW p \in Proc, InodeRemove(p)
  PROVE  OwnedNow'
<1> DEFINE i == call[p].inode
           gone == TRUE
<1>1. TypeOK /\ Shapes /\ HeadersRead /\ RemovedUnnamed /\ KnowsSectors(p)
  BY DEF Sound, OwnedNow
<1>2. /\ pc[p] = "mark" /\ i \in InUse /\ i \in Inode /\ UNCHANGED <<free_map, disk, dir>>
      /\ Sets(i, inode[i].sector, inode[i].open_cnt, inode[i].deny_write_cnt, gone, inode[i].data)
  BY <1>1, InodeRemoveSets DEF InodeRemove, diskVars, InUse
<1>3. /\ inode[i].open_cnt \in Int /\ inode[i].deny_write_cnt \in Int /\ gone \in BOOLEAN
      /\ inode[i].sector \in Sector /\ inode[i].data \in DiskInode
  BY <1>1, <1>2, MemoryIs DEF InodeRecord
<1> HIDE DEF gone
<1>4. /\ inode'[i].sector = inode[i].sector /\ inode'[i].data = inode[i].data
      /\ InUse' = InUse \cup {i} /\ \A j \in Inode : j # i => inode'[j] = inode[j]
  BY <1>1, <1>2, <1>3, SetsIs
<1>5. InUse' = InUse /\ InUse \subseteq Inode
  BY <1>2, <1>4 DEF InUse
<1>6. \A j \in InUse : inode'[j].sector = inode[j].sector /\ inode'[j].data = inode[j].data
  BY <1>4, <1>5
<1>7. PICK c \in Call : Moves(p, "drop", c) /\ c.inode = i
  BY <1>1, InodeRemoveMoves
<1>8. /\ pc'[p] = "drop" /\ call'[p] = c
      /\ \A q \in Proc : q # p => pc'[q] = pc[q] /\ call'[q] = call[q]
  BY <1>1, <1>7, MovesIs
<1>9. Live' = Live
  BY <1>2, <1>5, <1>6, SameLive
<1>10. Claimed(p)' = {} /\ Sure("drop", c, free_map, disk, dir)
  BY <1>8, ClaimedIs DEF Claims, Sure
<1>11. FilesOwn' /\ CallsOwn'
  BY <1>2, <1>8, <1>9, <1>10, OwnersStay
<1>12. HeadersRead'
  <2>1. ASSUME NEW j \in InUse'
        PROVE  inode'[j].data = disk'[inode'[j].sector]
               \/ \E q \in Proc : pc'[q] = "header" /\ call'[q].inode = j
    <3>1. j \in InUse /\ inode'[j].sector = inode[j].sector /\ inode'[j].data = inode[j].data
      BY <1>5, <1>6
    <3>2. CASE \E q \in Proc : pc[q] = "header" /\ call[q].inode = j
      BY <1>2, <1>8, <3>2
    <3> QED
      BY <1>1, <1>2, <3>1, <3>2 DEF HeadersRead
  <2> QED
    BY <2>1 DEF HeadersRead
<1>13. RemovedUnnamed'
  <2>1. ASSUME NEW j \in InUse', inode'[j].removed PROVE ~Named(inode[j].sector)'
    <3>1. j \in InUse /\ inode'[j].sector = inode[j].sector
      BY <1>5, <1>6
    <3>2. ~Named(inode[j].sector)
      <4>1. CASE j = i
        BY <1>1, <1>2, <4>1 DEF KnowsSectors
      <4>2. CASE j # i
        <5>1. inode[j].removed
          BY <1>4, <1>5, <2>1, <3>1, <4>2
        <5> QED
          BY <1>1, <3>1, <5>1 DEF RemovedUnnamed
      <4> QED
        BY <4>1, <4>2
    <3> QED
      BY <1>2, <3>1, <3>2 DEF Named
  <2> QED
    BY <2>1 DEF RemovedUnnamed
<1>14. KnowsSectors(p)'
  BY <1>2, <1>8, <1>10, KnowsIs
<1>15. \A q \in Proc : q # p /\ pc[q] = "mark" =>
         inode'[call[q].inode].sector = inode[call[q].inode].sector
  BY <1>6, MarkInUse
<1> QED
  BY <1>2, <1>8, <1>11, <1>12, <1>13, <1>14, <1>15, InodesOwned

\* A new struct inode is for a file that has a name.
LEMMA InsertOwned ==
  ASSUME Sound, CountedNow, OwnedNow, Sound', clash' = {}, NEW p \in Proc, Insert(p)
  PROVE  OwnedNow'
<1> DEFINE s == call[p].sector
           old == FALSE
<1>1. TypeOK /\ Shapes /\ HeadersRead /\ RemovedUnnamed /\ KnowsSectors(p)
  BY DEF Sound, OwnedNow
<1>2. pc[p] = "insert" /\ s \in Sector /\ UNCHANGED <<free_map, disk, dir>>
  BY <1>1, InsertSets DEF diskVars
<1>3. CASE Moves(p, "leave", call[p]) /\ UNCHANGED <<inode, open_inodes>>
  BY <1>2, <1>3, MemorySame, PlainMove DEF PlainAt
<1>4. ASSUME NEW i \in FreeInodes, NEW c \in Call, Moves(p, "header", c), c.op = call[p].op,
             c.inode = i, c.sector = s, c.entry = call[p].entry, Sets(i, s, 1, 0, old, NoHeader)
      PROVE  OwnedNow'
  <2>1. i \in Inode /\ i \notin InUse /\ InUse \subseteq Inode
    BY DEF FreeInodes, InUse
  <2>2. NoHeader \in DiskInode /\ 0 \in Int /\ 1 \in Int /\ old \in BOOLEAN /\ ~old
    BY HeaderIs DEF NoHeader
  <2> HIDE DEF old
  <2>3. /\ inode'[i].sector = s /\ ~inode'[i].removed /\ InUse' = InUse \cup {i}
        /\ \A j \in Inode : j # i => inode'[j] = inode[j]
    BY <1>1, <1>2, <1>4, <2>1, <2>2, SetsIs
  <2>4. \A j \in InUse : inode'[j] = inode[j] /\ j # i
    BY <2>1, <2>3
  <2>5. /\ pc'[p] = "header" /\ call'[p] = c
        /\ \A q \in Proc : q # p => pc'[q] = pc[q] /\ call'[q] = call[q]
    BY <1>1, <1>4, MovesIs
  <2>6. /\ call[p].entry \in 1 .. Slots /\ dir[call[p].entry] # None
        /\ dir[call[p].entry].sector = s
    BY <1>1, <1>2 DEF KnowsSectors, AtEntry, FreeSlots
  <2>7. Live' = Live
    <3>1. \A t \in Sector : Named(t)' = Named(t)
      BY <1>2 DEF Named
    <3>2. Named(s)
      BY <2>6 DEF Named
    <3>3. \A t \in Sector : t # s => ((InodeOf(t))' = {} <=> InodeOf(t) = {})
      BY <2>3, <2>4 DEF InodeOf
    <3> QED
      BY <1>2, <3>1, <3>2, <3>3 DEF Live
  <2>8. Claimed(p)' = {} /\ Sure("header", c, free_map, disk, dir)
    BY <1>4, <2>5, <2>6, ClaimedIs DEF Claims, Sure
  <2>9. FilesOwn' /\ CallsOwn'
    BY <1>2, <2>5, <2>7, <2>8, OwnersStay
  <2>10. HeadersRead'
    <3>1. ASSUME NEW j \in InUse'
          PROVE  inode'[j].data = disk'[inode'[j].sector]
                 \/ \E q \in Proc : pc'[q] = "header" /\ call'[q].inode = j
      <4>1. CASE j = i
        BY <1>4, <2>5, <4>1
      <4>2. CASE j # i
        <5>1. j \in InUse /\ inode'[j] = inode[j]
          BY <2>3, <2>4, <4>2
        <5>2. CASE \E q \in Proc : pc[q] = "header" /\ call[q].inode = j
          BY <1>2, <2>5, <5>2
        <5> QED
          BY <1>1, <1>2, <5>1, <5>2 DEF HeadersRead
      <4> QED
        BY <4>1, <4>2
    <3> QED
      BY <3>1 DEF HeadersRead
  <2>11. RemovedUnnamed'
    <3>1. ASSUME NEW j \in InUse', inode'[j].removed PROVE ~Named(inode[j].sector)'
      <4>1. j \in InUse /\ inode'[j] = inode[j]
        BY <2>3, <2>4, <3>1
      <4>2. ~Named(inode[j].sector)
        BY <1>1, <3>1, <4>1 DEF RemovedUnnamed
      <4> QED
        BY <1>2, <4>1, <4>2 DEF Named
    <3> QED
      BY <3>1 DEF RemovedUnnamed
  <2>12. KnowsSectors(p)'
    BY <1>2, <2>5, <2>8, KnowsIs
  <2>13. \A q \in Proc : q # p /\ pc[q] = "mark" =>
           inode'[call[q].inode].sector = inode[call[q].inode].sector
    BY <2>4, MarkInUse
  <2>14. pc'[p] \in {"header", "erase"} /\ call'[p].op = "remove" => Removing(p)
    BY <1>2, <1>4, <2>5 DEF Removing, Finding
  <2> QED
    BY <1>2, <2>5, <2>9, <2>10, <2>11, <2>12, <2>13, <2>14, InodesOwned
<1> QED
  BY <1>1, <1>3, <1>4, InsertSets

\* An inode leaves the list: nobody has it, and a removed file's sectors go to
\* the call that is to release them.
LEMMA UnlistOwned ==
  ASSUME Sound, CountedNow, OwnedNow, Sound', clash' = {}, NEW p \in Proc, Unlist(p)
  PROVE  OwnedNow'
<1> DEFINE i == call[p].inode
<1>0. PICK s : s = inode[i].sector
  OBVIOUS
<1>1. /\ TypeOK /\ Shapes /\ HeadersRead /\ RemovedUnnamed /\ FilesOwn /\ CallsOwn
      /\ Listed /\ CountsMatch /\ KnowsInode(p)
  BY DEF Sound, OwnedNow, CountedNow
<1>2. /\ pc[p] = "unlist" /\ i \in InUse /\ UNCHANGED <<free_map, disk, dir>>
      /\ InUse' = InUse \ {i} /\ \A j \in Inode : j # i => inode'[j] = inode[j]
  BY <1>1, UnlistClears DEF diskVars
<1>3. \A q \in Proc : Held(q) # i
  BY <1>1, <1>2, NoneCount DEF KnowsInode
<1>4. \A j \in InUse' : j \in InUse /\ j # i /\ inode'[j] = inode[j]
  BY <1>2 DEF InUse
<1>5. PICK l \in {"leave", "exit", "user", "release"}, c \in Call : Moves(p, l, c)
  BY <1>1, UnlistMoves, ClosedMoves
<1>6. /\ pc'[p] = l /\ call'[p] = c
      /\ \A q \in Proc : q # p => pc'[q] = pc[q] /\ call'[q] = call[q]
  BY <1>1, <1>5, MovesIs
<1>7. \A t \in Sector : Named(t)' = Named(t)
  BY <1>2 DEF Named
<1>8. Live' \subseteq Live
  <2>1. \A t \in Sector : (InodeOf(t))' \subseteq InodeOf(t)
    BY <1>4 DEF InodeOf
  <2> QED
    BY <1>7, <2>1 DEF Live
<1>9. HeadersRead'
  <2>1. ASSUME NEW j \in InUse'
        PROVE  inode'[j].data = disk'[inode'[j].sector]
               \/ \E q \in Proc : pc'[q] = "header" /\ call'[q].inode = j
    <3>1. j \in InUse /\ inode'[j] = inode[j]
      BY <1>4
    <3>2. CASE \E q \in Proc : pc[q] = "header" /\ call[q].inode = j
      BY <1>2, <1>6, <3>2
    <3> QED
      BY <1>1, <1>2, <3>1, <3>2 DEF HeadersRead
  <2> QED
    BY <2>1 DEF HeadersRead
<1>10. RemovedUnnamed'
  <2>1. ASSUME NEW j \in InUse', inode'[j].removed PROVE ~Named(inode[j].sector)'
    <3>1. j \in InUse /\ inode'[j] = inode[j]
      BY <1>4
    <3>2. ~Named(inode[j].sector)
      BY <1>1, <2>1, <3>1 DEF RemovedUnnamed
    <3> QED
      BY <1>2, <3>1, <3>2 DEF Named
  <2> QED
    BY <2>1 DEF RemovedUnnamed
<1>11. \A q \in Proc : q # p /\ pc[q] = "mark" =>
         inode'[call[q].inode].sector = inode[call[q].inode].sector
  BY <1>2, <1>3, MarkInUse DEF InUse
<1>12. pc'[p] \notin {"header", "erase", "mark"}
  BY <1>6
<1>13. CASE Closed(p) /\ ~inode[i].removed
  <2>1. pc'[p] \in {"leave", "exit", "user"}
    BY <1>1, <1>13, ClosedMoves, MovesIs
  <2>2. Claimed(p)' = {} /\ Sure(pc'[p], call'[p], free_map', disk', dir')
    BY <2>1, ClaimedIs DEF Claims, Sure
  <2>3. FilesOwn' /\ CallsOwn'
    BY <1>2, <1>6, <1>8, <2>2, OwnersStay
  <2>4. KnowsSectors(p)'
    BY <1>12, <2>2, KnowsIs
  <2> QED
    BY <1>2, <1>6, <1>9, <1>10, <1>11, <1>12, <2>3, <2>4, InodesOwned
<1>14. ASSUME NEW d \in Call, Moves(p, "release", d), inode[i].removed, d.sector = s,
              d.start = inode[i].data.start, d.length = inode[i].data.length
       PROVE  OwnedNow'
  <2>1. pc'[p] = "release" /\ call'[p] = d
    BY <1>1, <1>14, MovesIs
  <2>2. s \in Live /\ s \in Sector
    BY <1>1, <1>2, <1>0, InodesLive DEF Live
  <2>3. inode[i].data = disk[s]
    <3>1. \A q \in Proc : ~(pc[q] = "header" /\ call[q].inode = i)
      BY <1>3 DEF Held, Holding
    <3> QED
      BY <1>1, <1>2, <1>0, <3>1 DEF HeadersRead
  <2>4. Claimed(p)' = Region(s)
    BY <1>14, <2>1, <2>3, ClaimedIs DEF Claims, Region, FileData
  <2>5. s \notin Live'
    <3>1. ~Named(s)'
      BY <1>1, <1>2, <1>7, <1>14, <1>0, <2>2 DEF RemovedUnnamed
    <3>2. (InodeOf(s))' = {}
      BY <1>1, <1>2, <1>4, <1>0 DEF InodeOf, Listed
    <3> QED
      BY <3>1, <3>2 DEF Live
  <2>6. /\ disk[s] \in DiskInode /\ s \notin FileData(s) /\ Region(s) \subseteq free_map
        /\ \A t \in Live \ {s} : Region(s) \cap Region(t) = {}
        /\ \A q \in Proc : Region(s) \cap Claimed(q) = {}
    BY <1>1, <2>2 DEF FilesOwn
  <2>7. \A q \in Proc : q # p => Claimed(q)' = Claimed(q)
    BY <1>2, <1>6, ClaimedIs
  <2>8. \A t \in Live : Region(t)' = Region(t) /\ FileData(t)' = FileData(t) /\ disk'[t] = disk[t]
    BY <1>2 DEF Region, FileData
  <2>9. FilesOwn'
    <3>1. ASSUME NEW t \in Live'
          PROVE  /\ disk'[t] \in DiskInode /\ t \notin FileData(t)'
                 /\ Region(t)' \subseteq free_map'
                 /\ \A u \in Live' \ {t} : Region(t)' \cap Region(u)' = {}
                 /\ \A q \in Proc : Region(t)' \cap Claimed(q)' = {}
      <4>1. t \in Live /\ t # s
        BY <1>8, <2>5
      <4>2. /\ disk[t] \in DiskInode /\ t \notin FileData(t) /\ Region(t) \subseteq free_map
            /\ \A u \in Live \ {t} : Region(t) \cap Region(u) = {}
            /\ \A q \in Proc : Region(t) \cap Claimed(q) = {}
        BY <1>1, <4>1 DEF FilesOwn
      <4>3. \A u \in Live' \ {t} : Region(t)' \cap Region(u)' = {}
        BY <1>8, <2>8, <4>1, <4>2
      <4>4. Region(t)' \cap Claimed(p)' = {}
        BY <2>2, <2>4, <2>8, <4>1, <4>2
      <4>5. \A q \in Proc : Region(t)' \cap Claimed(q)' = {}
        BY <2>7, <2>8, <4>1, <4>2, <4>4
      <4> QED
        BY <1>2, <2>8, <4>1, <4>2, <4>3, <4>5
    <3> QED
      BY <3>1 DEF FilesOwn
  <2>10. CallsOwn'
    <3>1. \A q \in Proc : Claimed(q)' \subseteq free_map'
      BY <1>1, <1>2, <2>4, <2>6, <2>7 DEF CallsOwn
    <3>2. ASSUME NEW q \in Proc, NEW r \in Proc \ {q}
          PROVE  Claimed(q)' \cap Claimed(r)' = {}
      <4>1. CASE q = p
        BY <2>4, <2>6, <2>7, <3>2, <4>1
      <4>2. CASE r = p
        BY <2>4, <2>6, <2>7, <3>2, <4>2
      <4>3. CASE q # p /\ r # p
        BY <1>1, <2>7, <3>2, <4>3 DEF CallsOwn
      <4> QED
        BY <4>1, <4>2, <4>3
    <3> QED
      BY <3>1, <3>2 DEF CallsOwn
  <2>11. KnowsSectors(p)'
    <3>1. d.sector \notin Extent(d.start, d.length)
      BY <1>14, <2>3, <2>6 DEF FileData
    <3>2. Sure("release", d, free_map', disk', dir')
      BY <3>1 DEF Sure
    <3> QED
      BY <2>1, <3>2, KnowsIs
  <2> QED
    BY <1>2, <1>6, <1>9, <1>10, <1>11, <1>12, <2>9, <2>10, <2>11, InodesOwned
<1> QED
  BY <1>1, <1>13, <1>14, <1>0, UnlistMoves

\* dir_add() writes an entry: the file of the call has a name.
LEMMA WriteEntryOwned ==
  ASSUME Sound, CountedNow, OwnedNow, Sound', clash' = {}, NEW p \in Proc, AloneInDirectory(p),
         WriteEntry(p)
  PROVE  OwnedNow'
<1>1. /\ TypeOK /\ Shapes /\ FilesOwn /\ CallsOwn /\ HeadersRead /\ OneRemoving
      /\ EntriesApart /\ RemovedUnnamed /\ \A q \in Proc : KnowsSectors(q)
  BY DEF Sound, OwnedNow
<1>2. PICK e, x : e = call[p].entry /\ x = call[p].sector
  OBVIOUS
<1>3. /\ pc[p] = "entry" /\ free_map' = free_map /\ disk' = disk /\ inode' = inode
      /\ To(p, "leave", [NoCall EXCEPT !.op = "create"]) /\ "create" \in Op \ {"open"}
      /\ dir' = [dir EXCEPT ![e] = [name |-> call[p].name, sector |-> x]]
  BY <1>2 DEF WriteEntry, At, memoryVars, Op
<1>4. /\ x \in Sector /\ call[p].name \in Name /\ dir \in [1 .. Slots -> Entry \cup {None}]
  BY <1>1, <1>2, <1>3, CallAt DEF AtSector, AtNew, TypeOK
<1>5. /\ disk[x] \in DiskInode /\ x \notin FileData(x) /\ e \in 1 .. Slots /\ dir[e] = None
  BY <1>1, <1>2, <1>3 DEF KnowsSectors, Adding, FreeSlots
<1>6. Claimed(p) = Region(x)
  BY <1>2, <1>3, ClaimedIs DEF Claims, Region, FileData
<1>7. dir'[e] # None /\ dir'[e].sector = x /\ \A d \in 1 .. Slots : d # e => dir'[d] = dir[d]
  <2>1. [name |-> call[p].name, sector |-> x] \in Entry
    BY <1>4 DEF Entry
  <2> QED
    BY <1>3, <1>4, <1>5, <2>1, NoneIs
<1>8. /\ pc'[p] = "leave"
      /\ \A q \in Proc : q # p => pc'[q] = pc[q] /\ call'[q] = call[q]
  <2>1. Moves(p, "leave", Only("create"))
    BY <1>3, OnlyMoves
  <2> QED
    BY <1>1, <2>1, MovesIs
<1>9. \A t : t # x => (Named(t)' <=> Named(t))
  BY <1>5, <1>7 DEF Named
<1>10. Live' = Live \cup {x}
  <2>1. Named(x)'
    BY <1>5, <1>7 DEF Named
  <2>2. \A t : (InodeOf(t))' = InodeOf(t)
    BY <1>3 DEF InodeOf, InUse
  <2> QED
    BY <1>4, <1>9, <2>1, <2>2 DEF Live
<1>11. /\ Region(x) \subseteq free_map
       /\ \A q \in Proc : q # p => Region(x) \cap Claimed(q) = {}
       /\ \A s \in Live : Region(s) \cap Region(x) = {}
  BY <1>1, <1>6 DEF FilesOwn, CallsOwn
<1>12. x \notin Live
  <2>1. x \in Region(x)
    BY DEF Region
  <2> QED
    BY <1>11, <2>1
<1>13. Claimed(p)' = {} /\ Sure(pc'[p], call'[p], free_map', disk', dir')
  BY <1>8, ClaimedIs DEF Claims, Sure
<1>14. \A s : Region(s)' = Region(s) /\ FileData(s)' = FileData(s)
  BY <1>3 DEF Region, FileData
<1>15. \A q \in Proc : pc[q] = "mark" => inode[call[q].inode].sector # x
  BY <1>1, <1>12, InodesLive, MarkInUse
<1>16. ASSUME NEW q \in Proc, q # p
       PROVE  KnowsSectors(q)' /\ Claimed(q)' = Claimed(q)
  <2>1. pc[q] # "entry"
    BY <1>3, <1>16 DEF AloneInDirectory, Adding
  <2>2. AtEntry(q) => dir'[call[q].entry] = dir[call[q].entry]
    BY <1>1, <1>5, <1>7 DEF KnowsSectors, FreeSlots
  <2>3. pc[q] = "mark" => ~Named(inode[call[q].inode].sector)'
    <3>1. SUFFICES ASSUME pc[q] = "mark" PROVE ~Named(inode[call[q].inode].sector)'
      OBVIOUS
    <3>2. PICK t : t = inode[call[q].inode].sector
      OBVIOUS
    <3>3. t # x /\ inode'[call'[q].inode].sector = t /\ ~Named(t)
      BY <1>1, <1>3, <1>8, <1>15, <1>16, <3>1, <3>2 DEF KnowsSectors
    <3> QED
      BY <1>9, <3>3
  <2> QED
    BY <1>1, <1>3, <1>8, <1>16, <2>1, <2>2, <2>3, OtherKept
<1>17. \A q \in Proc : KnowsSectors(q)'
  <2>1. KnowsSectors(p)'
    BY <1>8, <1>13, KnowsIs
  <2> QED
    BY <1>16, <2>1
<1>18. FilesOwn'
  <2>1. ASSUME NEW s \in Live'
        PROVE  /\ disk'[s] \in DiskInode /\ s \notin FileData(s)'
               /\ Region(s)' \subseteq free_map'
               /\ \A t \in Live' \ {s} : Region(s)' \cap Region(t)' = {}
               /\ \A q \in Proc : Region(s)' \cap Claimed(q)' = {}
    <3>1. CASE s = x
      <4>1. \A t \in Live' \ {s} : Region(s)' \cap Region(t)' = {}
        BY <1>10, <1>11, <1>14, <3>1
      <4>2. \A q \in Proc : Region(s)' \cap Claimed(q)' = {}
        BY <1>11, <1>13, <1>14, <1>16, <3>1
      <4> QED
        BY <1>3, <1>5, <1>11, <1>14, <3>1, <4>1, <4>2
    <3>2. CASE s # x
      <4>1. s \in Live
        BY <1>10, <3>2
      <4>2. /\ disk[s] \in DiskInode /\ s \notin FileData(s) /\ Region(s) \subseteq free_map
            /\ \A t \in Live \ {s} : Region(s) \cap Region(t) = {}
            /\ \A q \in Proc : Region(s) \cap Claimed(q) = {}
        BY <1>1, <4>1 DEF FilesOwn
      <4>3. \A t \in Live' \ {s} : Region(s)' \cap Region(t)' = {}
        BY <1>10, <1>11, <1>14, <4>1, <4>2
      <4>4. \A q \in Proc : Region(s)' \cap Claimed(q)' = {}
        BY <1>13, <1>14, <1>16, <4>2
      <4> QED
        BY <1>3, <1>14, <4>2, <4>3, <4>4
    <3> QED
      BY <3>1, <3>2
  <2> QED
    BY <2>1 DEF FilesOwn
<1>19. CallsOwn'
  <2>1. \A q \in Proc : Claimed(q)' \subseteq Claimed(q)
    BY <1>13, <1>16
  <2> QED
    BY <1>1, <1>3, <2>1 DEF CallsOwn
<1>20. HeadersRead'
  <2>1. InodesSame
    BY <1>3, MemorySame
  <2> QED
    BY <1>1, <1>3, <1>8, <2>1, HeadersKept
<1>21. OneRemoving'
  BY <1>1, <1>8, OneRemovingKept
<1>22. EntriesApart'
  <2>1. \A d \in 1 .. Slots : d # e /\ dir'[d] # None => dir'[d].sector # x
    BY <1>1, <1>7, <1>12, InodesLive
  <2> QED
    BY <1>1, <1>7, <2>1 DEF EntriesApart
<1>23. RemovedUnnamed'
  <2>1. InUse' = InUse
    BY <1>3 DEF InUse
  <2>2. ASSUME NEW i \in InUse, inode[i].removed PROVE ~Named(inode[i].sector)'
    <3>1. PICK t : t = inode[i].sector
      OBVIOUS
    <3>2. t # x /\ ~Named(t) /\ inode'[i].sector = t
      BY <1>1, <1>3, <1>12, <2>2, <3>1, InodesLive DEF RemovedUnnamed
    <3> QED
      BY <1>9, <3>2
  <2> QED
    BY <1>3, <2>1, <2>2 DEF RemovedUnnamed
<1> QED
  BY <1>17, <1>18, <1>19, <1>20, <1>21, <1>22, <1>23 DEF OwnedNow

\* dir_remove() erases the entry that the call has found: no other has it.
LEMMA EraseEntryOwned ==
  ASSUME Sound, CountedNow, OwnedNow, Sound', clash' = {}, NEW p \in Proc, AloneInDirectory(p),
         EraseEntry(p)
  PROVE  OwnedNow'
<1>1. /\ TypeOK /\ Shapes /\ HeadersRead /\ OneRemoving /\ EntriesApart /\ RemovedUnnamed
      /\ (\A q \in Proc : KnowsSectors(q)) /\ KnowsInode(p)
  BY DEF Sound, OwnedNow, CountedNow
<1>2. PICK e, x : e = call[p].entry /\ x = call[p].sector
  OBVIOUS
<1>3. /\ pc[p] = "erase" /\ free_map' = free_map /\ disk' = disk /\ inode' = inode
      /\ dir' = [dir EXCEPT ![e] = None]
  BY <1>2 DEF EraseEntry, At, memoryVars
<1>4. call[p].op = "remove" /\ Removing(p)
  BY <1>1, <1>3 DEF Shapes, Shape, Removing
<1>5. /\ e \in 1 .. Slots /\ dir[e] # None /\ dir[e].sector = x
      /\ inode[call[p].inode].sector = x
  BY <1>1, <1>2, <1>3, <1>4 DEF KnowsSectors, AtEntry, FreeSlots, KnowsInode
<1>6. dir'[e] = None /\ \A d \in 1 .. Slots : d # e => dir'[d] = dir[d]
  BY <1>1, <1>3, <1>5 DEF TypeOK
<1>7. /\ pc'[p] = "mark" /\ call'[p] = call[p]
      /\ \A q \in Proc : q # p => pc'[q] = pc[q] /\ call'[q] = call[q]
  BY <1>1, OnwardIs, MovesIs
<1>8. (\A t : Named(t)' => Named(t)) /\ ~Named(x)'
  BY <1>1, <1>5, <1>6 DEF Named, EntriesApart
<1>9. Live' \subseteq Live
  <2>1. \A t : (InodeOf(t))' = InodeOf(t)
    BY <1>3 DEF InodeOf, InUse
  <2> QED
    BY <1>8, <2>1 DEF Live
<1>10. Claimed(p)' = {} /\ Sure(pc'[p], call'[p], free_map', disk', dir')
  BY <1>7, ClaimedIs DEF Claims, Sure
<1>11. FilesOwn' /\ CallsOwn'
  BY <1>3, <1>7, <1>9, <1>10, OwnersStay
<1>12. ASSUME NEW q \in Proc, q # p
       PROVE  KnowsSectors(q)'
  <2>1. ~Finding(q) /\ ~Adding(q) /\ ~Removing(q)
    BY <1>1, <1>4, <1>12 DEF AloneInDirectory, OneRemoving
  <2>2. pc[q] # "entry" /\ ~AtEntry(q)
    BY <2>1 DEF Finding, Adding, Removing, AtEntry
  <2>3. pc[q] = "mark" => ~Named(inode[call[q].inode].sector)'
    <3>1. SUFFICES ASSUME pc[q] = "mark" PROVE ~Named(inode[call[q].inode].sector)'
      OBVIOUS
    <3>2. PICK t : t = inode[call[q].inode].sector
      OBVIOUS
    <3>3. inode'[call'[q].inode].sector = t /\ ~Named(t)
      BY <1>1, <1>3, <1>7, <1>12, <3>1, <3>2 DEF KnowsSectors
    <3> QED
      BY <1>8, <3>3
  <2> QED
    BY <1>1, <1>3, <1>7, <1>12, <2>2, <2>3, OtherKept
<1>13. KnowsSectors(p)'
  <2>1. inode'[call'[p].inode].sector = x
    BY <1>3, <1>5, <1>7
  <2>2. ~Named(inode[call[p].inode].sector)'
    BY <1>8, <2>1
  <2> QED
    BY <1>10, <2>2, KnowsIs
<1>14. HeadersRead'
  <2>1. InodesSame
    BY <1>3, MemorySame
  <2> QED
    BY <1>1, <1>3, <1>7, <2>1, HeadersKept
<1>15. OneRemoving'
  BY <1>1, <1>7, OneRemovingKept
<1>16. EntriesApart'
  BY <1>1, <1>6 DEF EntriesApart
<1>17. RemovedUnnamed'
  <2>1. InUse' = InUse
    BY <1>3 DEF InUse
  <2>2. ASSUME NEW i \in InUse, inode[i].removed PROVE ~Named(inode[i].sector)'
    <3>1. PICK t : t = inode[i].sector
      OBVIOUS
    <3>2. ~Named(t) /\ inode'[i].sector = t
      BY <1>1, <1>3, <2>2, <3>1 DEF RemovedUnnamed
    <3> QED
      BY <1>8, <3>2
  <2> QED
    BY <1>3, <2>1, <2>2 DEF RemovedUnnamed
<1>18. \A q \in Proc : KnowsSectors(q)'
  BY <1>12, <1>13
<1> QED
  BY <1>11, <1>14, <1>15, <1>16, <1>17, <1>18 DEF OwnedNow

\* An inode that a file and a call have counts two.
LEMMA BothCount ==
  ASSUME TypeOK, CountsMatch, NEW i \in InUse, NEW f \in Opened, file[f].inode = i,
         NEW q \in Proc, Held(q) = i
  PROVE  inode[i].open_cnt >= 2
<1>1. i \in Inode /\ inode[i].open_cnt = Cardinality(Users(i)) + Cardinality(Holders(i))
  BY DEF InUse, CountsMatch
<1>2. /\ IsFiniteSet(Users(i)) /\ IsFiniteSet(Holders(i))
      /\ Cardinality(Users(i)) \in Nat /\ Cardinality(Holders(i)) \in Nat
  BY <1>1, WhoFinite
<1>3. q \in Holders(i) /\ f \in Users(i)
  BY <1>1, WhoIs DEF Users
<1>4. Cardinality(Users(i)) # 0 /\ Cardinality(Holders(i)) # 0
  BY <1>2, <1>3, FS_EmptySet
<1> QED
  BY <1>1, <1>2, <1>4

\* write() changes a block of a file that is open, and nothing else.
LEMMA BlockOwned ==
  ASSUME Sound, CountedNow, OwnedNow, Sound', clash' = {}, NEW p \in Proc, pc[p] = "user",
         UNCHANGED <<free_map, dir, inode, pc, call>>, NEW f \in Opened, NEW v,
         file[f].pos < inode[file[f].inode].data.length,
         disk' = [disk EXCEPT ![inode[file[f].inode].data.start + file[f].pos] = v]
  PROVE  OwnedNow'
<1>1. /\ TypeOK /\ Shapes /\ FilesOwn /\ CallsOwn /\ HeadersRead
      /\ CountsMatch /\ \A q \in Proc : KnowsInode(q)
  BY DEF Sound, OwnedNow, CountedNow
<1>2. PICK i, s, b : /\ i = file[f].inode /\ s = inode[i].sector
                     /\ b = inode[i].data.start + file[f].pos
  OBVIOUS
<1>3. i \in InUse /\ i # None
  BY <1>2, NoneIs DEF CountedNow, InUse
<1>4. s \in Live /\ disk' = [disk EXCEPT ![b] = v]
  BY <1>1, <1>2, <1>3, InodesLive
<1>5. inode[i].data = disk[s]
  <2>1. \A q \in Proc : ~(pc[q] = "header" /\ call[q].inode = i)
    <3>1. SUFFICES ASSUME NEW q \in Proc, pc[q] = "header", call[q].inode = i PROVE FALSE
      OBVIOUS
    <3>2. Held(q) = i /\ inode[i].open_cnt = 1
      BY <1>1, <3>1 DEF Held, Holding, KnowsInode
    <3>3. inode[i].open_cnt >= 2
      BY <1>1, <1>2, <1>3, <3>2, BothCount
    <3> QED
      BY <3>2, <3>3
  <2> QED
    BY <1>1, <1>2, <1>3, <2>1 DEF HeadersRead
<1>6. b \in FileData(s)
  <2>1. /\ inode[i].data.start \in Nat /\ inode[i].data.length \in Nat /\ file[f].pos \in Nat
        /\ file[f].pos < inode[i].data.length
    <3>1. inode[i].data.start \in Nat /\ inode[i].data.length \in Lengths \cup {0}
      <4>1. TypeOK /\ i \in InUse
        BY <1>1, <1>3
      <4> QED
        BY <4>1, MemoryIs, Zenon
    <3>2. file[f].pos \in Nat
      <4>1. TypeOK /\ f \in Opened
        BY <1>1
      <4> QED
        BY <4>1, MemoryIs, Zenon
    <3>3. inode[i].data.length \in Nat
      BY <3>1, LengthsAre, Zenon
    <3>4. file[f].pos < inode[i].data.length
      BY <1>2, Zenon
    <3> QED
      BY <3>1, <3>2, <3>3, <3>4
  <2>2. inode[i].data.start + file[f].pos
          \in Extent(inode[i].data.start, inode[i].data.length)
    BY <2>1, InExtent
  <2>3. b = inode[i].data.start + file[f].pos
    BY <1>2
  <2>4. FileData(s) = Extent(inode[i].data.start, inode[i].data.length)
    BY <1>5 DEF FileData
  <2> QED
    BY <2>2, <2>3, <2>4, Zenon
<1>7. /\ s \notin FileData(s) /\ \A t \in Live \ {s} : Region(s) \cap Region(t) = {}
      /\ \A q \in Proc : Region(s) \cap Claimed(q) = {}
  BY <1>1, <1>4 DEF FilesOwn
<1>8. b \in Region(s) /\ \A t \in Live : t \in Region(t)
  BY <1>6 DEF Region
<1>9. \A t : t # b /\ t \in Sector => disk'[t] = disk[t]
  BY <1>1, <1>4 DEF TypeOK
<1>10. \A t \in Live : disk'[t] = disk[t]
  <2>1. \A t \in Live : t # b /\ t \in Sector
    BY <1>6, <1>7, <1>8 DEF Live
  <2> QED
    BY <1>9, <2>1
<1>11. \A q \in Proc : Adding(q) \/ pc[q] = "zeros" => disk'[call[q].sector] = disk[call[q].sector]
  <2>1. SUFFICES ASSUME NEW q \in Proc, Adding(q) \/ pc[q] = "zeros"
                 PROVE  disk'[call[q].sector] = disk[call[q].sector]
    OBVIOUS
  <2>2. call[q].sector \in Claimed(q)
    BY <2>1, ClaimedIs DEF Claims, Adding
  <2>3. call[q].sector \in Sector
    BY <1>1, <2>1, CallAt DEF AtSector, AtNew, Adding
  <2> QED
    BY <1>7, <1>8, <1>9, <2>2, <2>3
<1> DEFINE F == {}
<1>12. /\ F \cap free_map = {} /\ Claimed(p)' = {} /\ Claimed(p)' \subseteq Claimed(p) \cup F
       /\ Sure(pc'[p], call'[p], free_map', disk', dir')
  BY ClaimedIs DEF Claims, Sure
<1>13. \A q \in Proc : Claimed(q) \subseteq free_map'
  BY <1>1 DEF CallsOwn
<1>14. \A t \in Live : Region(t) \subseteq free_map'
  BY <1>1 DEF FilesOwn
<1>15. InodesSame
  BY MemorySame
<1> HIDE DEF F
<1>16. /\ \A t \in Live : disk'[t] = disk[t] /\ Region(t) \subseteq free_map'
       /\ \A q \in Proc : q # p =>
           /\ Adding(q) \/ pc[q] = "zeros" => disk'[call[q].sector] = disk[call[q].sector]
           /\ pc[q] \in {"flip", "flip_data"} => free_map' \subseteq free_map
           /\ Claimed(q) \subseteq free_map'
       /\ Claimed(p)' \subseteq free_map'
  BY <1>10, <1>11, <1>12, <1>13, <1>14
<1> QED
  BY <1>12, <1>15, <1>16, SectorsOwnedMove

\* read(), seek(), write().
LEMMA InPlaceOwned ==
  ASSUME Sound, CountedNow, OwnedNow, Sound', clash' = {}, NEW p \in Proc, NEW d \in Fd,
         \/ \E v \in Data : Write(p, d, v)
         \/ \E position \in 0 .. Max(Lengths) : Seek(p, d, position)
         \/ Read(p, d)
  PROVE  OwnedNow'
<1>1. TypeOK /\ Shapes /\ Descriptors
  BY DEF Sound
<1>2. ASSUME UNCHANGED <<free_map, disk, dir, inode, pc, call>>, pc[p] = "user"
      PROVE  OwnedNow'
  BY <1>2, MemorySame, PlainOwned DEF PlainAt
<1>3. ASSUME NEW v \in Data, Write(p, d, v)
      PROVE  OwnedNow'
  <2> DEFINE f == files[p][d]
             i == file[f].inode
  <2>1. /\ f \in Opened /\ i \in InUse /\ UNCHANGED <<free_map, dir, pc, call>> /\ pc[p] = "user"
        /\ Written(f, i, v)
    BY <1>1, <1>3, WriteSets DEF Ready, At
  <2>2. CASE Sets(i, inode[i].sector, inode[i].open_cnt, inode[i].deny_write_cnt + 1,
                  inode[i].removed, inode[i].data) /\ disk' = disk
    <3>1. inode[i].open_cnt \in Int /\ inode[i].deny_write_cnt + 1 \in Int
      BY <1>1, <2>1, MemoryIs DEF InodeRecord
    <3>2. InodesSame
      BY <1>1, <2>1, <2>2, <3>1, SetsSame
    <3> QED
      BY <2>1, <2>2, <3>2, PlainOwned DEF PlainAt
  <2>3. CASE /\ inode' = inode /\ file[f].pos < inode[i].data.length
             /\ disk' = [disk EXCEPT ![inode[i].data.start + file[f].pos] = v]
    BY <2>1, <2>3, BlockOwned
  <2>4. CASE UNCHANGED <<inode, disk>>
    BY <1>2, <2>1, <2>4
  <2> QED
    BY <2>1, <2>2, <2>3, <2>4 DEF Written
<1>4. ASSUME NEW position \in 0 .. Max(Lengths), Seek(p, d, position)
      PROVE  OwnedNow'
  BY <1>2, <1>4 DEF Seek, Ready, At, diskVars
<1>5. CASE Read(p, d)
  BY <1>2, <1>5 DEF Read, Ready, At, diskVars
<1> QED
  BY <1>3, <1>4, <1>5

LEMMA StepOwned ==
  ASSUME Sound, CountedNow, OwnedNow, Sound', clash' = {}, NEW p \in Proc, AloneInList(p),
         AloneInMap(p), AloneInDirectory(p), Step(p)
  PROVE  OwnedNow'
<1>1. CASE DirOpenRoot(p) \/ Lookup(p) \/ Search(p) \/ Reopen(p)
  BY <1>1, LookupOwned
<1>2. CASE Scan(p) \/ ScanData(p) \/ CheckName(p) \/ FindSlot(p)
  BY <1>2, ScansOwned
<1>3. CASE Drop(p) \/ FileOpen(p) \/ LoadDone(p) \/ ExitNext(p)
  BY <1>3, CloseOwned
<1>4. ASSUME NEW d \in Fd, Close(p, d)
      PROVE  OwnedNow'
  BY <1>4, CloseOwned
<1>5. CASE Flip(p) \/ FlipData(p)
  BY <1>5, FlipOwned
<1>6. CASE WriteHeader(p) \/ WriteZeros(p)
  BY <1>6, CreateOwned
<1>7. CASE Release(p) \/ ReleaseData(p) \/ Undo(p)
  BY <1>7, ReleaseOwned
<1>8. CASE ReadHeader(p) \/ InodeRemove(p) \/ Insert(p) \/ Unlist(p)
  BY <1>8, ReadHeaderOwned, InodeRemoveOwned, InsertOwned, UnlistOwned
<1>9. CASE WriteEntry(p) \/ EraseEntry(p)
  BY <1>9, WriteEntryOwned, EraseEntryOwned
<1>10. CASE \/ DirClose(p) \/ Load(p) \/ Exit(p) \/ Kill(p)
            \/ \E n \in Name : \/ Exec(p, n) \/ Open(p, n) \/ RemoveFile(p, n)
                               \/ \E len \in Lengths : Create(p, n, len)
  BY <1>10, BeginOwned
<1>11. ASSUME NEW d \in Fd,
              \/ \E v \in Data : Write(p, d, v)
              \/ \E position \in 0 .. Max(Lengths) : Seek(p, d, position)
              \/ Read(p, d)
       PROVE  OwnedNow'
  BY <1>11, InPlaceOwned
<1>12. CASE Continue(p)
  BY <1>1, <1>2, <1>3, <1>5, <1>6, <1>7, <1>8, <1>9, <1>10, <1>12 DEF Continue
<1>13. CASE Begin(p)
  <2>1. CASE \E d \in Fd : \/ Close(p, d)
                           \/ \E v \in Data : Write(p, d, v)
                           \/ \E position \in 0 .. Max(Lengths) : Seek(p, d, position)
    BY <1>4, <1>11, <2>1
  <2>2. CASE \/ Load(p) \/ Exit(p) \/ Kill(p)
             \/ \E n \in Name : \/ Exec(p, n) \/ Open(p, n) \/ RemoveFile(p, n)
                                \/ \E len \in Lengths : Create(p, n, len)
    BY <1>10, <2>2
  <2> QED
    BY <1>13, <2>1, <2>2 DEF Begin
<1> QED
  BY <1>11, <1>12, <1>13 DEF Step

\* Each executable has two sectors.
LEMMA InitOwned == Init => OwnedNow
<1> SUFFICES ASSUME Init PROVE OwnedNow
  OBVIOUS
<1> DEFINE n == Len(Programs)
<1>1. n \in Nat /\ Sectors \in Nat /\ 2 * n <= Sectors /\ Slots \in Nat /\ n <= Slots
  BY FileSysAssumption
<1>2. InUse = {} /\ \A p \in Proc : pc[p] \in {"new", "user"} /\ call[p] = NoCall
  BY DEF Init, InUse
<1>3. \A p \in Proc : Claimed(p) = {} /\ KnowsSectors(p) /\ ~Removing(p)
  BY <1>2 DEF Claimed, KnowsSectors, Adding, AtEntry, NoCall, Removing
<1>4. \A e \in 1 .. Slots : dir[e] # None => e \in 1 .. n /\ dir[e].sector = 2 * e - 1
  BY <1>1 DEF Init
<1>5. ASSUME NEW s \in Live
      PROVE  /\ s \in Sector /\ \E e \in 1 .. n : s = 2 * e - 1
             /\ disk[s] = [start |-> s + 1, length |-> 1]
  <2>1. s \in Sector /\ Named(s)
    BY <1>2 DEF Live, InodeOf
  <2>2. PICK e \in 1 .. n : s = 2 * e - 1
    BY <1>4, <2>1 DEF Named
  <2> QED
    BY <2>1, <2>2 DEF Init
<1>6. ASSUME NEW s \in Live
      PROVE  s \in Nat /\ FileData(s) = {s + 1} /\ Region(s) = {s, s + 1}
  <2>1. s \in Nat
    BY <1>5, SectorIs
  <2>2. disk[s] = [start |-> s + 1, length |-> 1]
    BY <1>5
  <2>3. FileData(s) = (s + 1) .. (s + 1) + 1 - 1
    BY <2>2 DEF FileData, Extent
  <2>4. FileData(s) = {s + 1}
    BY <2>1, <2>3
  <2> QED
    BY <2>1, <2>4 DEF Region
<1>7. FilesOwn
  <2>1. ASSUME NEW s \in Live
        PROVE  /\ disk[s] \in DiskInode /\ s \notin FileData(s) /\ Region(s) \subseteq free_map
               /\ \A t \in Live \ {s} : Region(s) \cap Region(t) = {}
               /\ \A p \in Proc : Region(s) \cap Claimed(p) = {}
    <3>1. disk[s] \in DiskInode
      <4>1. 1 \in Lengths
        BY FileSysAssumption
      <4>2. s + 1 \in Nat
        BY <1>6
      <4>3. [start |-> s + 1, length |-> 1] \in DiskInode
        BY <4>1, <4>2, HeaderIs
      <4> QED
        BY <1>5, <4>3
    <3>2. PICK e \in 1 .. n : s = 2 * e - 1
      BY <1>5
    <3>3. Region(s) \subseteq free_map /\ s \notin FileData(s)
      <4>1. free_map = 1 .. 2 * n
        BY DEF Init
      <4>2. Region(s) = {s, s + 1} /\ FileData(s) = {s + 1}
        BY <1>6
      <4>3. s \in 1 .. 2 * n /\ s + 1 \in 1 .. 2 * n /\ s # s + 1
        BY <1>1, <3>2
      <4> HIDE DEF n
      <4> QED
        BY <4>1, <4>2, <4>3
    <3>4. ASSUME NEW t \in Live \ {s} PROVE Region(s) \cap Region(t) = {}
      <4>1. PICK d \in 1 .. n : t = 2 * d - 1
        BY <1>5
      <4>2. Region(t) = {t, t + 1} /\ t # s
        BY <1>6
      <4> QED
        BY <1>1, <1>6, <3>2, <4>1, <4>2
    <3> QED
      BY <1>3, <3>1, <3>3, <3>4
  <2> QED
    BY <2>1 DEF FilesOwn
<1>8. CallsOwn /\ HeadersRead /\ OneRemoving /\ RemovedUnnamed
  BY <1>2, <1>3 DEF CallsOwn, HeadersRead, OneRemoving, RemovedUnnamed
<1>9. EntriesApart
  BY <1>1, <1>4 DEF EntriesApart
<1> QED
  BY <1>3, <1>7, <1>8, <1>9 DEF OwnedNow

LEMMA OwnedIs ==
  /\ Owned <=> (clash = {} => OwnedNow)
  /\ Owned' <=> (clash' = {} => OwnedNow')
<1>1. Owned <=> (clash = {} => OwnedNow)
  BY DEF Owned, SectorsOwned, OwnedNow
<1>2. Owned' <=> (clash' = {} => OwnedNow')
  BY DEF Owned, SectorsOwned, OwnedNow
<1> QED
  BY <1>1, <1>2

LEMMA NextOwned == Sound /\ Counted /\ Owned /\ Sound' /\ [Next]_vars => Owned'
<1> SUFFICES ASSUME Sound, Counted, Owned, Sound', [Next]_vars, clash' = {} PROVE OwnedNow'
  BY OwnedIs
<1>1. CASE UNCHANGED vars
  <2>1. UNCHANGED <<free_map, disk, dir, inode, pc, call, clash>>
    BY <1>1 DEF vars, diskVars, memoryVars
  <2>2. OwnedNow
    BY <2>1, OwnedIs
  <2>3. InodesSame
    BY <2>1, MemorySame
  <2>4. Live' = Live /\ \A s \in Sector : Named(s)' = Named(s)
    BY <2>1, <2>3, LiveSame
  <2>5. InUse' = InUse /\ (\A s : (Named(s)' <=> Named(s)) /\ Region(s)' = Region(s)
                                  /\ FileData(s)' = FileData(s))
    BY <2>1 DEF InUse, Named, Region, FileData
  <2>6. \A p \in Proc : Claimed(p)' = Claimed(p) /\ (KnowsSectors(p)' <=> KnowsSectors(p))
    BY <2>1, <2>5, ClaimedIs, KnowsIs
  <2>7. FilesOwn' /\ CallsOwn'
    BY <2>1, <2>2, <2>4, <2>5, <2>6 DEF OwnedNow, FilesOwn, CallsOwn
  <2>8. HeadersRead' /\ RemovedUnnamed'
    BY <2>1, <2>2, <2>5 DEF OwnedNow, HeadersRead, RemovedUnnamed
  <2>9. OneRemoving' /\ EntriesApart'
    BY <2>1, <2>2 DEF OwnedNow, OneRemoving, Removing, Finding, EntriesApart
  <2> QED
    BY <2>2, <2>6, <2>7, <2>8, <2>9 DEF OwnedNow
<1>2. CASE Next
  <2>1. PICK p \in Proc :
          \/ Continue(p) /\ result' = <<>> /\ UNCHANGED calls
          \/ /\ calls < MaxCalls /\ calls' = calls + 1
             /\ \/ Begin(p) /\ result' = <<>>
                \/ \E d \in Fd : Read(p, d)
    BY <1>2 DEF Next
  <2>2. Step(p)
    BY <2>1 DEF Step
  <2>3. clash = {}
    BY <1>2 DEF Next
  <2>4. OwnedNow /\ CountedNow
    BY <2>3, OwnedIs DEF Counted, CountedNow
  <2>5. AloneInList(p) /\ AloneInMap(p) /\ AloneInDirectory(p)
    BY <2>3, AllApart
  <2> QED
    BY <2>2, <2>4, <2>5, StepOwned
<1> QED
  BY <1>1, <1>2

\* The invariant of the runs holds in every run, for any number of processes,
\* files, inodes, sectors and calls.
THEOREM FileSysInvariant == Spec => []FileSysInv
<1>1. Init => FileSysInv
  <2> SUFFICES ASSUME Init PROVE FileSysInv
    OBVIOUS
  <2>1. Sound /\ Counted /\ OwnedNow
    BY InitSound, InitCounted, InitOwned
  <2>2. Owned
    BY <2>1, OwnedIs
  <2> QED
    BY <2>1, <2>2 DEF FileSysInv
<1>2. FileSysInv /\ [Next]_vars => FileSysInv'
  BY NextSound, NextCounted, NextOwned DEF FileSysInv
<1> QED
  BY <1>1, <1>2, PTL DEF Spec

\* However many calls interleave, one access at a time: until two have met that
\* nothing keeps apart, a sector in use is marked in the free map and has one
\* owner, a file or the call that makes or releases it, and an open inode has
\* the header that is on the disk (SectorsOwned of FileSys).
THEOREM SectorsAreOwned == Spec => []SectorsOwned
<1>1. FileSysInv => SectorsOwned
  BY DEF FileSysInv, Owned
<1> QED
  BY <1>1, FileSysInvariant, PTL

=============================================================================
