------------------------------- MODULE FileSys -------------------------------
(***************************************************************************)
(* The file system of project 2 as processes use it: the file calls of     *)
(* userprog/syscall.c and load() with the descriptor table and the         *)
(* semaphore `mutex', filesys/filesys.c, file.c, inode.c, free-map.c and   *)
(* the root directory of directory.c.                                      *)
(*                                                                         *)
(* Only open(), read() and write() take the semaphore, and a process may   *)
(* lose the CPU, to the disk or the clock, anywhere.  A step is one access *)
(* to what processes share; what it read is kept in `call' until the step  *)
(* that uses it, and any process may go on in between.  `clash' notes      *)
(* where two calls met that nothing keeps apart.                           *)
(*                                                                         *)
(* A block of data is one value and a read or write moves one block.  Of   *)
(* the root directory, dir_open_root() and dir_close() are steps that do   *)
(* nothing but use the list of open inodes.  malloc() of a struct inode or *)
(* struct file may fail at any time; a bounce buffer always has memory.    *)
(***************************************************************************)
EXTENDS KernelList, FiniteSetsExt, Functions, Integers

CONSTANTS
  Proc,        \* processes
  Name,        \* file names
  Programs,    \* executables that are in the file system from the start
  Image,       \* of each process, the name of its executable
  Sectors,     \* size of the device behind the root directory
  Slots,       \* entries of the root directory
  Inode, File, \* memory for struct inodes and struct files
  Fd,          \* file descriptors, 2 .. 129
  Lengths,     \* sizes given to create(), in sectors
  Data, Zero,  \* what a sector holds
  MaxCalls,    \* bound: calls made
  None

Sector == 1 .. Sectors

ASSUME FileSysAssumption ==
  /\ Programs \in Seq(Name) /\ IsInjective(Programs)
  /\ Image \in [Proc -> Name]
  /\ Sectors \in Nat /\ 2 * Len(Programs) <= Sectors
  /\ Slots \in Nat /\ Len(Programs) <= Slots /\ Fd \subseteq Nat
  /\ 1 \in Lengths /\ Lengths \subseteq Nat /\ \E m \in Lengths : \A len \in Lengths : len <= m
  /\ IsFiniteSet(Proc) /\ IsFiniteSet(Inode) /\ IsFiniteSet(File)
  /\ Zero \in Data /\ MaxCalls \in Nat
  /\ None \notin Name \cup Inode \cup File \cup Sector

VARIABLES
  free_map,     \* the sectors that are marked
  disk,         \* what each sector holds: data or a struct inode_disk
  dir,          \* root directory: of each entry its name and sector, or None
  inode,        \* struct inodes, None: free memory
  open_inodes,
  file,         \* struct files, None: free memory
  files,        \* struct thread.files
  current_file, \* struct thread.current_file
  pc, call,     \* where each process stands in a call, and what it knows there
  clash,        \* "list", "map", "directory": where calls have met
  result,       \* the block that read() returned, if that was the last call
  calls         \* bound: calls made so far

diskVars   == <<free_map, disk, dir>>
memoryVars == <<inode, open_inodes, file>>
procVars   == <<files, current_file>>
vars == <<diskVars, memoryVars, procVars, pc, call, clash, result, calls>>

DiskInode   == [start : Nat, length : Lengths \cup {0}]
InodeRecord == [sector : Sector, open_cnt : Int, deny_write_cnt : Int,
                removed : BOOLEAN, data : DiskInode]
FileRecord  == [inode : Inode, pos : Nat, deny_write : BOOLEAN]
Entry       == [name : Name, sector : Sector]

Location ==
  {"new", "user", "ended",
   "root",                                        \* in dir_open_root()
   "lookup", "search", "reopen", "insert", "header", \* lookup(), inode_open()
   "leave",                                       \* in dir_close()
   "file", "loaded",                              \* file_open(); load() has the file
   "erase", "mark",                               \* dir_remove()
   "scan", "flip", "scan_data", "flip_data",      \* free_map_allocate(), twice
   "write_header", "zeros",                       \* inode_create()
   "add", "slot", "entry", "undo",                \* dir_add(), and when it fails
   "drop", "unlist", "release", "release_data",   \* inode_close()
   "exit"}                                        \* the loop of exit()

Call == [op : {"none", "load", "open", "exec", "create", "remove", "close", "exit"},
         name : Name \cup {None}, length : Lengths \cup {0}, sector : Sector \cup {None},
         start : Nat, inode : Inode \cup {None}, entry : 0 .. Slots, file : File \cup {None}]
NoCall == [op |-> "none", name |-> None, length |-> 0, sector |-> None, start |-> 0,
           inode |-> None, entry |-> 0, file |-> None]

Shared == {"list", "map", "directory"}

ASSUME NoneAssumption == None \notin InodeRecord \cup FileRecord \cup Entry
ASSUME DataAssumption == \A v \in Data : v \notin DiskInode

TypeOK ==
  /\ free_map \subseteq Sector
  /\ disk \in [Sector -> Data \cup DiskInode]
  /\ dir \in [1 .. Slots -> Entry \cup {None}]
  /\ inode \in [Inode -> InodeRecord \cup {None}]
  /\ open_inodes \in Seq(Inode)
  /\ file \in [File -> FileRecord \cup {None}]
  /\ files \in [Proc -> [Fd -> File \cup {None}]]
  /\ current_file \in [Proc -> File \cup {None}]
  /\ pc \in [Proc -> Location] /\ call \in [Proc -> Call]
  /\ clash \subseteq Shared
  /\ result \in Seq(Data \cup DiskInode) /\ Len(result) <= 1
  /\ calls \in 0 .. MaxCalls

\* A formatted file system with the executables, each of one block, and
\* processes that are to load theirs.
Init ==
  /\ free_map = 1 .. 2 * Len(Programs)
  /\ disk = [s \in Sector |->
       IF \E k \in 1 .. Len(Programs) : s = 2 * k - 1
       THEN [start |-> s + 1, length |-> 1] ELSE Zero]
  /\ dir = [e \in 1 .. Slots |->
       IF e <= Len(Programs) THEN [name |-> Programs[e], sector |-> 2 * e - 1]
       ELSE None]
  /\ inode = [i \in Inode |-> None] /\ open_inodes = <<>>
  /\ file = [f \in File |-> None]
  /\ files = [p \in Proc |-> [d \in Fd |-> None]]
  /\ current_file = [p \in Proc |-> None]
  /\ pc \in [Proc -> {"new", "user"}] /\ call = [p \in Proc |-> NoCall]
  /\ clash = {} /\ result = <<>> /\ calls = 0

-----------------------------------------------------------------------------
(* What two calls may not do at once *)

\* Mutant: the semaphore is not there.
MutexUpAlways == TRUE

\* sema_down(&mutex) gets through; open() holds it to its end.
Locked(p) == call[p].op = "open"
MutexUp   == \A p \in Proc : ~Locked(p)

\* A call is in a part that reads a shared structure to change it.  The list
\* of open inodes: inode_open(), and inode_close() of the last opener.
InList(p) == pc[p] \in {"root", "search", "reopen", "insert", "header", "leave", "unlist"}

\* The free map: "testing bits is not atomic with setting them" (bitmap.c).
InMap(p) == pc[p] \in {"scan", "flip", "scan_data", "flip_data"}

\* The directory: from lookup() on, a new entry until it is written, and one
\* that was found until it is erased or its inode is open.
Finding(p)  == pc[p] \in {"lookup", "search", "reopen", "insert"}
Adding(p)   == pc[p] \in {"add", "slot", "entry"}
Removing(p) == call[p].op = "remove" /\ (Finding(p) \/ pc[p] \in {"header", "erase"})

Meet(c, p, q) ==
  CASE c = "list"      -> InList(p) /\ InList(q)
    [] c = "map"       -> InMap(p) /\ InMap(q)
    [] c = "directory" -> \/ Removing(p) /\ (Finding(q) \/ Adding(q))
                          \/ Adding(p) /\ Adding(q)

\* Calls that take the semaphore should never meet: that is not counted.
Met == {c \in Shared : \E p, q \in Proc : p # q /\ ~(Locked(p) /\ Locked(q)) /\ Meet(c, p, q)}

-----------------------------------------------------------------------------
(* Steps of a call *)

To(p, l, c)  == pc' = [pc EXCEPT ![p] = l] /\ call' = [call EXCEPT ![p] = c]
Goto(p, l)   == To(p, l, call[p])
Return(p)    == To(p, "user", NoCall)
At(p, l)     == pc[p] = l
Ready(p)     == At(p, "user")

\* thread_exit(): the struct thread is gone.
End(p) ==
  /\ To(p, "ended", NoCall)
  /\ files' = [files EXCEPT ![p] = [d \in Fd |-> None]]
  /\ current_file' = [current_file EXCEPT ![p] = None]

\* A call by name, from the beginning of filesys_open(), filesys_create(),
\* filesys_remove().
Start(p, op, n, len) ==
  /\ To(p, "root", [NoCall EXCEPT !.op = op, !.name = n, !.length = len])
  /\ UNCHANGED <<diskVars, memoryVars, procVars>>

Load(p)           == At(p, "new") /\ Start(p, "load", Image[p], 0)
Exec(p, n)        == Ready(p) /\ Start(p, "exec", n, 0)
Open(p, n)        == Ready(p) /\ MutexUp /\ Start(p, "open", n, 0)
Create(p, n, len) == Ready(p) /\ Start(p, "create", n, len)
RemoveFile(p, n)  == Ready(p) /\ Start(p, "remove", n, 0)

\* dir_open_root(), which may be short of memory.
DirOpenRoot(p) ==
  /\ At(p, "root")
  /\ \/ Goto(p, IF call[p].op = "create" THEN "scan" ELSE "lookup")
     \/ Goto(p, "leave")
  /\ UNCHANGED <<diskVars, memoryVars, procVars>>

\* lookup(): the entries that match.
Matches(n) == {e \in 1 .. Slots : dir[e] # None /\ dir[e].name = n}
FreeSlots  == {e \in 1 .. Slots : dir[e] = None}

\* dir_lookup(), dir_remove(): the first entry with the name.
Lookup(p) ==
  /\ At(p, "lookup")
  /\ LET es == Matches(call[p].name)
     IN  IF es = {} THEN Goto(p, "leave")
         ELSE To(p, "search", [call[p] EXCEPT !.entry = Min(es), !.sector = dir[Min(es)].sector])
  /\ UNCHANGED <<diskVars, memoryVars, procVars>>

-----------------------------------------------------------------------------
(* inode_open(), inode_close() *)

FreeInodes == {i \in Inode : inode[i] = None}
FreeFiles  == {f \in File : file[f] = None}

\* inode_open(): the first loop.
Found(s) ==
  LET hits == {k \in 1 .. Len(open_inodes) : inode[open_inodes[k]] # None
                                            /\ inode[open_inodes[k]].sector = s}
  IN  IF hits = {} THEN None ELSE open_inodes[Min(hits)]

Search(p) ==
  /\ At(p, "search")
  /\ LET i == Found(call[p].sector)
     IN  IF i # None THEN To(p, "reopen", [call[p] EXCEPT !.inode = i]) ELSE Goto(p, "insert")
  /\ UNCHANGED <<diskVars, memoryVars, procVars>>

\* Where a call goes on when it has its inode.
WithInode(p) == IF call[p].op = "remove" THEN "erase" ELSE "leave"

\* inode_reopen().  (What a call does with an inode that was freed since it
\* found it is undefined, and not followed: here and below.)
Reopen(p) ==
  /\ At(p, "reopen") /\ inode[call[p].inode] # None
  /\ inode' = [inode EXCEPT ![call[p].inode].open_cnt = @ + 1]
  /\ Goto(p, WithInode(p))
  /\ UNCHANGED <<diskVars, open_inodes, file, procVars>>

NoHeader == [start |-> 0, length |-> 0]

\* A new struct inode is on the list before its data are read.
Insert(p) ==
  /\ At(p, "insert")
  /\ \/ \E i \in FreeInodes :
          /\ inode' = [inode EXCEPT ![i] =
               [sector |-> call[p].sector, open_cnt |-> 1, deny_write_cnt |-> 0,
                removed |-> FALSE, data |-> NoHeader]]
          /\ open_inodes' = <<i>> \o open_inodes
          /\ To(p, "header", [call[p] EXCEPT !.inode = i])
     \/ Goto(p, "leave") /\ UNCHANGED <<inode, open_inodes>>
  /\ UNCHANGED <<diskVars, file, procVars>>

\* A block of data says nothing as a header.
ReadHeader(p) ==
  LET block == disk[call[p].sector]
  IN  /\ At(p, "header") /\ inode[call[p].inode] # None
      /\ inode' = [inode EXCEPT ![call[p].inode].data =
                     IF block \in DiskInode THEN block ELSE NoHeader]
      /\ Goto(p, WithInode(p))
      /\ UNCHANGED <<diskVars, open_inodes, file, procVars>>

\* Where a call goes on after inode_close().
Closed(p) ==
  CASE call[p].op = "remove" -> To(p, "leave", [NoCall EXCEPT !.op = "remove"])
    [] call[p].op = "exit"   -> To(p, "exit", [NoCall EXCEPT !.op = "exit"])
    [] OTHER                 -> Return(p)

\* Mutant: a removed inode goes with the first close.
IsLastRemoved(i) == inode[i].open_cnt = 1 \/ inode[i].removed

\* The decrement brings the count to 0.
IsLast(i) == inode[i].open_cnt = 1

\* inode_close(), up to the test.
Drop(p) ==
  LET i == call[p].inode
  IN  /\ At(p, "drop") /\ inode[i] # None
      /\ inode' = [inode EXCEPT ![i].open_cnt = @ - 1]
      /\ IF IsLast(i) THEN Goto(p, "unlist") ELSE Closed(p)
      /\ UNCHANGED <<diskVars, open_inodes, file, procVars>>

\* list_remove().  The sectors of a removed inode are still to be released;
\* after that its memory is free, which nobody sees.
Unlist(p) ==
  LET i == call[p].inode
  IN  /\ At(p, "unlist") /\ inode[i] # None
      /\ open_inodes' = ListRemove(open_inodes, {i})
      /\ inode' = [inode EXCEPT ![i] = None]
      /\ IF inode[i].removed
         THEN To(p, "release", [call[p] EXCEPT
                !.inode = None, !.sector = inode[i].sector,
                !.start = inode[i].data.start, !.length = inode[i].data.length])
         ELSE Closed(p)
      /\ UNCHANGED <<diskVars, file, procVars>>

-----------------------------------------------------------------------------
(* Free map *)

Extent(start, cnt) == start .. start + cnt - 1

\* Mutant: a search that does not look at the last sector.
GapsShort(map, cnt) ==
  IF cnt = 0 THEN {0}
  ELSE {s \in Sector : s + cnt - 1 \in Sector
                       /\ Extent(s, cnt - 1) \cap map = {}}

\* bitmap_scan(): where CNT sectors in a row are free.
Gaps(map, cnt) ==
  IF cnt = 0 THEN {0}
  ELSE {s \in Sector : Extent(s, cnt) \subseteq Sector \ map}

\* free_map_release() of the inode's own sector, then of its data.
Release(p) ==
  /\ At(p, "release")
  /\ free_map' = free_map \ {call[p].sector} /\ Goto(p, "release_data")
  /\ UNCHANGED <<disk, dir, memoryVars, procVars>>

ReleaseData(p) ==
  /\ At(p, "release_data")
  /\ free_map' = free_map \ Extent(call[p].start, call[p].length) /\ Closed(p)
  /\ UNCHANGED <<disk, dir, memoryVars, procVars>>

-----------------------------------------------------------------------------
(* filesys_create() *)

\* free_map_allocate() of the inode's sector: bitmap_scan(), then the flip.
Scan(p) ==
  /\ At(p, "scan")
  /\ IF Gaps(free_map, 1) = {} THEN Goto(p, "leave")
     ELSE To(p, "flip", [call[p] EXCEPT !.sector = Min(Gaps(free_map, 1))])
  /\ UNCHANGED <<diskVars, memoryVars, procVars>>

Flip(p) ==
  /\ At(p, "flip")
  /\ free_map' = free_map \cup {call[p].sector} /\ Goto(p, "scan_data")
  /\ UNCHANGED <<disk, dir, memoryVars, procVars>>

\* inode_create() allocates the data, and may be short of memory.
ScanData(p) ==
  LET gaps == Gaps(free_map, call[p].length)
  IN  /\ At(p, "scan_data")
      /\ \/ gaps # {} /\ To(p, "flip_data", [call[p] EXCEPT !.start = Min(gaps)])
         \/ Goto(p, "undo")
      /\ UNCHANGED <<diskVars, memoryVars, procVars>>

FlipData(p) ==
  /\ At(p, "flip_data")
  /\ free_map' = free_map \cup Extent(call[p].start, call[p].length)
  /\ Goto(p, "write_header")
  /\ UNCHANGED <<disk, dir, memoryVars, procVars>>

WriteHeader(p) ==
  /\ At(p, "write_header")
  /\ disk' = [disk EXCEPT ![call[p].sector] =
                [start |-> call[p].start, length |-> call[p].length]]
  /\ Goto(p, "zeros")
  /\ UNCHANGED <<free_map, dir, memoryVars, procVars>>

WriteZeros(p) ==
  /\ At(p, "zeros")
  /\ disk' = [s \in Sector |-> IF s \in Extent(call[p].start, call[p].length) THEN Zero
                               ELSE disk[s]]
  /\ To(p, "add", [call[p] EXCEPT !.start = 0, !.length = 0])
  /\ UNCHANGED <<free_map, dir, memoryVars, procVars>>

\* dir_add(): the name is not in use, a free slot, the new entry.
CheckName(p) ==
  /\ At(p, "add") /\ Goto(p, IF Matches(call[p].name) = {} THEN "slot" ELSE "undo")
  /\ UNCHANGED <<diskVars, memoryVars, procVars>>

FindSlot(p) ==
  /\ At(p, "slot")
  /\ IF FreeSlots = {} THEN Goto(p, "undo")
     ELSE To(p, "entry", [call[p] EXCEPT !.entry = Min(FreeSlots)])
  /\ UNCHANGED <<diskVars, memoryVars, procVars>>

WriteEntry(p) ==
  /\ At(p, "entry")
  /\ dir' = [dir EXCEPT ![call[p].entry] = [name |-> call[p].name, sector |-> call[p].sector]]
  /\ To(p, "leave", [NoCall EXCEPT !.op = "create"])
  /\ UNCHANGED <<free_map, disk, memoryVars, procVars>>

\* What has failed gives the inode's sector back, not the data's.
Undo(p) ==
  /\ At(p, "undo")
  /\ free_map' = free_map \ {call[p].sector}
  /\ To(p, "leave", [NoCall EXCEPT !.op = "create"])
  /\ UNCHANGED <<disk, dir, memoryVars, procVars>>

-----------------------------------------------------------------------------
(* filesys_remove() *)

EraseEntry(p) ==
  /\ At(p, "erase")
  /\ dir' = [dir EXCEPT ![call[p].entry] = None] /\ Goto(p, "mark")
  /\ UNCHANGED <<free_map, disk, memoryVars, procVars>>

InodeRemove(p) ==
  /\ At(p, "mark") /\ inode[call[p].inode] # None
  /\ inode' = [inode EXCEPT ![call[p].inode].removed = TRUE]
  /\ To(p, "drop", [NoCall EXCEPT !.op = "remove", !.inode = call[p].inode])
  /\ UNCHANGED <<diskVars, open_inodes, file, procVars>>

-----------------------------------------------------------------------------
(* Files *)

\* dir_close(), and where filesys_open(), filesys_create(), filesys_remove()
\* go on.
DirClose(p) ==
  /\ At(p, "leave")
  /\ \/ call[p].inode # None /\ Goto(p, "file") /\ UNCHANGED procVars
     \/ call[p].inode = None /\ call[p].op = "load" /\ End(p)
     \/ call[p].inode = None /\ call[p].op # "load" /\ Return(p) /\ UNCHANGED procVars
  /\ UNCHANGED <<diskVars, memoryVars>>

\* file_open(), and the rest of open(): the first free descriptor gets the
\* file, and a full table none, but the file stays open.  exec() only sees that
\* the executable is there: nothing closes the file.  Without memory the inode
\* is closed again.
FileOpen(p) ==
  LET c    == call[p]
      left == {d \in Fd : files[p][d] = None}
  IN  /\ At(p, "file")
      /\ \/ \E f \in FreeFiles :
              /\ file' = [file EXCEPT ![f] = [inode |-> c.inode, pos |-> 0, deny_write |-> FALSE]]
              /\ IF c.op = "load" THEN To(p, "loaded", [NoCall EXCEPT !.op = "load", !.file = f])
                 ELSE Return(p)
              /\ files' = IF c.op = "open" /\ left # {}
                          THEN [files EXCEPT ![p][Min(left)] = f] ELSE files
              /\ current_file' = IF c.op = "open" /\ c.name = Image[p]
                                 THEN [current_file EXCEPT ![p] = f] ELSE current_file
         \/ /\ To(p, "drop", [NoCall EXCEPT !.op = IF c.op = "load" THEN "exit" ELSE c.op,
                                           !.inode = c.inode])
            /\ UNCHANGED <<file, procVars>>
      /\ UNCHANGED <<diskVars, inode, open_inodes>>

\* file_close() up to inode_close(): file_allow_write().  The memory of the
\* struct file is free after it, which nobody sees.
FileClose(p, op, f) ==
  LET i == file[f].inode
  IN  /\ inode[i] # None
      /\ inode' = IF file[f].deny_write
                  THEN [inode EXCEPT ![i].deny_write_cnt = @ - 1] ELSE inode
      /\ file' = [file EXCEPT ![f] = None]
      /\ To(p, "drop", [NoCall EXCEPT !.op = op, !.inode = i])
      /\ UNCHANGED <<diskVars, open_inodes>>

\* The end of load().
LoadDone(p) == At(p, "loaded") /\ FileClose(p, "load", call[p].file) /\ UNCHANGED procVars

\* close() does not look at current_file, which may be the file.
Close(p, d) ==
  /\ Ready(p) /\ files[p][d] # None /\ FileClose(p, "close", files[p][d])
  /\ files' = [files EXCEPT ![p][d] = None] /\ UNCHANGED current_file

\* exit() closes the descriptors one after the other.
Exit(p) ==
  /\ Ready(p) /\ To(p, "exit", [NoCall EXCEPT !.op = "exit"])
  /\ UNCHANGED <<diskVars, memoryVars, procVars>>

ExitNext(p) ==
  LET left == {d \in Fd : files[p][d] # None}
  IN  /\ At(p, "exit")
      /\ IF left = {} THEN End(p) /\ UNCHANGED <<diskVars, memoryVars>>
         ELSE /\ FileClose(p, "exit", files[p][Min(left)])
              /\ files' = [files EXCEPT ![p][Min(left)] = None] /\ UNCHANGED current_file

\* A process that the kernel kills goes through thread_exit() only: its
\* files stay open.
Kill(p) == Ready(p) /\ End(p) /\ UNCHANGED <<diskVars, memoryVars>>

\* read(): file_read() of one block; nothing at the end of the file.
Read(p, d) ==
  LET f == files[p][d]
      d_i    == inode[file[f].inode].data
      inside == file[f].pos < d_i.length
  IN  /\ Ready(p) /\ MutexUp /\ f # None /\ inode[file[f].inode] # None
      /\ result' = IF inside THEN <<disk[d_i.start + file[f].pos]>> ELSE <<>>
      /\ file' = IF inside THEN [file EXCEPT ![f].pos = @ + 1] ELSE file
      /\ UNCHANGED <<diskVars, inode, open_inodes, procVars, pc, call>>

\* Mutant: file_deny_write() counts every call.
DeniesAgain(p, f) == current_file[p] = f

\* write() calls file_deny_write() for the process's own executable; it
\* counts once per struct file.
Denies(p, f) == current_file[p] = f /\ ~file[f].deny_write

\* write(): file_write() of one block, unless writes are denied or the
\* position is at the end.
Write(p, d, v) ==
  LET f      == files[p][d]
      i      == file[f].inode
      d_i    == inode[i].data
      denied == Denies(p, f)
      writes == /\ ~denied /\ inode[i].deny_write_cnt = 0
                /\ file[f].pos < d_i.length
  IN  /\ Ready(p) /\ MutexUp /\ f # None /\ inode[i] # None
      /\ inode' = IF denied THEN [inode EXCEPT ![i].deny_write_cnt = @ + 1]
                  ELSE inode
      /\ file' = CASE denied -> [file EXCEPT ![f].deny_write = TRUE]
                   [] writes -> [file EXCEPT ![f].pos = @ + 1]
                   [] OTHER  -> file
      /\ disk' = IF writes THEN [disk EXCEPT ![d_i.start + file[f].pos] = v]
                 ELSE disk
      /\ UNCHANGED <<free_map, dir, open_inodes, procVars, pc, call>>

Seek(p, d, position) ==
  LET f == files[p][d]
  IN  /\ Ready(p) /\ f # None
      /\ file' = [file EXCEPT ![f].pos = position]
      /\ UNCHANGED <<diskVars, inode, open_inodes, procVars, pc, call>>

\* What a process in a call does next.
Continue(p) ==
  \/ DirOpenRoot(p) \/ Lookup(p) \/ Search(p) \/ Reopen(p) \/ Insert(p) \/ ReadHeader(p)
  \/ Drop(p) \/ Unlist(p) \/ Release(p) \/ ReleaseData(p)
  \/ Scan(p) \/ Flip(p) \/ ScanData(p) \/ FlipData(p) \/ WriteHeader(p) \/ WriteZeros(p)
  \/ CheckName(p) \/ FindSlot(p) \/ WriteEntry(p) \/ Undo(p)
  \/ EraseEntry(p) \/ InodeRemove(p) \/ DirClose(p) \/ FileOpen(p) \/ LoadDone(p) \/ ExitNext(p)

Begin(p) ==
  \/ Load(p) \/ Exit(p) \/ Kill(p)
  \/ \E n \in Name : \/ Exec(p, n) \/ Open(p, n) \/ RemoveFile(p, n)
                     \/ \E len \in Lengths : Create(p, n, len)
  \/ \E d \in Fd : \/ Close(p, d)
                   \/ \E v \in Data : Write(p, d, v)
                   \/ \E position \in 0 .. Max(Lengths) : Seek(p, d, position)

Next ==
  /\ \E p \in Proc :
       \/ Continue(p) /\ result' = <<>> /\ UNCHANGED calls
       \/ /\ calls < MaxCalls /\ calls' = calls + 1
          /\ \/ Begin(p) /\ result' = <<>>
             \/ \E d \in Fd : Read(p, d)
  /\ clash' = clash \cup Met'

Spec == Init /\ [][Next]_vars
-----------------------------------------------------------------------------
(* Properties *)

InUse  == {i \in Inode : inode[i] # None}
Opened == {f \in File : file[f] # None}

Users(i)   == {f \in Opened : file[f].inode = i}
Denying(i) == {f \in Users(i) : file[f].deny_write}

\* Calls that count as openers of an inode: they have not given it to a file
\* nor closed it yet.
Holding(p) == pc[p] \in {"header", "leave", "file", "erase", "mark", "drop"}
Holders(i) == {p \in Proc : Holding(p) /\ call[p].inode = i}

\* An inode counts its openers, and those of them that deny writes, through
\* every order of open, write, remove, close and exit, calls under way included:
\* it leaves the list with the last of them, writes come back when the last that
\* denied them closes (inode_close(), inode_deny_write(), inode_allow_write()),
\* and "opening a single inode twice returns the same struct inode" (inode.c).
\* It holds until two calls have met on the list of open inodes, of which one
\* does not take the semaphore, whatever met elsewhere.
CountsOpeners ==
  /\ TypeOK
  /\ "list" \notin clash =>
       /\ Range(open_inodes) = InUse /\ Len(open_inodes) = Cardinality(InUse)
       /\ \A i, j \in InUse : inode[i].sector = inode[j].sector => i = j
       /\ \A i \in InUse :
            /\ inode[i].open_cnt = Cardinality(Users(i)) + Cardinality(Holders(i))
            /\ inode[i].deny_write_cnt = Cardinality(Denying(i))

\* Files that have a name or are open, the header's sector of each.
Named(s)   == \E e \in 1 .. Slots : dir[e] # None /\ dir[e].sector = s
InodeOf(s) == {i \in InUse : inode[i].sector = s}
Live       == {s \in Sector : Named(s) \/ InodeOf(s) # {}}
FileData(s) == Extent(disk[s].start, disk[s].length)

\* The sectors a call has marked for a file that has no name yet, or has not
\* released yet of one that has none any more.
Claimed(p) ==
  CASE pc[p] \in {"scan_data", "flip_data", "undo"} -> {call[p].sector}
    [] pc[p] \in {"write_header", "zeros", "release"} ->
         {call[p].sector} \cup Extent(call[p].start, call[p].length)
    [] Adding(p)              -> {call[p].sector} \cup FileData(call[p].sector)
    [] pc[p] = "release_data" -> Extent(call[p].start, call[p].length)
    [] OTHER                  -> {}

\* The sectors of a file, in use and of nobody else.
Region(s) == {s} \cup FileData(s)

FilesOwn ==
  \A s \in Live :
    /\ disk[s] \in DiskInode /\ s \notin FileData(s) /\ Region(s) \subseteq free_map
    /\ \A t \in Live \ {s} : Region(s) \cap Region(t) = {}
    /\ \A p \in Proc : Region(s) \cap Claimed(p) = {}

CallsOwn ==
  \A p \in Proc :
    /\ Claimed(p) \subseteq free_map
    /\ \A q \in Proc \ {p} : Claimed(p) \cap Claimed(q) = {}

HeadersRead ==
  \A i \in InUse :
    \/ inode[i].data = disk[inode[i].sector]
    \/ \E p \in Proc : pc[p] = "header" /\ call[p].inode = i

\* Until two calls have met, a sector that is in use is marked and has one
\* owner: a file that has a name or is open, also when it is removed, or a call
\* that is making a file or releasing one.  So free_map_release() finds its
\* sectors marked, as it asserts, and a new file gets no sector of another; and
\* what an open inode has of its header is what the disk has.
SectorsOwned == clash = {} => FilesOwn /\ CallsOwn /\ HeadersRead

Contents(s) == [k \in 1 .. disk[s].length |-> disk[disk[s].start + k - 1]]

\* What open(), exec() and load() have found before they have a file.
FoundBy(p) ==
  IF /\ call[p].op \in {"load", "open", "exec"} /\ pc[p] \in {"header", "leave", "file"}
     /\ call[p].inode \in InUse
  THEN inode[call[p].inode].sector ELSE None

FileOf(f) == IF f \in Opened /\ file[f].inode \in InUse THEN inode[file[f].inode].sector ELSE None

Store == INSTANCE FileStore WITH
  Caller     <- Proc,
  Id         <- Sector, NoId <- None,
  Taken      <- [n \in Name |-> IF n \in {Programs[k] : k \in 1 .. Len(Programs)}
                               THEN 2 * (CHOOSE k \in 1 .. Len(Programs) : Programs[k] = n) - 1
                               ELSE None],
  MaxLength  <- Max(Lengths),
  names      <- [n \in Name |-> IF Matches(n) = {} THEN None
                                ELSE dir[Min(Matches(n))].sector],
  content    <- [s \in Sector |->
                   IF Named(s) \/ (\E f \in File : FileOf(f) = s)
                                \/ (\E p \in Proc : FoundBy(p) = s)
                   THEN Contents(s) ELSE <<>>],
  found      <- [p \in Proc |-> FoundBy(p)],
  opened     <- [f \in File |-> FileOf(f)],
  pos        <- [f \in File |-> IF file[f] = None THEN 0 ELSE file[f].pos],
  denied     <- {f \in Opened : file[f].deny_write}

\* What callers see is the store of FileStore, each call taking effect at one
\* instant, until two have met: a removed file keeps its contents for those who
\* have it open or are opening it, a new file never shows or changes another's,
\* a read returns the last write at its place.
StoreRefined ==
  Store!Init /\ [][clash' = {} => Store!Next \/ UNCHANGED Store!storeVars]_vars

\* Nothing is claimed of what comes after two calls have met.
Apart == clash = {}

(***************************************************************************)
(* The inductive invariant of the proofs.  Sound, in every run: what a     *)
(* call knows at each of its places; blocks are inside the device; a       *)
(* struct file has one owner at most; one process is in open().            *)
(***************************************************************************)

\* Places of a call that has an inode, that has a sector, that makes a file.
AtInode  == {"reopen", "header", "file", "erase", "mark", "drop", "unlist"}
AtNew    == {"flip", "scan_data", "flip_data", "write_header", "zeros", "add", "slot", "entry",
             "undo"}
AtSector == {"search", "reopen", "insert", "header", "erase", "release"} \cup AtNew

Opening == {"load", "open", "exec"}

Shape(l, c) ==
  /\ l \in AtInode => c.inode # None
  /\ l \notin AtInode \cup {"leave"} => c.inode = None
  /\ l \in AtSector => c.sector # None
  /\ l \in AtNew \cup {"scan"} => c.op = "create" /\ c.name # None
  /\ l = "root" => c.op \in Opening \cup {"remove", "create"} /\ c.name # None
  /\ l \in {"lookup", "search", "reopen", "insert", "header"} => c.op \in Opening \cup {"remove"}
  /\ l = "file" \/ (l = "leave" /\ c.inode # None) => c.op \in Opening
  /\ l \in {"erase", "mark"} => c.op = "remove"
  /\ l = "loaded" <=> c.file # None
  /\ l \in {"flip_data", "write_header", "zeros"} => Extent(c.start, c.length) \subseteq Sector

Shapes == \A p \in Proc : Shape(pc[p], call[p])

Extents ==
  /\ \A s \in Sector : disk[s] \in DiskInode => FileData(s) \subseteq Sector
  /\ \A i \in InUse : Extent(inode[i].data.start, inode[i].data.length) \subseteq Sector

\* The files of a process: those of its descriptors, and the one it loads.
Handle(p, h) == IF h \in Fd THEN files[p][h] ELSE call[p].file

Descriptors ==
  \A p, q \in Proc : \A g, h \in Fd \cup {-1} : Handle(p, g) # None =>
    /\ Handle(p, g) \in Opened
    /\ Handle(p, g) = Handle(q, h) => p = q /\ g = h

OneLocked == \A p, q \in Proc : Locked(p) /\ Locked(q) => p = q

Sound == TypeOK /\ Shapes /\ Extents /\ Descriptors /\ OneLocked /\ Met \subseteq clash

\* Until two calls have met on the list of open inodes: the list, the counts,
\* and what a call knows of an inode.
Listed ==
  /\ Range(open_inodes) = InUse /\ IsInjective(open_inodes)
  /\ \A i, j \in InUse : inode[i].sector = inode[j].sector => i = j

CountsMatch ==
  \A i \in InUse :
    /\ inode[i].open_cnt = Cardinality(Users(i)) + Cardinality(Holders(i))
    /\ inode[i].deny_write_cnt = Cardinality(Denying(i))

KnowsInode(p) ==
  /\ call[p].inode # None => call[p].inode \in InUse
  /\ pc[p] = "unlist" => inode[call[p].inode].open_cnt = 0
  /\ pc[p] = "insert" => InodeOf(call[p].sector) = {}
  /\ pc[p] \in {"reopen", "header", "erase"} =>
       inode[call[p].inode].sector = call[p].sector
  /\ pc[p] = "header" => inode[call[p].inode].open_cnt = 1

Counted ==
  "list" \notin clash =>
    /\ Listed /\ CountsMatch
    /\ \A f \in Opened : file[f].inode \in InUse
    /\ \A p \in Proc : KnowsInode(p)

\* A call that relies on the entry it has found.
AtEntry(p) ==
  \/ pc[p] \in {"search", "reopen", "insert"}
  \/ call[p].op = "remove" /\ pc[p] \in {"header", "erase"}

\* Until two calls have met anywhere: entries, and what a call knows of sectors.
OneRemoving == \A p, q \in Proc : Removing(p) /\ Removing(q) => p = q

EntriesApart ==
  \A d, e \in 1 .. Slots :
    dir[d] # None /\ dir[e] # None /\ dir[d].sector = dir[e].sector => d = e

RemovedUnnamed == \A i \in InUse : inode[i].removed => ~Named(inode[i].sector)

KnowsSectors(p) ==
  /\ pc[p] = "flip" => call[p].sector \notin free_map
  /\ pc[p] = "flip_data" => Extent(call[p].start, call[p].length) \cap free_map = {}
  /\ pc[p] \in {"write_header", "zeros", "release"} =>
       call[p].sector \notin Extent(call[p].start, call[p].length)
  /\ pc[p] = "zeros" =>
       disk[call[p].sector] = [start |-> call[p].start, length |-> call[p].length]
  /\ Adding(p) => /\ disk[call[p].sector] \in DiskInode
                  /\ call[p].sector \notin FileData(call[p].sector)
  /\ pc[p] = "entry" => call[p].entry \in FreeSlots
  /\ AtEntry(p) => /\ call[p].entry \in (1 .. Slots) \ FreeSlots
                   /\ dir[call[p].entry].sector = call[p].sector
  /\ pc[p] = "mark" => ~Named(inode[call[p].inode].sector)

Owned ==
  /\ SectorsOwned
  /\ clash = {} => /\ OneRemoving /\ EntriesApart /\ RemovedUnnamed
                  /\ \A p \in Proc : KnowsSectors(p)

FileSysInv == Sound /\ Counted /\ Owned
=============================================================================
