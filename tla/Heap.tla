-------------------------------- MODULE Heap --------------------------------
(***************************************************************************)
(* The kernel's memory allocators: the page allocator of threads/palloc.c  *)
(* (the kernel pool) and malloc() over it (threads/malloc.c), as threads   *)
(* that can be preempted call them.                                        *)
(*                                                                         *)
(* An address is a number, page by page, and pages are numbered from 1 so  *)
(* that 0 is the null pointer.  A step is what a thread does between two   *)
(* lock operations; a lock is a variable with the thread that has it (how  *)
(* a lock works is modelled in ThreadSched).  Sizes are numbers of size_t, *)
(* that is modulo Word.                                                    *)
(***************************************************************************)
EXTENDS KernelList, FiniteSetsExt, Integers

CONSTANTS
  Caller,     \* the threads that call the allocators
  Pages,      \* pages in the pool
  PageSize, Header, MinBlock, \* PGSIZE, sizeof (struct arena) and 16
  Word,       \* 2^32
  Sizes,      \* sizes that malloc() and realloc() are asked for
  Counts,     \* numbers of elements that calloc() is asked for
  MaxHeld,    \* bound: what a thread has allocated at a time
  None

ASSUME HeapAssumption ==
  /\ Pages \in Nat /\ MinBlock \in Nat \ {0} /\ MaxHeld \in Nat
  /\ PageSize \in Nat \ {0} /\ Header \in Nat \ {0} /\ 2 * Header <= PageSize
  /\ Word \in Nat /\ Pages * PageSize < Word
  /\ Sizes \subseteq 0 .. Word - 1 /\ Counts \subseteq 0 .. Word - 1

VARIABLES
  used_map,  \* pages that are marked in the pool
  arena,     \* of each page the header, None where there is no ARENA_MAGIC
  free_list,
  desc_lock, pool_lock,
  call,      \* what each thread is about in malloc() or free(), or None
  held       \* what each thread has allocated, [addr, size, asked]

memVars == <<used_map, arena, free_list>>
lockVars == <<desc_lock, pool_lock>>
heapVars == <<memVars, lockVars, call, held>>

Page == 1 .. Pages

\* malloc_init(): the block sizes stand for the descriptors.
Doublings == {1, 2, 4, 8, 16, 32, 64, 128, 256, 512}
Desc == {b \in {MinBlock * m : m \in Doublings} : b < PageSize \div 2}

BlocksPerArena(d) == (PageSize - Header) \div d

Start(page) == page * PageSize
ArenaToBlock(page, d, k) == Start(page) + Header + k * d
Blocks(page, d) == {ArenaToBlock(page, d, k) : k \in 0 .. BlocksPerArena(d) - 1}
PageOf(addr) == addr \div PageSize

ArenaRecord == [desc : Desc \cup {0}, free_cnt : Nat]
CallRecord ==
  [pc : {"lock", "scan", "flip", "arena", "pop", "push", "clear"},
   kind : {"block", "big", "page"}, desc : Desc \cup {0}, cnt : Nat, asked : Nat,
   page : Page \cup {0},                    \* where the pages start
   addr : Nat,                              \* the block that free() is about
   old  : Nat]                              \* realloc(): the old block, or 0
Region == [addr : Nat, size : Nat, asked : Nat]

ASSUME NoneIsNothing == None \notin Caller \cup ArenaRecord \cup CallRecord

HeapTypeOK ==
  /\ used_map \subseteq Page
  /\ arena \in [Page -> ArenaRecord \cup {None}]
  /\ free_list \in [Desc -> Seq(Nat)]
  /\ desc_lock \in [Desc -> Caller \cup {None}] /\ pool_lock \in Caller \cup {None}
  /\ call \in [Caller -> CallRecord \cup {None}]
  /\ held \in [Caller -> SUBSET Region]

HeapInit ==
  /\ used_map = {} /\ arena = [p \in Page |-> None]
  /\ free_list = [d \in Desc |-> <<>>]
  /\ desc_lock = [d \in Desc |-> None] /\ pool_lock = None
  /\ call = [t \in Caller |-> None]
  /\ held = [t \in Caller |-> {}]

-----------------------------------------------------------------------------
(* Calls *)

\* The smallest descriptor for a size.
Fits(size) == {d \in Desc : d >= size}

\* Pages for a big block and its header, in arithmetic of size_t.
PageCnt(size) == ((((size + Header) % Word) + PageSize - 1) % Word) \div PageSize

\* What malloc() of size does first, for a caller who asked for so many bytes.
Request(size, asked, old) ==
  [pc    |-> IF Fits(size) = {} THEN "scan" ELSE "lock",
   kind  |-> IF Fits(size) = {} THEN "big" ELSE "block",
   desc  |-> IF Fits(size) = {} THEN 0 ELSE Min(Fits(size)),
   cnt   |-> IF Fits(size) = {} THEN PageCnt(size) ELSE 1,
   asked |-> asked, page |-> 0, addr |-> 0, old |-> old]

\* What free() of the block at addr does first.
Freeing(addr) ==
  LET a == arena[PageOf(addr)]
  IN  [pc    |-> IF a.desc = 0 THEN "clear" ELSE "push",
       kind  |-> IF a.desc = 0 THEN "big" ELSE "block",
       desc  |-> a.desc, cnt |-> IF a.desc = 0 THEN a.free_cnt ELSE 1,
       asked |-> 0, page |-> PageOf(addr), addr |-> addr, old |-> 0]

NoCall(t)  == call[t] = None
MayAsk(t) == NoCall(t) /\ Cardinality(held[t]) < MaxHeld

Malloc(t, size) ==
  /\ MayAsk(t) /\ size # 0
  /\ call' = [call EXCEPT ![t] = Request(size, size, 0)]
  /\ UNCHANGED <<memVars, lockVars, held>>

\* calloc() gives up when the product is smaller than a factor.
Calloc(t, a, b) ==
  LET size == (a * b) % Word
  IN  /\ MayAsk(t) /\ size # 0 /\ size >= a /\ size >= b
      /\ call' = [call EXCEPT ![t] = Request(size, a * b, 0)]
      /\ UNCHANGED <<memVars, lockVars, held>>

\* palloc_get_page() by a thread that wants pages.
GetPage(t) ==
  /\ MayAsk(t)
  /\ call' = [call EXCEPT ![t] =
        [pc |-> "scan", kind |-> "page", desc |-> 0, cnt |-> 1,
         asked |-> PageSize, page |-> 0, addr |-> 0, old |-> 0]]
  /\ UNCHANGED <<memVars, lockVars, held>>

IsPage(r) == r.addr % PageSize = 0
Without(t, addr) == {r \in held[t] : r.addr # addr}

\* The block is the caller's no longer.
Free(t, r) ==
  /\ NoCall(t) /\ r \in held[t]
  /\ call' = [call EXCEPT ![t] =
        IF IsPage(r)
        THEN [pc |-> "clear", kind |-> "page", desc |-> 0, cnt |-> 1, asked |-> 0,
              page |-> PageOf(r.addr), addr |-> r.addr, old |-> 0]
        ELSE Freeing(r.addr)]
  /\ held' = [held EXCEPT ![t] = Without(t, r.addr)]
  /\ UNCHANGED <<memVars, lockVars>>

\* realloc() to a size that is not 0 is malloc(), and then free() if it gave a
\* block; to 0 it is free().
Realloc(t, r, size) ==
  /\ MayAsk(t) /\ r \in held[t] /\ ~IsPage(r) /\ size # 0
  /\ call' = [call EXCEPT ![t] = Request(size, size, r.addr)]
  /\ UNCHANGED <<memVars, lockVars, held>>

\* A call returns a region, and realloc() goes on to free the old block.
Return(t, addr, size) ==
  LET c == call[t]
  IN  /\ call' = [call EXCEPT ![t] = IF c.old = 0 THEN None ELSE Freeing(c.old)]
      /\ held' = [held EXCEPT ![t] = Without(t, c.old) \cup
                    {[addr |-> addr, size |-> size, asked |-> c.asked]}]

-----------------------------------------------------------------------------
(* Steps *)

Stands(t, pc) == ~NoCall(t) /\ call[t].pc = pc
Go(t, pc) == call' = [call EXCEPT ![t].pc = pc]

\* Mutant: malloc() and free() do not exclude each other.
TakesNothing(d, t) == UNCHANGED desc_lock

\* lock_acquire() and lock_release() of a descriptor.
TakeDesc(d, t) == desc_lock[d] = None /\ desc_lock' = [desc_lock EXCEPT ![d] = t]
DropDesc(d) == desc_lock' = IF d = 0 THEN desc_lock ELSE [desc_lock EXCEPT ![d] = None]

\* malloc(): lock the descriptor; a new arena if there is no free block.
Lock(t) ==
  LET d == call[t].desc
  IN  /\ Stands(t, "lock") /\ TakeDesc(d, t)
      /\ Go(t, IF free_list[d] = <<>> THEN "scan" ELSE "pop")
      /\ UNCHANGED <<memVars, pool_lock, held>>

\* bitmap_scan(): where that many pages in a row are free.
Gaps(cnt) == {p \in Page : p .. p + cnt - 1 \subseteq Page \ used_map}

\* Mutant: the pool's lock stays taken when no pages are left.
KeepPool(t) == pool_lock' = t

\* palloc_get_multiple() that finds no pages has locked and released the pool.
DropPool(t) == UNCHANGED pool_lock

NoPages(t) ==
  LET c == call[t]
  IN  /\ Stands(t, "scan")
      /\ IF c.cnt = 0 THEN UNCHANGED pool_lock
         ELSE pool_lock = None /\ Gaps(c.cnt) = {} /\ DropPool(t)
      /\ DropDesc(c.desc)
      /\ call' = [call EXCEPT ![t] = None]
      /\ UNCHANGED <<memVars, held>>

\* Mutant: the pool is not locked while its map is searched and marked.
PoolOpen(t) == UNCHANGED pool_lock

LockPool(t) == pool_lock = None /\ pool_lock' = t

\* bitmap_scan_and_flip(): the search,
Scan(t) ==
  LET c == call[t]
  IN  /\ Stands(t, "scan") /\ c.cnt # 0 /\ Gaps(c.cnt) # {} /\ LockPool(t)
      /\ call' = [call EXCEPT ![t].pc = "flip", ![t].page = Min(Gaps(c.cnt))]
      /\ UNCHANGED <<memVars, desc_lock, held>>

\* and the marks; then the pool's lock is free.
Flip(t) ==
  LET c == call[t]
  IN  /\ Stands(t, "flip")
      /\ used_map' = used_map \cup (c.page .. c.page + c.cnt - 1)
      /\ pool_lock' = None
      /\ IF c.kind = "page"
         THEN Return(t, Start(c.page), PageSize)
         ELSE Go(t, "arena") /\ UNCHANGED held
      /\ UNCHANGED <<arena, free_list, desc_lock>>

\* The header of a big block.
BigArena(t) ==
  LET c == call[t]
  IN  /\ Stands(t, "arena") /\ c.kind = "big"
      /\ arena' = [arena EXCEPT ![c.page] = [desc |-> 0, free_cnt |-> c.cnt]]
      /\ Return(t, Start(c.page) + Header, c.cnt * PageSize - Header)
      /\ UNCHANGED <<used_map, free_list, lockVars>>

\* The header of an arena, and its blocks on the free list.
Arena(t) ==
  LET c == call[t]
      n == BlocksPerArena(c.desc)
  IN  /\ Stands(t, "arena") /\ c.kind = "block"
      /\ arena' = [arena EXCEPT ![c.page] = [desc |-> c.desc, free_cnt |-> n]]
      /\ free_list' = [free_list EXCEPT ![c.desc] =
            @ \o [k \in 1 .. n |-> ArenaToBlock(c.page, c.desc, k - 1)]]
      /\ Go(t, "pop")
      /\ UNCHANGED <<used_map, lockVars, held>>

\* malloc() takes the first free block.
Pop(t) ==
  LET d == call[t].desc
      b == Head(free_list[d])
  IN  /\ Stands(t, "pop") /\ free_list[d] # <<>>
      /\ free_list' = [free_list EXCEPT ![d] = Tail(@)]
      /\ arena' = [arena EXCEPT ![PageOf(b)].free_cnt = @ - 1]
      /\ DropDesc(d)
      /\ Return(t, b, d)
      /\ UNCHANGED <<used_map, pool_lock>>

\* The block that comes back is the last one of its arena.
ArenaDone(page) == arena[page].free_cnt + 1 >= BlocksPerArena(arena[page].desc)

\* free(): with the descriptor's lock, the block goes to the free list.
Push(t) ==
  LET c == call[t]
      d == c.desc
  IN  /\ Stands(t, "push") /\ desc_lock[d] = None /\ ~ArenaDone(c.page)
      /\ free_list' = [free_list EXCEPT ![d] = <<c.addr>> \o @]
      /\ arena' = [arena EXCEPT ![c.page].free_cnt = @ + 1]
      /\ call' = [call EXCEPT ![t] = None]
      /\ UNCHANGED <<used_map, lockVars, held>>

\* When all blocks of the arena are free they leave the list, and the page is
\* given back with the descriptor still locked.
PushLast(t) ==
  LET c == call[t]
      d == c.desc
  IN  /\ Stands(t, "push") /\ ArenaDone(c.page) /\ TakeDesc(d, t)
      /\ free_list' = [free_list EXCEPT ![d] =
            ListRemove(@, Blocks(c.page, d))]
      /\ Go(t, "clear")
      /\ UNCHANGED <<used_map, arena, pool_lock, held>>

\* palloc_free_multiple(), which does not lock the pool.
Clear(t) ==
  LET c == call[t]
      pages == c.page .. c.page + c.cnt - 1
  IN  /\ Stands(t, "clear")
      /\ used_map' = used_map \ pages
      /\ arena' = [p \in Page |-> IF p \in pages THEN None ELSE arena[p]]
      /\ DropDesc(c.desc)
      /\ call' = [call EXCEPT ![t] = None]
      /\ UNCHANGED <<free_list, pool_lock, held>>

Step(t) ==
  \/ Lock(t) \/ NoPages(t) \/ Scan(t) \/ Flip(t) \/ BigArena(t) \/ Arena(t)
  \/ Pop(t) \/ Push(t) \/ PushLast(t) \/ Clear(t)

HeapNext ==
  \E t \in Caller :
    \/ \E size \in Sizes : Malloc(t, size)
    \/ \E a, b \in Counts : Calloc(t, a, b)
    \/ GetPage(t)
    \/ \E r \in held[t] : Free(t, r) \/ \E size \in Sizes : Realloc(t, r, size)
    \/ Step(t)

HeapSpec == HeapInit /\ [][HeapNext]_heapVars

-----------------------------------------------------------------------------
(* Properties *)

Cells(r) == r.addr .. r.addr + r.size - 1
HeldNow  == UNION {held[t] : t \in Caller}
FreeCells(d) == {b + k : b \in Range(free_list[d]), k \in 0 .. d - 1}

\* The parts of HeldApart: the bytes that were asked for,
Enough == \A r \in HeldNow : r.size >= r.asked

\* no cell twice,
Disjoint ==
  \A t, u \in Caller : \A r \in held[t], q \in held[u] :
    <<t, r>> = <<u, q>> \/ Cells(r) \cap Cells(q) = {}

\* and a place in marked pages, away from free blocks and arena headers.
Sheltered ==
  \A r \in HeldNow :
    /\ {PageOf(c) : c \in Cells(r)} \subseteq used_map
    /\ \A d \in Desc : Cells(r) \cap FreeCells(d) = {}
    /\ \A p \in Page : arena[p] # None =>
         Cells(r) \cap (Start(p) .. Start(p) + Header - 1) = {}

\* Nothing that is allocated overlaps anything else that is, an arena header
\* or a free block, and it lies in marked pages, however the threads' calls
\* interleave, and it has the bytes that were asked for (malloc(), calloc(),
\* palloc_get_multiple()).
HeldApart == HeapTypeOK /\ Enough /\ Disjoint /\ Sheltered

\* A marked page holds something that is allocated, or a call under way is
\* about it; and the free lists are about marked arenas.
NoPageLost ==
  /\ \A p \in used_map :
       \/ \E r \in HeldNow : p \in {PageOf(c) : c \in Cells(r) \cup {r.addr - Header}}
       \/ \E t \in Caller : ~NoCall(t) /\ p \in call[t].page .. call[t].page + call[t].cnt - 1
       \/ \E t \in Caller : Stands(t, "pop") /\ arena[p] # None /\ arena[p].desc = call[t].desc
  /\ \A d \in Desc : \A b \in Range(free_list[d]) :
       PageOf(b) \in used_map /\ arena[PageOf(b)] # None

\* Unless its descriptor is locked, an arena counts its blocks on the free
\* list, all its other blocks are allocated or on their way back, and one at
\* least is: an empty arena has been given back.  No page is lost (malloc(),
\* free()).
ArenaCounts ==
  /\ NoPageLost
  /\ \A p \in Page : arena[p] # None /\ arena[p].desc # 0 =>
       LET d == arena[p].desc
           out == Blocks(p, d) \ Range(free_list[d])
       IN  desc_lock[d] # None \/
             /\ arena[p].free_cnt = Cardinality(Blocks(p, d) \cap Range(free_list[d]))
             /\ out # {}
             /\ \A b \in out : (\E r \in HeldNow : r.addr = b)
                  \/ \E t \in Caller : Stands(t, "push") /\ call[t].addr = b

\* The threads never wait for one another in a circle: while a call is under
\* way, some thread can take a step of its call (the locks of the descriptors
\* and of the pool).
NobodyStuck == (\E t \in Caller : ~NoCall(t)) => \E t \in Caller : ENABLED Step(t)
=============================================================================
