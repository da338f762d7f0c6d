------------------------------- MODULE PtrList -------------------------------
(***************************************************************************)
(* The doubly linked lists of project 0 (list.c) under the list commands   *)
(* of its interpreter (main.c): every assignment to a next or prev pointer *)
(* is there, in the order of the code, because elements that are the same  *)
(* or neighbours make the order matter.                                    *)
(*                                                                         *)
(* A command names its places by a count from the front.  Counts beyond    *)
(* the list, popping from an empty list, splicing a range into itself and  *)
(* moving the duplicates of a list to the same list fail an assertion, are *)
(* undefined or never end (list_unique()), and are not among the inputs.   *)
(***************************************************************************)
EXTENDS SequencesExt, Integers

CONSTANTS
  Lists,   \* listArray
  Elem,    \* memory for struct list_items
  Value,
  NoValue, \* a struct list_item that is free
  Null

Head_(l) == <<"head", l>>
Tail_(l) == <<"tail", l>>
Node == Elem \cup {Head_(l) : l \in Lists} \cup {Tail_(l) : l \in Lists}

VARIABLES
  command, \* the last command
  ptr,  \* the pointers: of each node the next and the prev one
  data  \* the value in each element

vars == <<command, ptr, data>>

TypeOK ==
  /\ ptr.next \in [Node -> Node \cup {Null}] /\ ptr.prev \in [Node -> Node \cup {Null}]
  /\ data \in [Elem -> Value \cup {NoValue}]

\* list_init() of every list.
Init ==
  /\ command = ""
  /\ ptr = [next |-> [n \in Node |-> IF \E l \in Lists : n = Head_(l)
                                     THEN Tail_(n[2]) ELSE Null],
            prev |-> [n \in Node |-> IF \E l \in Lists : n = Tail_(l)
                                     THEN Head_(n[2]) ELSE Null]]
  /\ data = [e \in Elem |-> NoValue]

-----------------------------------------------------------------------------
(* list.c *)

SetNext(p, n, to) == [p EXCEPT !.next[n] = to]
SetPrev(p, n, to) == [p EXCEPT !.prev[n] = to]

\* From list_begin(): the nodes up to the tail, the tail included.
RECURSIVE From(_, _, _)
From(p, n, l) == IF n = Tail_(l) THEN <<n>> ELSE <<n>> \o From(p, p.next[n], l)
Nodes(p, l)    == From(p, p.next[Head_(l)], l)
Elements(p, l) == Front(Nodes(p, l))

\* The node after i steps from list_begin().
Nth(p, l, i) == Nodes(p, l)[i + 1]

ListInsert(p, before, e) ==
  LET p1 == SetPrev(p, e, p.prev[before])
      p2 == SetNext(p1, e, before)
      p3 == SetNext(p2, p2.prev[before], e)
  IN  SetPrev(p3, before, e)

ListRemove(p, e) ==
  LET p1 == SetNext(p, p.prev[e], p.next[e])
  IN  SetPrev(p1, p1.next[e], p1.prev[e])

\* list_splice(); `last' is the last node of the range, list_prev() of the
\* argument, and the range is not empty.
SpliceRange(p, before, first, last) ==
  LET p1 == SetNext(p, p.prev[first], p.next[last])
      p2 == SetPrev(p1, p1.next[last], p1.prev[first])
      p3 == SetPrev(p2, first, p2.prev[before])
      p4 == SetNext(p3, last, before)
      p5 == SetNext(p4, p4.prev[before], first)
  IN  SetPrev(p5, before, last)

ListSplice(p, before, first, end) ==
  IF first = end THEN p ELSE SpliceRange(p, before, first, p.prev[end])

\* list_reverse(): swap the pointers of each element, then of the ends.
ListReverse(p, l) ==
  LET es == Elements(p, l)
      turned == FoldLeft(LAMBDA q, e : SetNext(SetPrev(q, e, q.next[e]), e, q.prev[e]), p, es)
      h  == Head_(l)
      t  == Tail_(l)
      p1 == SetPrev(SetNext(turned, h, turned.prev[t]), t, turned.next[h])
      x  == p1.next[h]
      y  == p1.prev[t]
  IN  IF es = <<>> THEN p ELSE SetNext(SetPrev(p1, x, p1.next[y]), y, p1.prev[x])

Adjacent(p, a, b) == p.next[a] = b

\* Mutant: the element after the two does not learn of the swap.
SwapNextHalf(p, a, b) ==
  LET before == p.prev[a]
      p1 == SetPrev(SetNext(p, before, b), a, b)
      p2 == SetPrev(SetNext(p1, a, p1.next[b]), b, before)
  IN  SetNext(p2, b, a)

\* list_swap() of a with the element after it.
SwapNext(p, a, b) ==
  LET before == p.prev[a]
      p1 == SetNext(p, before, b)
      p2 == SetPrev(p1, p1.next[b], a)
      p3 == SetPrev(p2, a, b)
      p4 == SetNext(p3, a, p3.next[b])
      p5 == SetPrev(p4, b, before)
  IN  SetNext(p5, b, a)

SwapApart(p, a, b) ==
  LET before == p.prev[a]
      after  == p.next[a]
      p1 == SetNext(p, before, b)
      p2 == SetPrev(p1, after, b)
      p3 == SetNext(p2, p2.prev[b], a)
      p4 == SetPrev(p3, p3.next[b], a)
      p5 == SetPrev(p4, a, p4.prev[b])
      p6 == SetNext(p5, a, p5.next[b])
      p7 == SetPrev(p6, b, before)
  IN  SetNext(p7, b, after)

ListSwap(p, a, b) ==
  CASE a = b            -> p
    [] Adjacent(p, a, b) -> SwapNext(p, a, b)
    [] Adjacent(p, b, a) -> SwapNext(p, b, a)
    [] OTHER            -> SwapApart(p, a, b)

\* list_shuffle(): what it can make of p; from the i-th element down, each is
\* swapped with one before it.
RECURSIVE Shuffled(_, _, _)
Shuffled(p, l, i) ==
  IF i <= 0 THEN {p}
  ELSE UNION {Shuffled(ListSwap(p, Nth(p, l, i), Nth(p, l, r)), l, i - 1)
                : r \in 0 .. i - 1}

\* list_less() of two elements.
Less(a, b) == data[a] < data[b]

\* find_end_of_run() from a.
RECURSIVE EndOfRun(_, _, _)
EndOfRun(p, a, l) ==
  LET n == p.next[a]
  IN  IF n = Tail_(l) \/ Less(n, a) THEN n ELSE EndOfRun(p, n, l)

\* Mutant: the merge takes from the second run when the elements are equal.
TakesSecond(b, a) == ~Less(a, b)

\* inplace_merge(): whether the element at b0 goes before the one at a0.
GoesFirst(b, a) == Less(b, a)

RECURSIVE InplaceMerge(_, _, _, _)
InplaceMerge(p, a0, a1b0, b1) ==
  IF a0 = a1b0 \/ a1b0 = b1 THEN p
  ELSE IF ~GoesFirst(a1b0, a0) THEN InplaceMerge(p, p.next[a0], a1b0, b1)
  ELSE LET next == p.next[a1b0]
       IN  InplaceMerge(ListSplice(p, a0, p.prev[next], next), a0, next, b1)

\* One pass of list_sort() from a0: the list, and the number of runs it has.
RECURSIVE SortPass(_, _, _)
SortPass(p, a0, l) ==
  IF a0 = Tail_(l) THEN <<p, 0>>
  ELSE LET a1b0 == EndOfRun(p, a0, l)
           b1   == EndOfRun(p, a1b0, l)
           pass == SortPass(InplaceMerge(p, a0, a1b0, b1), b1, l)
       IN  IF a1b0 = Tail_(l) THEN <<p, 1>> ELSE <<pass[1], pass[2] + 1>>

RECURSIVE ListSort(_, _)
ListSort(p, l) ==
  LET pass == SortPass(p, p.next[Head_(l)], l)
  IN  IF pass[2] > 1 THEN ListSort(pass[1], l) ELSE pass[1]

\* list_insert_ordered() of an element with value v: where it goes.
OrderedPlace(p, l, v) ==
  SelectInSeq(Nodes(p, l), LAMBDA n : n = Tail_(l) \/ v < data[n])

\* list_unique() from elem; dups is a list or Null.
RECURSIVE UniqueFrom(_, _, _, _)
UniqueFrom(p, elem, l, dups) ==
  LET next == p.next[elem]
      cut  == ListRemove(p, next)
  IN  IF next = Tail_(l) THEN p
      ELSE IF Less(elem, next) \/ Less(next, elem) THEN UniqueFrom(p, next, l, dups)
      ELSE UniqueFrom(IF dups = Null THEN cut ELSE ListInsert(cut, Tail_(dups), next),
                      elem, l, dups)

ListUnique(p, l, dups) ==
  IF p.next[Head_(l)] = Tail_(l) THEN p ELSE UniqueFrom(p, p.next[Head_(l)], l, dups)

-----------------------------------------------------------------------------
(* Commands of main.c *)

\* The pointers of elements that a command took off, which nobody looks at
\* again, are forgotten.
Without(p, es) ==
  [next |-> [n \in Node |-> IF n \in es THEN Null ELSE p.next[n]],
   prev |-> [n \in Node |-> IF n \in es THEN Null ELSE p.prev[n]]]

Size(l) == Len(Elements(ptr, l))
Free == {e \in Elem : data[e] = NoValue}

\* list_insert, list_push_front and list_push_back.
InsertNth(l, i, e, v) ==
  /\ e \in Free /\ i <= Size(l)
  /\ data' = [data EXCEPT ![e] = v]
  /\ ptr' = ListInsert(ptr, Nth(ptr, l, i), e)

InsertOrdered(l, e, v) ==
  /\ e \in Free
  /\ data' = [data EXCEPT ![e] = v]
  /\ ptr' = ListInsert(ptr, Nodes(ptr, l)[OrderedPlace(ptr, l, v)], e)

\* list_remove, list_pop_front and list_pop_back.
RemoveNth(l, i) ==
  /\ i < Size(l)
  /\ LET e == Nth(ptr, l, i)
     IN  ptr' = Without(ListRemove(ptr, e), {e}) /\ data' = [data EXCEPT ![e] = NoValue]

\* deleteList(): pop and free one element after the other.
DeleteList(l) ==
  /\ ptr' = Without(FoldLeft(ListRemove, ptr, Elements(ptr, l)), Range(Elements(ptr, l)))
  /\ data' = [e \in Elem |-> IF e \in Range(Elements(ptr, l)) THEN NoValue ELSE data[e]]

\* list_splice: elements start .. end - 1 of `from', before the i-th of `to'.
Splice(to, i, from, start, end) ==
  /\ i <= Size(to) /\ start <= end /\ end <= Size(from)
  /\ to = from => i < start \/ i >= end
  /\ ptr' = ListSplice(ptr, Nth(ptr, to, i), Nth(ptr, from, start), Nth(ptr, from, end))
  /\ UNCHANGED data

Swap(l, i, j) ==
  /\ i < Size(l) /\ j < Size(l)
  /\ ptr' = ListSwap(ptr, Nth(ptr, l, i), Nth(ptr, l, j))
  /\ UNCHANGED data

ReverseList(l) == ptr' = ListReverse(ptr, l) /\ UNCHANGED data
Sort(l)        == ptr' = ListSort(ptr, l) /\ UNCHANGED data
Shuffle(l)     == ptr' \in Shuffled(ptr, l, Size(l) - 1) /\ UNCHANGED data

\* list_unique: without a list for the duplicates they are lost.
Unique(l, dups) ==
  LET p    == ListUnique(ptr, l, dups)
      lost == Range(Elements(ptr, l)) \ Range(Elements(p, l))
  IN  /\ dups # l
      /\ ptr' = IF dups = Null THEN Without(p, lost) ELSE p
      /\ UNCHANGED data

Told(c) == command' = c

Next ==
  \E l \in Lists :
    \/ Told("insert") /\ \E i \in 0 .. Size(l), e \in Elem, v \in Value :
         InsertNth(l, i, e, v)
    \/ Told("ordered") /\ \E e \in Elem, v \in Value : InsertOrdered(l, e, v)
    \/ Told("remove") /\ \E i \in 0 .. Size(l) : RemoveNth(l, i)
    \/ Told("swap") /\ \E i, j \in 0 .. Size(l) : Swap(l, i, j)
    \/ Told("delete") /\ DeleteList(l)
    \/ Told("reverse") /\ ReverseList(l)
    \/ Told("sort") /\ Sort(l)
    \/ Told("shuffle") /\ Shuffle(l)
    \/ Told("unique") /\ \E dups \in Lists \cup {Null} : Unique(l, dups)
    \/ /\ Told("splice")
       /\ \E from \in Lists : \E i \in 0 .. Size(l), start, end \in 0 .. Size(from) :
            Splice(l, i, from, start, end)

Spec == Init /\ [][Next]_vars

-----------------------------------------------------------------------------
(* Properties *)

\* After every command the links of a list agree in both directions, so that
\* going through it backwards gives the elements that going forwards gives,
\* and no element is on two lists or on one twice (list_swap(), list_splice(),
\* list_reverse()).
Linked ==
  /\ TypeOK
  /\ \A l \in Lists :
       LET ns == <<Head_(l)>> \o Nodes(ptr, l)
       IN  /\ \A k \in 2 .. Len(ns) : ptr.prev[ns[k]] = ns[k - 1]
           /\ \A e \in Range(Elements(ptr, l)) : data[e] # NoValue
           /\ IsInjective(ns)
  /\ \A l, m \in Lists : l # m =>
       Range(Elements(ptr, l)) \cap Range(Elements(ptr, m)) = {}

Seqs == INSTANCE SeqLists WITH lists <- [l \in Lists |-> Elements(ptr, l)]

\* The pointers implement sequences: every command does to them what it does
\* to the sequences of elements, sorting is stable, and no command on a list
\* disturbs another.
ImplementsSequences == Seqs!Spec
=============================================================================
