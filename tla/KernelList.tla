----------------------------- MODULE KernelList -----------------------------
(***************************************************************************)
(* The ordered operations of the kernel's doubly linked lists              *)
(* (lib/kernel/list.c), on the sequence of elements a list links.  A list  *)
(* is ordered by a key, smallest key first: the code's two orders are      *)
(* alarm_ticks_comp (the key is the wake-up tick) and priority_comp, which *)
(* puts high priorities first (the key is the negated priority).           *)
(***************************************************************************)
EXTENDS Integers, Sequences, SequencesExt

(***************************************************************************)
(* The position of the first element of l that less() puts after e, or the *)
(* end of the list: equal keys stay in front, which makes every queue      *)
(* first-in first-out among threads of one priority.                       *)
(***************************************************************************)
InsertPosition(l, e, key) ==
  CHOOSE i \in 1 .. Len(l) + 1 :
    /\ i <= Len(l) => key[e] < key[l[i]]
    /\ \A j \in 1 .. i - 1 : key[l[j]] <= key[e]

\* Mutant: list_push_back(), as in the scheduler this one replaced.
ListPushBack(l, e, key) == Append(l, e)

\* list_insert_ordered()
ListInsertOrdered(l, e, key) == InsertAt(l, InsertPosition(l, e, key), e)

(***************************************************************************)
(* list_sort(), a stable merge sort: the results it may give.  `perm' says *)
(* where in the old list the k-th element of the new one stood.            *)
(***************************************************************************)
IsStableSort(l, perm, key) ==
  \A i, j \in DOMAIN l : i < j =>
    \/ key[l[perm[i]]] < key[l[perm[j]]]
    \/ key[l[perm[i]]] = key[l[perm[j]]] /\ perm[i] < perm[j]

ListSortResults(l, key) ==
  { [k \in DOMAIN l |-> l[perm[k]]] :
      perm \in { p \in Bijection(DOMAIN l, DOMAIN l) :
                  IsStableSort(l, p, key) } }

\* list_remove() of the elements in es, one after the other.
ListRemove(l, es) ==
  LET kept[k \in 0 .. Len(l)] ==
        IF k = 0 THEN <<>>
        ELSE IF l[k] \in es THEN kept[k - 1] ELSE Append(kept[k - 1], l[k])
  IN  kept[Len(l)]

\* is_sorted(): the precondition of list_insert_ordered().
Ordered(l, key) ==
  \A i, j \in DOMAIN l : i < j => key[l[i]] <= key[l[j]]

=============================================================================
