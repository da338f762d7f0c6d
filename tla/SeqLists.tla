------------------------------- MODULE SeqLists -------------------------------
(***************************************************************************)
(* What the list commands of the interpreter mean: every list is a         *)
(* sequence of elements, and a command changes the sequences it names and  *)
(* no other.                                                               *)
(***************************************************************************)
EXTENDS SequencesExt, Integers

CONSTANTS Lists, Elem, Value, NoValue

VARIABLES
  command, \* the last command
  lists, \* the sequence of each list
  data   \* the value in each element, NoValue in free memory

listVars == <<command, lists, data>>

Init == command = "" /\ lists = [l \in Lists |-> <<>>] /\ data = [e \in Elem |-> NoValue]

\* s with the elements t before position i, counted from 0.
PutAt(s, i, t) == SubSeq(s, 1, i) \o t \o SubSeq(s, i + 1, Len(s))

\* The stable order: elements of one value stay in the order they were in.
InOrder(s) ==
  LET At(x) == CHOOSE k \in 1 .. Len(s) : s[k] = x
  IN  SortSeq(s, LAMBDA x, y : data[x] < data[y] \/ (data[x] = data[y] /\ At(x) < At(y)))

\* The elements of s that equal the one before, and the rest.
Doubles(s) == {k \in 2 .. Len(s) : data[s[k]] = data[s[k - 1]]}
Keep(s, ks) == FoldLeftDomain(LAMBDA t, k : IF k \in ks THEN Append(t, s[k]) ELSE t, <<>>, s)

Set(l, s) == lists' = [lists EXCEPT ![l] = s]
Same == UNCHANGED data

InsertNth(l, i, e, v) ==
  /\ data[e] = NoValue /\ data' = [data EXCEPT ![e] = v]
  /\ Set(l, PutAt(lists[l], i, <<e>>))

InsertOrdered(l, e, v) ==
  /\ data[e] = NoValue /\ data' = [data EXCEPT ![e] = v]
  /\ Set(l, PutAt(lists[l],
            SelectInSeq(lists[l] \o <<e>>, LAMBDA x : x = e \/ data[x] > v) - 1, <<e>>))

RemoveNth(l, i) ==
  /\ data' = [data EXCEPT ![lists[l][i]] = NoValue]
  /\ Set(l, RemoveAt(lists[l], i))

Clear(l) ==
  /\ data' = [e \in Elem |-> IF e \in Range(lists[l]) THEN NoValue ELSE data[e]]
  /\ Set(l, <<>>)

Splice(to, i, from, start, end) ==
  LET part == SubSeq(lists[from], start + 1, end)
      rest(s) == SelectSeq(s, LAMBDA x : x \notin Range(part))
  IN  /\ lists' = [lists EXCEPT
            ![from] = rest(@),
            ![to] = rest(SubSeq(lists[to], 1, i)) \o part
                      \o rest(SubSeq(lists[to], i + 1, Len(lists[to])))]
      /\ Same

Swap(l, i, j) ==
  Set(l, [lists[l] EXCEPT ![i] = lists[l][j], ![j] = lists[l][i]]) /\ Same

\* The doubles leave the list, and go to the end of another one, if given.
Unique(l, dups) ==
  LET s == lists[l]
      doubles == Keep(s, Doubles(s))
      first   == Keep(s, DOMAIN s \ Doubles(s))
  IN  /\ lists' = [k \in Lists |-> IF k = l THEN first
                                  ELSE IF k \in dups THEN lists[k] \o doubles
                                  ELSE lists[k]]
      /\ Same

Told(c) == command' = c

Next ==
  \E l \in Lists :
    \/ Told("insert") /\ \E i \in 0 .. Len(lists[l]), e \in Elem, v \in Value :
         InsertNth(l, i, e, v)
    \/ Told("ordered") /\ \E e \in Elem, v \in Value : InsertOrdered(l, e, v)
    \/ Told("remove") /\ \E i \in DOMAIN lists[l] : RemoveNth(l, i)
    \/ Told("swap") /\ \E i, j \in DOMAIN lists[l] : Swap(l, i, j)
    \/ Told("delete") /\ Clear(l)
    \/ Told("reverse") /\ Set(l, Reverse(lists[l])) /\ Same
    \/ Told("sort") /\ Set(l, InOrder(lists[l])) /\ Same
    \/ /\ Told("shuffle") /\ Same
       /\ \E s \in SetToAllKPermutations(Range(lists[l])) :
            Len(s) = Len(lists[l]) /\ Set(l, s)
    \/ /\ Told("splice")
       /\ \E to \in Lists : \E i \in 0 .. Len(lists[to]), a, b \in 0 .. Len(lists[l]) :
            Splice(to, i, l, a, b)
    \/ Told("unique") /\ \E dups \in SUBSET (Lists \ {l}) : Unique(l, dups)

Spec == Init /\ [][Next]_listVars
=============================================================================
