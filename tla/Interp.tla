------------------------------- MODULE Interp -------------------------------
(***************************************************************************)
(* The interpreter of project 0 (main.c): the arrays of named lists, hash  *)
(* tables and bitmaps, the commands that create and delete them, and the   *)
(* hash tables (hash.c) with the hash commands.                            *)
(*                                                                         *)
(* What is in a list is modelled in PtrList and what is in a bitmap in     *)
(* Bitmaps.  Every name the commands are given was read by getName(), so   *)
(* it is never the empty one; quit, which frees everything and ends the    *)
(* program, is left out.                                                   *)
(***************************************************************************)
EXTENDS SequencesExt, Integers

CONSTANTS
  Name, NoName,
  ArraySize,           \* ARRAY_SIZE
  Bits,                \* width of an int
  Hash,                \* hash_int()
  MinBuckets, BestPerBucket, \* 4 and 2
  MaxElems             \* bound: items in all tables

\* An int.  Products wrap around, as in the build (gcc without optimisation).
Value   == -(2 ^ (Bits - 1)) .. (2 ^ (Bits - 1)) - 1
Wrap(n) == ((n + 2 ^ (Bits - 1)) % (2 ^ Bits)) - (2 ^ (Bits - 1))

ASSUME InterpAssumption ==
  /\ NoName \notin Name /\ ArraySize \in Nat /\ Bits \in Nat \ {0}
  /\ Hash \in [Value -> Nat]
  /\ MinBuckets \in Nat \ {0} /\ BestPerBucket \in Nat \ {0} /\ MaxElems \in Nat

VARIABLES
  slots,   \* listArray, hashArray and bitmapArray: names and flags
  tables,  \* the struct hash of each element of hashArray
  applied  \* history: those whose values hash_apply changed, until they are cleared

interpVars == <<slots, tables, applied>>

Kind == {"list", "hashtable", "bitmap"}
Slot == 1 .. ArraySize

\* hash_init(): the smallest table.
NewTable == [buckets |-> [b \in 1 .. MinBuckets |-> <<>>], elem_cnt |-> 0]

InterpTypeOK ==
  /\ slots \in [Kind -> [Slot -> [name : Name \cup {NoName}, used : BOOLEAN,
                                  allocated : BOOLEAN]]]
  /\ \A i \in Slot : /\ tables[i].buckets \in Seq(Seq(Value))
                     /\ tables[i].elem_cnt \in Nat
  /\ applied \subseteq Slot

InitialSlot == [name |-> NoName, used |-> FALSE, allocated |-> FALSE]

InterpInit ==
  /\ slots = [k \in Kind |-> [i \in Slot |-> InitialSlot]]
  /\ tables = [i \in Slot |-> NewTable] /\ applied = {}

-----------------------------------------------------------------------------
(* hash.c *)

BucketOf(h, v) == (Hash[v] % Len(h.buckets)) + 1

\* find_elem() in the bucket of v.
Finds(h, v) == \E k \in DOMAIN h.buckets[BucketOf(h, v)] :
                 h.buckets[BucketOf(h, v)][k] = v

InsertElem(h, v) ==
  [buckets |-> [h.buckets EXCEPT ![BucketOf(h, v)] = <<v>> \o @],
   elem_cnt |-> h.elem_cnt + 1]

\* Mutant: a removed element stays counted.
RemoveUncounted(h, v) ==
  [h EXCEPT !.buckets[BucketOf(h, v)] = RemoveAt(@, SelectInSeq(@, LAMBDA x : x = v))]

\* remove_elem() of the first element of the bucket that equals v.
RemoveElem(h, v) ==
  [buckets |-> [h.buckets EXCEPT ![BucketOf(h, v)] =
                  RemoveAt(@, SelectInSeq(@, LAMBDA x : x = v))],
   elem_cnt |-> h.elem_cnt - 1]

\* The power of 2 that rehash() finds by turning off low bits.
PowerBelow[n \in Nat] == IF n < 2 THEN n ELSE 2 * PowerBelow[n \div 2]

BucketCnt(cnt) ==
  PowerBelow[IF cnt \div BestPerBucket < MinBuckets THEN MinBuckets
             ELSE cnt \div BestPerBucket]

\* Mutant: the elements go to the bucket with the number they had.
MovedInPlace(h, n) ==
  [h EXCEPT !.buckets = [b \in 1 .. n |-> IF b \in DOMAIN @ THEN @[b] ELSE <<>>]]

\* rehash(): from the first old bucket on, every element goes to the front of
\* its new bucket.
Moved(h, n) ==
  FoldLeft(LAMBDA g, v : [g EXCEPT !.buckets[BucketOf(g, v)] = <<v>> \o @],
           [h EXCEPT !.buckets = [b \in 1 .. n |-> <<>>]],
           FlattenSeq(h.buckets))

\* rehash() leaves the table alone if the count of buckets is right or there
\* is no memory.
Rehashed(h) ==
  IF BucketCnt(h.elem_cnt) = Len(h.buckets) THEN {h}
  ELSE {h, Moved(h, BucketCnt(h.elem_cnt))}

\* hash_insert(), hash_replace(), hash_delete(): what the table can be after.
Inserted(h, v) == Rehashed(IF Finds(h, v) THEN h ELSE InsertElem(h, v))

Replaced(h, v) == Rehashed(InsertElem(IF Finds(h, v) THEN RemoveElem(h, v) ELSE h, v))

Deleted(h, v) == IF Finds(h, v) THEN Rehashed(RemoveElem(h, v)) ELSE {h}

\* hash_clear()
Cleared(h) == [buckets |-> [b \in DOMAIN h.buckets |-> <<>>], elem_cnt |-> 0]

\* hash_apply() of an action that gives an item a new value.
Applied(h, image) ==
  [h EXCEPT !.buckets = [b \in DOMAIN @ |->
     [k \in DOMAIN @[b] |-> image[@[b][k]]]]]

-----------------------------------------------------------------------------
(* main.c *)

Empties(k)    == {i \in Slot : ~slots[k][i].used}
Targets(k, n) == {i \in Slot : slots[k][i].name = n}
First(is)     == CHOOSE i \in is : \A j \in is : i <= j

\* deleteList() and deleteHashtable() clear the name, deleteBitmap() does not.
Released(k, s) ==
  IF k = "bitmap" THEN [s EXCEPT !.used = FALSE]
  ELSE [s EXCEPT !.name = NoName, !.used = FALSE]

\* Mutant: a table is deleted with its values in it.
ClearedNot(h) == h

\* deleteHashtable(): the struct hash stays, for the next table in the slot.
Emptied(h) == Cleared(h)

\* createList(), createHashtable(), createBitmap(): the first slot that is not
\* used; the list or table there is kept if there was one before.
Create(k, n) ==
  /\ Empties(k) # {}
  /\ LET i == First(Empties(k))
     IN  /\ slots' = [slots EXCEPT ![k][i] =
              [name |-> n, used |-> TRUE, allocated |-> k # "bitmap"]]
         /\ tables' = IF k = "hashtable" /\ ~slots[k][i].allocated
                      THEN [tables EXCEPT ![i] = NewTable] ELSE tables
         /\ UNCHANGED applied

\* Lists are searched for a name before hash tables, and those before bitmaps.
KindOf(n) == IF Targets("list", n) # {} THEN "list"
             ELSE IF Targets("hashtable", n) # {} THEN "hashtable" ELSE "bitmap"

\* delete() of the first with the name.
Delete(n) ==
  LET k == KindOf(n)
      i == First(Targets(k, n))
  IN  /\ Targets(k, n) # {} /\ slots[k][i].used
      /\ slots' = [slots EXCEPT ![k][i] = Released(k, @)]
      /\ IF k = "hashtable"
         THEN tables' = [tables EXCEPT ![i] = Emptied(@)] /\ applied' = applied \ {i}
         ELSE UNCHANGED <<tables, applied>>

\* The commands on the first hash table with the name.
OnTable(n, i) == Targets("hashtable", n) # {} /\ i = First(Targets("hashtable", n))

Elems == FoldLeft(LAMBDA sum, i : sum + tables[i].elem_cnt, 0, [i \in Slot |-> i])

HashInsert(i, v) ==
  /\ Elems < MaxElems /\ UNCHANGED <<slots, applied>>
  /\ \E h \in Inserted(tables[i], v) : tables' = [tables EXCEPT ![i] = h]

HashReplace(i, v) ==
  /\ Elems < MaxElems /\ UNCHANGED <<slots, applied>>
  /\ \E h \in Replaced(tables[i], v) : tables' = [tables EXCEPT ![i] = h]

HashDelete(i, v) ==
  /\ UNCHANGED <<slots, applied>>
  /\ \E h \in Deleted(tables[i], v) : tables' = [tables EXCEPT ![i] = h]

HashClear(i) ==
  tables' = [tables EXCEPT ![i] = Cleared(@)] /\ applied' = applied \ {i} /\ UNCHANGED slots

\* hash_apply: square and triple, of which the latter takes the cube.  An item
\* stays in the bucket of its old value.
HashApply(i, image) ==
  /\ tables' = [tables EXCEPT ![i] = Applied(@, image)]
  /\ applied' = IF tables' = tables THEN applied ELSE applied \cup {i}
  /\ UNCHANGED slots

Square == [v \in Value |-> Wrap(v * v)]
Triple == [v \in Value |-> Wrap(Wrap(v * v) * v)]

InterpNext ==
  \/ \E k \in Kind, n \in Name : Create(k, n)
  \/ \E n \in Name :
       \/ Delete(n)
       \/ \E i \in Slot :
            /\ OnTable(n, i)
            /\ \/ \E v \in Value : \/ HashInsert(i, v) \/ HashReplace(i, v)
                                   \/ HashDelete(i, v)
               \/ HashClear(i) \/ HashApply(i, Square) \/ HashApply(i, Triple)

InterpSpec == InterpInit /\ [][InterpNext]_interpVars

-----------------------------------------------------------------------------
(* Properties *)

Values(h) == UNION {Range(h.buckets[b]) : b \in DOMAIN h.buckets}

\* Where a value is in its bucket, hash_find() finds it.
IsProper(h) ==
  /\ IsInjective(FlattenSeq(h.buckets))
  /\ \A v \in Value : v \in Values(h) <=> Finds(h, v)

\* A hash table is a set of values: each is there once and hash_find() finds it,
\* through all changes of the number of buckets, failed ones included, and after
\* hash_insert, hash_replace and hash_delete it has, or has not, the value they
\* name.  That is so unless hash_apply has changed values, which stay where they
\* were, until the table is cleared (hash_clear, delete).  What holds even then:
\* the items are counted, and no command loses or adds a value other than its own.
IsSet ==
  /\ InterpTypeOK
  /\ \A i \in Slot :
       LET t == tables[i]
       IN  /\ t.elem_cnt = Len(FlattenSeq(t.buckets))
           /\ i \notin applied => IsProper(t)
           /\ \A v \in Value :
                /\ \A h \in Inserted(t, v) \cup Replaced(t, v) \cup Deleted(t, v) :
                     Values(h) \ {v} = Values(t) \ {v}
                /\ \A h \in Inserted(t, v) \cup Replaced(t, v) : v \in Values(h)
                /\ i \notin applied => \A h \in Deleted(t, v) : v \notin Values(h)

\* A name that a command finds is one that was created and not deleted since,
\* however slots are used again (lists and hash tables), and what a slot that
\* is not used has is empty, since the next create will not empty it.
NamesLive ==
  /\ \A k \in Kind \ {"bitmap"}, i \in Slot :
       slots[k][i].name # NoName => slots[k][i].used /\ slots[k][i].allocated
  /\ \A i \in Slot : ~slots["hashtable"][i].used => Values(tables[i]) = {}
=============================================================================
