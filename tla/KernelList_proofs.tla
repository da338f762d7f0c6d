------------------------- MODULE KernelList_proofs --------------------------
(***************************************************************************)
(* What the list operations preserve, for lists of every length: the facts *)
(* on which the proofs about the scheduler rest.                           *)
(***************************************************************************)
EXTENDS KernelList, FiniteSetTheorems, SequenceTheorems, TLAPS

LEMMA LeastNatural ==
  ASSUME NEW T \in SUBSET Nat, T # {}
  PROVE  \E m \in T : \A n \in T : m <= n
<1> DEFINE R == {ss \in Nat \X Nat : ss[1] < ss[2]}
<1>1. OpToRel(<, Nat) = R
  BY Zenon DEF OpToRel
<1>2. IsWellFoundedOn(R, Nat)
  BY <1>1, NatLessThanWellFounded
<1>3. PICK m \in T : \A n \in T : <<n, m>> \notin R
  BY <1>2, WFMin
<1>4. ASSUME NEW n \in T, n < m PROVE FALSE
  <2>1. <<n, m>> \in Nat \X Nat
    OBVIOUS
  <2>2. <<n, m>>[1] < <<n, m>>[2]
    BY <1>4
  <2> QED
    BY <2>1, <2>2, <1>3
<1> QED
  BY <1>4

(***************************************************************************)
(* list_insert_ordered() finds a position on every list, ordered or not:   *)
(* the first element that the new one goes before, or the end.             *)
(***************************************************************************)
LEMMA InsertPositionDef ==
  ASSUME NEW S, NEW l \in Seq(S), NEW e \in S, NEW key \in [S -> Int]
  PROVE  LET i == InsertPosition(l, e, key)
         IN  /\ i \in 1 .. Len(l) + 1
             /\ i <= Len(l) => key[e] < key[l[i]]
             /\ \A j \in 1 .. i - 1 : key[l[j]] <= key[e]
<1> DEFINE T == {i \in 1 .. Len(l) + 1 : i <= Len(l) => key[e] < key[l[i]]}
<1>1. T \in SUBSET Nat /\ Len(l) + 1 \in T
  OBVIOUS
<1>2. PICK m \in T : \A n \in T : m <= n
  BY <1>1, LeastNatural
<1>3. ASSUME NEW j \in 1 .. m - 1 PROVE key[l[j]] <= key[e]
  <2>1. j \in 1 .. Len(l) /\ j \notin T
    BY <1>2
  <2>2. l[j] \in S
    BY <2>1
  <2>3. key[l[j]] \in Int /\ key[e] \in Int
    BY <2>2
  <2> QED
    BY <2>1, <2>3
<1> QED
  BY <1>2, <1>3 DEF InsertPosition

\* InsertAt of the community modules, element by element.
LEMMA InsertAtElements ==
  ASSUME NEW S, NEW l \in Seq(S), NEW e \in S, NEW i \in 1 .. Len(l) + 1
  PROVE  /\ InsertAt(l, i, e) \in Seq(S)
         /\ Len(InsertAt(l, i, e)) = Len(l) + 1
         /\ \A k \in 1 .. Len(l) + 1 :
              InsertAt(l, i, e)[k] = IF k < i THEN l[k]
                                     ELSE IF k = i THEN e ELSE l[k - 1]
<1> DEFINE a == SubSeq(l, 1, i - 1)
           b == SubSeq(l, i, Len(l))
<1>1. /\ a \in Seq(S) /\ Len(a) = i - 1
      /\ \A k \in 1 .. i - 1 : a[k] = l[k]
  <2>1. \A k \in 1 .. i - 1 : l[k] \in S
    OBVIOUS
  <2> QED
    BY <2>1, SubSeqProperties
<1>2. /\ b \in Seq(S) /\ Len(b) = Len(l) + 1 - i
      /\ \A k \in 1 .. Len(l) + 1 - i : b[k] = l[i + k - 1]
  <2>1. \A k \in i .. Len(l) : l[k] \in S
    OBVIOUS
  <2> QED
    BY <2>1, SubSeqProperties
<1>3. /\ a \o <<e>> \in Seq(S) /\ Len(a \o <<e>>) = i
      /\ \A k \in 1 .. i : (a \o <<e>>)[k] = IF k < i THEN l[k] ELSE e
  BY <1>1, ConcatProperties
<1> DEFINE c == a \o <<e>>
<1>4. /\ c \in Seq(S) /\ Len(c) = i
      /\ \A k \in 1 .. i : c[k] = IF k < i THEN l[k] ELSE e
  BY <1>3
<1> HIDE DEF a, b, c
<1>5. /\ c \o b \in Seq(S) /\ Len(c \o b) = Len(c) + Len(b)
      /\ \A k \in 1 .. Len(c) + Len(b) :
           (c \o b)[k] = IF k <= Len(c) THEN c[k] ELSE b[k - Len(c)]
  BY <1>2, <1>4, ConcatProperties
<1>6. Len(c) + Len(b) = Len(l) + 1
  BY <1>2, <1>4
<1>7. ASSUME NEW k \in 1 .. Len(l) + 1
      PROVE (c \o b)[k] = IF k < i THEN l[k]
                          ELSE IF k = i THEN e ELSE l[k - 1]
  <2>1. CASE k <= i
    BY <2>1, <1>4, <1>5, <1>6
  <2>2. CASE ~(k <= i)
    <3>1. k - i \in 1 .. Len(l) + 1 - i
      BY <2>2
    <3>2. b[k - i] = l[i + (k - i) - 1]
      BY <3>1, <1>2
    <3>3. i + (k - i) - 1 = k - 1 /\ ~(k < i) /\ k # i
      BY <2>2
    <3>4. (c \o b)[k] = b[k - i]
      BY <2>2, <1>4, <1>5, <1>6
    <3> QED
      BY <3>2, <3>3, <3>4
  <2> QED
    BY <2>1, <2>2
<1>8. InsertAt(l, i, e) = c \o b
  BY DEF InsertAt, a, b, c
<1> QED
  BY <1>5, <1>6, <1>7, <1>8

(***************************************************************************)
(* The same insertion seen on functions: r is l with e put at position i.  *)
(***************************************************************************)
PutAt(l, n, e, i, r) ==
  /\ DOMAIN l = 1 .. n /\ DOMAIN r = 1 .. n + 1
  /\ \A k \in 1 .. n + 1 : k < i => r[k] = l[k]
  /\ r[i] = e
  /\ \A k \in 1 .. n + 1 : i < k => r[k] = l[k - 1]

LEMMA InsertedRange ==
  ASSUME NEW n \in Nat, NEW l, NEW r, NEW e, NEW i \in 1 .. n + 1,
         PutAt(l, n, e, i, r)
  PROVE  ToSet(r) = ToSet(l) \cup {e}
<1>1. ASSUME NEW k \in 1 .. n PROVE l[k] \in ToSet(r)
  <2>1. CASE k < i
    <3>1. k \in 1 .. n + 1 /\ r[k] = l[k]
      BY <2>1 DEF PutAt
    <3> QED
      BY <3>1 DEF PutAt, ToSet
  <2>2. CASE ~(k < i)
    <3>1. k + 1 \in 1 .. n + 1 /\ i < k + 1 /\ (k + 1) - 1 = k
      BY <2>2
    <3>2. r[k + 1] = l[k]
      BY <3>1 DEF PutAt
    <3> QED
      BY <3>1, <3>2 DEF PutAt, ToSet
  <2> QED
    BY <2>1, <2>2
<1>2. e \in ToSet(r)
  BY DEF PutAt, ToSet
<1>3. ASSUME NEW k \in 1 .. n + 1 PROVE r[k] \in ToSet(l) \cup {e}
  <2>1. CASE k < i
    BY <2>1 DEF PutAt, ToSet
  <2>2. CASE k = i
    BY <2>2 DEF PutAt
  <2>3. CASE i < k
    <3>1. k - 1 \in 1 .. n
      BY <2>3
    <3> QED
      BY <3>1, <2>3 DEF PutAt, ToSet
  <2> QED
    BY <2>1, <2>2, <2>3
<1>4. \A x \in ToSet(r) : x \in ToSet(l) \cup {e}
  BY <1>3 DEF PutAt, ToSet
<1>5. \A x \in ToSet(l) : x \in ToSet(r)
  BY <1>1 DEF PutAt, ToSet
<1> QED
  BY <1>2, <1>4, <1>5

LEMMA InsertedInjective ==
  ASSUME NEW n \in Nat, NEW l, NEW r, NEW e, NEW i \in 1 .. n + 1,
         PutAt(l, n, e, i, r), IsInjective(l), e \notin ToSet(l)
  PROVE  IsInjective(r)
<1>1. \A m \in 1 .. n : l[m] # e
  BY DEF PutAt, ToSet
<1>2. \A m, k \in 1 .. n : l[m] = l[k] => m = k
  BY DEF PutAt, IsInjective
<1>3. ASSUME NEW j \in 1 .. n + 1, NEW k \in 1 .. n + 1, j < k
      PROVE  r[j] # r[k]
  <2>1. CASE k < i
    <3>1. r[j] = l[j] /\ r[k] = l[k] /\ j \in 1 .. n /\ k \in 1 .. n /\ j # k
      BY <2>1, <1>3 DEF PutAt
    <3> QED
      BY <3>1, <1>2
  <2>2. CASE k = i
    <3>1. r[j] = l[j] /\ r[k] = e /\ j \in 1 .. n
      BY <2>2, <1>3 DEF PutAt
    <3> QED
      BY <3>1, <1>1
  <2>3. CASE i < k
    <3>1. r[k] = l[k - 1] /\ k - 1 \in 1 .. n
      BY <2>3 DEF PutAt
    <3>2. CASE j < i
      <4>1. r[j] = l[j] /\ j \in 1 .. n /\ j # k - 1
        BY <3>2, <2>3 DEF PutAt
      <4> QED
        BY <3>1, <4>1, <1>2
    <3>3. CASE j = i
      <4>1. r[j] = e
        BY <3>3 DEF PutAt
      <4> QED
        BY <3>1, <4>1, <1>1
    <3>4. CASE i < j
      <4>1. r[j] = l[j - 1] /\ j - 1 \in 1 .. n /\ j - 1 # k - 1
        BY <3>4, <1>3 DEF PutAt
      <4> QED
        BY <3>1, <4>1, <1>2
    <3> QED
      BY <3>2, <3>3, <3>4
  <2> QED
    BY <2>1, <2>2, <2>3
<1>4. ASSUME NEW j \in 1 .. n + 1, NEW k \in 1 .. n + 1, r[j] = r[k]
      PROVE  j = k
  <2>1. ~(j < k) /\ ~(k < j)
    BY <1>3, <1>4
  <2> QED
    BY <2>1
<1> QED
  BY <1>4 DEF PutAt, IsInjective

LEMMA InsertedOrdered ==
  ASSUME NEW n \in Nat, NEW l, NEW r, NEW e, NEW i \in 1 .. n + 1, NEW key,
         PutAt(l, n, e, i, r), Ordered(l, key),
         key[e] \in Int, \A m \in 1 .. n : key[l[m]] \in Int,
         i <= n => key[e] < key[l[i]],
         \A m \in 1 .. i - 1 : key[l[m]] <= key[e]
  PROVE  Ordered(r, key)
<1>1. \A m, k \in 1 .. n : m < k => key[l[m]] <= key[l[k]]
  BY DEF PutAt, Ordered
<1>2. ASSUME NEW m \in 1 .. n, i <= m PROVE key[e] <= key[l[m]]
  <2>1. CASE i = m
    BY <2>1, <1>2
  <2>2. CASE i < m
    <3>1. i \in 1 .. n /\ key[l[i]] <= key[l[m]] /\ key[e] < key[l[i]]
      BY <2>2, <1>1
    <3>2. key[l[i]] \in Int /\ key[l[m]] \in Int
      BY <3>1
    <3> QED
      BY <3>1, <3>2
  <2> QED
    BY <2>1, <2>2, <1>2
<1>3. ASSUME NEW j \in 1 .. n + 1, NEW k \in 1 .. n + 1, j < k
      PROVE  key[r[j]] <= key[r[k]]
  <2>1. CASE k < i
    <3>1. r[j] = l[j] /\ r[k] = l[k] /\ j \in 1 .. n /\ k \in 1 .. n
      BY <2>1, <1>3 DEF PutAt
    <3> QED
      BY <3>1, <1>1, <1>3
  <2>2. CASE k = i
    <3>1. r[j] = l[j] /\ r[k] = e /\ j \in 1 .. i - 1
      BY <2>2, <1>3 DEF PutAt
    <3> QED
      BY <3>1
  <2>3. CASE i < k
    <3>1. r[k] = l[k - 1] /\ k - 1 \in 1 .. n /\ i <= k - 1
      BY <2>3 DEF PutAt
    <3>2. CASE j < i
      <4>1. r[j] = l[j] /\ j \in 1 .. i - 1 /\ j \in 1 .. n
        BY <3>2 DEF PutAt
      <4>2. key[l[j]] <= key[e] /\ key[e] <= key[l[k - 1]]
        BY <3>1, <4>1, <1>2
      <4>3. key[l[j]] \in Int /\ key[l[k - 1]] \in Int
        BY <3>1, <4>1
      <4> QED
        BY <3>1, <4>1, <4>2, <4>3
    <3>3. CASE j = i
      <4>1. r[j] = e
        BY <3>3 DEF PutAt
      <4> QED
        BY <3>1, <4>1, <1>2
    <3>4. CASE i < j
      <4>1. r[j] = l[j - 1] /\ j - 1 \in 1 .. n /\ j - 1 < k - 1
        BY <3>4, <1>3 DEF PutAt
      <4> QED
        BY <3>1, <4>1, <1>1
    <3> QED
      BY <3>2, <3>3, <3>4
  <2> QED
    BY <2>1, <2>2, <2>3
<1> QED
  BY <1>3 DEF PutAt, Ordered

(***************************************************************************)
(* list_insert_ordered() adds the element, keeps a list free of            *)
(* duplicates and keeps an ordered list ordered.                           *)
(***************************************************************************)
LEMMA InsertOrdered ==
  ASSUME NEW S, NEW l \in Seq(S), NEW e \in S, NEW key \in [S -> Int]
  PROVE  LET r == ListInsertOrdered(l, e, key)
         IN  /\ r \in Seq(S)
             /\ r # <<>>
             /\ ToSet(r) = ToSet(l) \cup {e}
             /\ IsInjective(l) /\ e \notin ToSet(l) => IsInjective(r)
             /\ Ordered(l, key) => Ordered(r, key)
<1> DEFINE i == InsertPosition(l, e, key)
           r == ListInsertOrdered(l, e, key)
<1>1. /\ i \in 1 .. Len(l) + 1
      /\ i <= Len(l) => key[e] < key[l[i]]
      /\ \A j \in 1 .. i - 1 : key[l[j]] <= key[e]
  BY InsertPositionDef
<1> HIDE DEF i
<1>2. r = InsertAt(l, i, e)
  BY DEF ListInsertOrdered, i
<1> HIDE DEF r
<1>3. /\ r \in Seq(S)
      /\ Len(r) = Len(l) + 1
      /\ \A k \in 1 .. Len(l) + 1 :
           r[k] = IF k < i THEN l[k] ELSE IF k = i THEN e ELSE l[k - 1]
  <2>1. i \in 1 .. Len(l) + 1
    BY <1>1
  <2>2. /\ InsertAt(l, i, e) \in Seq(S)
        /\ Len(InsertAt(l, i, e)) = Len(l) + 1
        /\ \A k \in 1 .. Len(l) + 1 :
             InsertAt(l, i, e)[k] = IF k < i THEN l[k]
                                    ELSE IF k = i THEN e ELSE l[k - 1]
    BY <2>1, InsertAtElements
  <2> QED
    BY <1>2, <2>2, Zenon
<1>4. Len(l) \in Nat /\ DOMAIN l = 1 .. Len(l) /\ DOMAIN r = 1 .. Len(l) + 1
  BY <1>3
<1>5. PutAt(l, Len(l), e, i, r)
  <2>1. \A k \in 1 .. Len(l) + 1 : k < i => r[k] = l[k]
    BY <1>3
  <2>2. r[i] = e
    BY <1>1, <1>3
  <2>3. \A k \in 1 .. Len(l) + 1 : i < k => r[k] = l[k - 1]
    BY <1>1, <1>3
  <2> QED
    BY <1>4, <2>1, <2>2, <2>3 DEF PutAt
<1>6. key[e] \in Int /\ \A m \in 1 .. Len(l) : key[l[m]] \in Int
  OBVIOUS
<1>7. r # <<>>
  BY <1>3
<1>8. ToSet(r) = ToSet(l) \cup {e}
  BY <1>1, <1>4, <1>5, InsertedRange
<1>9. IsInjective(l) /\ e \notin ToSet(l) => IsInjective(r)
  BY <1>1, <1>4, <1>5, InsertedInjective
<1>10. Ordered(l, key) => Ordered(r, key)
  BY <1>1, <1>4, <1>5, <1>6, InsertedOrdered
<1> QED
  BY <1>3, <1>7, <1>8, <1>9, <1>10 DEF r

(***************************************************************************)
(* Removal of the head, seen on functions.                                 *)
(***************************************************************************)
Popped(l, n, r) ==
  /\ DOMAIN l = 1 .. n /\ DOMAIN r = 1 .. n - 1
  /\ \A k \in 1 .. n - 1 : r[k] = l[k + 1]

LEMMA PoppedFacts ==
  ASSUME NEW n \in Nat, n > 0, NEW l, NEW r, Popped(l, n, r)
  PROVE  /\ ToSet(l) = ToSet(r) \cup {l[1]}
         /\ IsInjective(l) => IsInjective(r) /\ l[1] \notin ToSet(r)
<1>1. ASSUME NEW k \in 1 .. n PROVE l[k] \in ToSet(r) \cup {l[1]}
  <2>1. CASE k # 1
    <3>1. k - 1 \in 1 .. n - 1 /\ (k - 1) + 1 = k
      BY <2>1
    <3>2. r[k - 1] = l[k]
      BY <3>1 DEF Popped
    <3> QED
      BY <3>1, <3>2 DEF Popped, ToSet
  <2> QED
    BY <2>1
<1>2. ASSUME NEW k \in 1 .. n - 1 PROVE r[k] \in ToSet(l)
  <2>1. k + 1 \in 1 .. n
    OBVIOUS
  <2> QED
    BY <2>1 DEF Popped, ToSet
<1>3. l[1] \in ToSet(l)
  BY DEF Popped, ToSet
<1>4. \A x \in ToSet(l) : x \in ToSet(r) \cup {l[1]}
  BY <1>1 DEF Popped, ToSet
<1>5. \A x \in ToSet(r) : x \in ToSet(l)
  BY <1>2 DEF Popped, ToSet
<1>6. ASSUME IsInjective(l) PROVE IsInjective(r) /\ l[1] \notin ToSet(r)
  <2>1. \A j, k \in 1 .. n : l[j] = l[k] => j = k
    BY <1>6 DEF IsInjective, Popped
  <2>2. ASSUME NEW j \in 1 .. n - 1, NEW k \in 1 .. n - 1, r[j] = r[k]
        PROVE  j = k
    <3>1. l[j + 1] = l[k + 1] /\ j + 1 \in 1 .. n /\ k + 1 \in 1 .. n
      BY <2>2 DEF Popped
    <3>2. j + 1 = k + 1
      BY <3>1, <2>1
    <3> QED
      BY <3>2
  <2>3. ASSUME NEW k \in 1 .. n - 1 PROVE r[k] # l[1]
    <3>1. r[k] = l[k + 1] /\ k + 1 \in 1 .. n /\ k + 1 # 1 /\ 1 \in 1 .. n
      BY DEF Popped
    <3> QED
      BY <3>1, <2>1
  <2>4. IsInjective(r)
    BY <2>2 DEF Popped, IsInjective
  <2> QED
    BY <2>3, <2>4 DEF Popped, ToSet
<1> QED
  BY <1>3, <1>4, <1>5, <1>6

LEMMA PoppedOrdered ==
  ASSUME NEW n \in Nat, n > 0, NEW l, NEW r, Popped(l, n, r), NEW key,
         \A k \in 1 .. n : key[l[k]] \in Int, Ordered(l, key)
  PROVE  /\ Ordered(r, key)
         /\ \A x \in ToSet(l) : key[l[1]] <= key[x]
<1>1. \A j, k \in 1 .. n : j < k => key[l[j]] <= key[l[k]]
  BY DEF Ordered, Popped
<1>2. ASSUME NEW j \in 1 .. n - 1, NEW k \in 1 .. n - 1, j < k
      PROVE  key[r[j]] <= key[r[k]]
  <2>1. /\ r[j] = l[j + 1] /\ r[k] = l[k + 1]
        /\ j + 1 \in 1 .. n /\ k + 1 \in 1 .. n /\ j + 1 < k + 1
    BY <1>2 DEF Popped
  <2> QED
    BY <2>1, <1>1
<1>3. ASSUME NEW k \in 1 .. n PROVE key[l[1]] <= key[l[k]]
  <2>1. CASE k = 1
    BY <2>1
  <2>2. CASE k # 1
    BY <2>2, <1>1
  <2> QED
    BY <2>1, <2>2
<1>4. Ordered(r, key)
  BY <1>2 DEF Popped, Ordered
<1> QED
  BY <1>3, <1>4 DEF Popped, ToSet

\* list_pop_front(): the head goes, and in an ordered list it is the least.
LEMMA PopFront ==
  ASSUME NEW S, NEW l \in Seq(S), l # <<>>, NEW key \in [S -> Int]
  PROVE  /\ Head(l) \in S
         /\ Head(l) \in ToSet(l)
         /\ Tail(l) \in Seq(S)
         /\ ToSet(l) = ToSet(Tail(l)) \cup {Head(l)}
         /\ IsInjective(l) => IsInjective(Tail(l)) /\ Head(l) \notin ToSet(Tail(l))
         /\ Ordered(l, key) => /\ Ordered(Tail(l), key)
                               /\ \A x \in ToSet(l) : key[Head(l)] <= key[x]
<1>1. /\ Head(l) \in S
      /\ Tail(l) \in Seq(S) /\ Len(Tail(l)) = Len(l) - 1
      /\ \A k \in 1 .. Len(Tail(l)) : Tail(l)[k] = l[k + 1]
  BY HeadTailProperties
<1>2. Head(l) = l[1] /\ Len(l) \in Nat /\ Len(l) > 0
  OBVIOUS
<1>3. \A k \in 1 .. Len(l) : key[l[k]] \in Int
  OBVIOUS
<1> DEFINE r == Tail(l)
<1>4. /\ r \in Seq(S) /\ DOMAIN l = 1 .. Len(l) /\ DOMAIN r = 1 .. Len(r)
      /\ Len(r) = Len(l) - 1 /\ \A k \in 1 .. Len(r) : r[k] = l[k + 1]
  BY <1>1
<1> HIDE DEF r
<1>5. Popped(l, Len(l), r)
  BY <1>4 DEF Popped
<1>6. /\ ToSet(l) = ToSet(r) \cup {l[1]}
      /\ IsInjective(l) => IsInjective(r) /\ l[1] \notin ToSet(r)
  BY <1>2, <1>5, PoppedFacts
<1>7. Ordered(l, key) =>
        Ordered(r, key) /\ \A x \in ToSet(l) : key[l[1]] <= key[x]
  BY <1>2, <1>3, <1>5, PoppedOrdered
<1> QED
  BY <1>1, <1>2, <1>6, <1>7 DEF r

LEMMA FunctionIsSeq ==
  ASSUME NEW S, NEW n \in Nat, NEW f \in [1 .. n -> S]
  PROVE  f \in Seq(S)
<1>1. \A i \in 1 .. n : f[i] \in S
  OBVIOUS
<1>2. [i \in 1 .. n |-> f[i]] \in Seq(S)
  BY <1>1
<1> QED
  BY <1>2

\* Changing keys without inverting any two members keeps a list ordered.
LEMMA OrderedMonotone ==
  ASSUME NEW l, NEW key, NEW new,
         \A x, y \in ToSet(l) : key[x] <= key[y] => new[x] <= new[y],
         Ordered(l, key)
  PROVE  Ordered(l, new)
BY DEF Ordered, ToSet

(***************************************************************************)
(* list_sort(): every result has the same members, and is ordered whatever *)
(* the list was.                                                           *)
(***************************************************************************)
LEMMA SortResult ==
  ASSUME NEW S, NEW l \in Seq(S), NEW key \in [S -> Int],
         NEW r \in ListSortResults(l, key)
  PROVE  /\ r \in Seq(S)
         /\ ToSet(r) = ToSet(l)
         /\ IsInjective(l) => IsInjective(r)
         /\ Ordered(r, key)
<1> DEFINE D == DOMAIN l
<1>1. PICK perm \in Bijection(D, D) :
        /\ IsStableSort(l, perm, key)
        /\ r = [k \in D |-> l[perm[k]]]
  BY Zenon DEF ListSortResults
<1>2. /\ perm \in [D -> D]
      /\ \A v, w \in D : perm[v] = perm[w] => v = w
      /\ \A w \in D : \E v \in D : perm[v] = w
  BY <1>1 DEF Bijection, Injection, Surjection, IsInjective
<1>3. D = 1 .. Len(l) /\ Len(l) \in Nat /\ \A k \in D : l[k] \in S
  OBVIOUS
<1>4. IsStableSort(l, perm, key) => \A i, j \in D : i < j =>
          \/ key[l[perm[i]]] < key[l[perm[j]]]
          \/ key[l[perm[i]]] = key[l[perm[j]]] /\ perm[i] < perm[j]
  BY Zenon DEF IsStableSort
<1>5. DOMAIN l = D
  OBVIOUS
<1> HIDE DEF D
<1>6. DOMAIN r = D /\ \A k \in D : r[k] = l[perm[k]]
  BY <1>1
<1>7. r \in Seq(S)
  <2>1. \A k \in D : l[perm[k]] \in S
    BY <1>2, <1>3
  <2>2. r \in [1 .. Len(l) -> S]
    BY <1>1, <1>3, <2>1
  <2> QED
    BY <2>2, <1>3, FunctionIsSeq
<1>8. ToSet(r) = ToSet(l)
  BY <1>2, <1>5, <1>6 DEF ToSet
<1>9. ASSUME IsInjective(l) PROVE IsInjective(r)
  BY <1>2, <1>5, <1>6, <1>9 DEF IsInjective
<1>10. Ordered(r, key)
  <2>1. ASSUME NEW i \in D, NEW j \in D, i < j PROVE key[r[i]] <= key[r[j]]
    <3>1. \/ key[l[perm[i]]] < key[l[perm[j]]]
          \/ key[l[perm[i]]] = key[l[perm[j]]] /\ perm[i] < perm[j]
      BY <2>1, <1>1, <1>4
    <3>2. r[i] = l[perm[i]] /\ r[j] = l[perm[j]]
      BY <1>6
    <3>3. l[perm[i]] \in S /\ l[perm[j]] \in S
      BY <1>2, <1>3
    <3>4. key[l[perm[i]]] \in Int /\ key[l[perm[j]]] \in Int
      BY <3>3
    <3> QED
      BY <3>1, <3>2, <3>4
  <2> QED
    BY <2>1, <1>6 DEF Ordered
<1> QED
  BY <1>7, <1>8, <1>9, <1>10

\* One turn of ListRemove, f holding the results of the earlier ones.
KeptOf(f, l, es, k) ==
  IF k = 0 THEN <<>> ELSE IF l[k] \in es THEN f[k - 1] ELSE Append(f[k - 1], l[k])

\* f holds the results of n turns.
IsKept(f, l, es, n) == f = [k \in 0 .. n |-> KeptOf(f, l, es, k)]

\* The recursive definition of list_remove() defines something.
LEMMA KeptDefined ==
  ASSUME NEW S, NEW l \in Seq(S), NEW es
  PROVE  \E f : IsKept(f, l, es, Len(l))
<1> USE DEF IsKept
<1> DEFINE Defined(n) == \E f : f = [k \in 0 .. n |-> KeptOf(f, l, es, k)]
           Bad == {n \in Nat : ~Defined(n)}
<1>0. Len(l) \in Nat
  OBVIOUS
<1>1. SUFFICES ASSUME Bad # {} PROVE FALSE
  BY <1>0
<1>2. PICK n \in Bad : \A m \in Bad : n <= m
  BY <1>1, LeastNatural
<1>3. CASE n = 0
  <2> DEFINE f == [k \in 0 .. 0 |-> <<>>]
  <2>1. f = [k \in 0 .. 0 |-> KeptOf(f, l, es, k)]
    BY DEF KeptOf
  <2> QED
    BY <2>1, <1>2, <1>3
<1>4. CASE n # 0
  <2>1. n - 1 \in Nat /\ n - 1 \notin Bad
    BY <1>2, <1>4
  <2>2. PICK f : f = [k \in 0 .. n - 1 |-> KeptOf(f, l, es, k)]
    BY <2>1
  <2> DEFINE g == [k \in 0 .. n |-> IF k = n THEN KeptOf(f, l, es, n) ELSE f[k]]
  <2>3. ASSUME NEW k \in 0 .. n
        PROVE  g[k] = KeptOf(g, l, es, k)
    <3>1. k # 0 => k - 1 \in 0 .. n /\ g[k - 1] = f[k - 1]
      BY <1>2
    <3>2. KeptOf(g, l, es, k) = KeptOf(f, l, es, k)
      BY <3>1 DEF KeptOf
    <3>3. CASE k = n
      BY <3>2, <3>3
    <3>4. CASE k # n
      <4>1. k \in 0 .. n - 1
        BY <3>4, <1>2
      <4>2. f[k] = KeptOf(f, l, es, k)
        BY <4>1, <2>2
      <4> QED
        BY <4>2, <3>2, <3>4
    <3> QED
      BY <3>3, <3>4
  <2>4. g = [k \in 0 .. n |-> KeptOf(g, l, es, k)]
    <3> DEFINE h == [k \in 0 .. n |-> KeptOf(g, l, es, k)]
    <3>1. \A k \in 0 .. n : g[k] = h[k]
      BY <2>3
    <3> HIDE DEF KeptOf
    <3> QED
      BY <3>1
  <2> QED
    BY <2>4, <1>2
<1> QED
  BY <1>3, <1>4

(***************************************************************************)
(* list_remove() of some elements: the others stay, each as often as it    *)
(* was there.                                                              *)
(***************************************************************************)
LEMMA ListRemoveFacts ==
  ASSUME NEW S, NEW l \in Seq(S), NEW es
  PROVE  /\ ListRemove(l, es) \in Seq(S)
         /\ Range(ListRemove(l, es)) = Range(l) \ es
         /\ IsInjective(l) => IsInjective(ListRemove(l, es))
<1>a. \E g : IsKept(g, l, es, Len(l))
  BY KeptDefined
<1> DEFINE n == Len(l)
           f == CHOOSE g : IsKept(g, l, es, n)
           Elems(k) == {l[i] : i \in 1 .. k} \ es
           Right(k) == /\ f[k] \in Seq(S)
                       /\ Range(f[k]) = Elems(k)
                       /\ IsInjective(l) => IsInjective(f[k])
           Bad == {k \in 0 .. n : ~Right(k)}
<1>0. n \in Nat /\ DOMAIN l = 1 .. n /\ \A i \in 1 .. n : l[i] \in S
  BY LenProperties, ElementOfSeq
<1>1. f = [k \in 0 .. n |-> KeptOf(f, l, es, k)]
  <2>1. IsKept(f, l, es, n)
    BY Zenon, <1>a
  <2> HIDE DEF f
  <2> QED
    BY <2>1 DEF IsKept
<1>2. ListRemove(l, es) = f[n]
  BY Zenon DEF ListRemove, KeptOf, IsKept
<1> HIDE DEF f
<1>3. ASSUME Bad # {} PROVE FALSE
  <2>1. PICK k \in Bad : \A m \in Bad : k <= m
    <3>1. Bad \in SUBSET Nat
      BY <1>0
    <3> QED
      BY <1>3, <3>1, LeastNatural
  <2>2. k \in 0 .. n /\ f[k] = KeptOf(f, l, es, k)
    BY <1>1
  <2>3. CASE k = 0
    <3>1. f[k] = <<>>
      BY <2>2, <2>3 DEF KeptOf
    <3>2. Right(k)
      BY <3>1, <2>3, EmptySeq DEF Range, IsInjective
    <3> QED
      BY <3>2
  <2>4. CASE k # 0
    <3>1. k - 1 \in 0 .. n /\ k \in 1 .. n /\ k - 1 \notin Bad
      <4>1. k - 1 \in 0 .. n /\ k \in 1 .. n /\ ~(k <= k - 1)
        BY <2>2, <2>4, <1>0
      <4> HIDE DEF Bad
      <4> QED
        BY <4>1, <2>1
    <3>2. Right(k - 1)
      BY <3>1
    <3>3. l[k] \in S /\ {l[i] : i \in 1 .. k} = {l[i] : i \in 1 .. k - 1} \cup {l[k]}
      <4>1. 1 .. k = 1 .. k - 1 \cup {k}
        BY <3>1, <1>0
      <4> QED
        BY <4>1, <3>1, <1>0
    <3>4. CASE l[k] \in es
      <4>1. f[k] = f[k - 1]
        BY <2>2, <2>4, <3>4 DEF KeptOf
      <4>2. Elems(k) = Elems(k - 1)
        BY <3>3, <3>4
      <4> HIDE DEF Elems
      <4> QED
        BY <4>1, <4>2, <3>2
    <3>5. CASE l[k] \notin es
      <4> DEFINE s == f[k - 1]
      <4>1. f[k] = Append(s, l[k])
        BY <2>2, <2>4, <3>5 DEF KeptOf
      <4>2. s \in Seq(S) /\ Range(s) = Elems(k - 1)
        BY <3>2
      <4>3. /\ f[k] \in Seq(S) /\ Len(f[k]) = Len(s) + 1 /\ Len(s) \in Nat
            /\ DOMAIN f[k] = 1 .. Len(s) + 1 /\ DOMAIN s = 1 .. Len(s)
            /\ \A i \in 1 .. Len(s) : f[k][i] = s[i]
            /\ f[k][Len(s) + 1] = l[k]
        BY <4>1, <4>2, <3>3, AppendProperties, LenProperties
      <4>4. Range(f[k]) = Range(s) \cup {l[k]}
        <5>1. \A x : x \in Range(f[k]) <=> \E i \in 1 .. Len(s) + 1 : x = f[k][i]
          BY <4>3 DEF Range
        <5>2. \A x : x \in Range(s) <=> \E i \in 1 .. Len(s) : x = s[i]
          BY <4>3 DEF Range
        <5> HIDE DEF s
        <5>3. 1 .. Len(s) + 1 = 1 .. Len(s) \cup {Len(s) + 1}
          BY <4>3
        <5> QED
          BY <5>1, <5>2, <5>3, <4>3
      <4>5. Elems(k) = Elems(k - 1) \cup {l[k]}
        BY <3>3, <3>5
      <4>6. ASSUME IsInjective(l) PROVE IsInjective(f[k])
        <5>1. IsInjective(s)
          BY <4>6, <3>2
        <5>2. l[k] \notin Range(s)
          <6>1. ASSUME l[k] \in Range(s) PROVE FALSE
            <7>1. PICK i \in 1 .. k - 1 : l[i] = l[k]
              BY <6>1, <4>2
            <7> QED
              BY <7>1, <4>6, <3>1, <1>0 DEF IsInjective
          <6> QED
            BY <6>1
        <5>3. \A i \in 1 .. Len(s) : f[k][i] # l[k]
          BY <5>2, <4>3 DEF Range
        <5>4. \A i, j \in 1 .. Len(s) : f[k][i] = f[k][j] => i = j
          BY <5>1, <4>3 DEF IsInjective
        <5>5. ASSUME NEW i \in 1 .. Len(s) + 1, NEW j \in 1 .. Len(s) + 1, f[k][i] = f[k][j]
              PROVE  i = j
          <6> HIDE DEF s
          <6>1. i = Len(s) + 1 \/ i \in 1 .. Len(s)
            BY <4>3
          <6>2. j = Len(s) + 1 \/ j \in 1 .. Len(s)
            BY <4>3
          <6> QED
            BY <5>3, <5>4, <5>5, <4>3, <6>1, <6>2
        <5> QED
          BY <5>5, <4>3 DEF IsInjective
      <4> HIDE DEF Elems, s
      <4>7. Range(f[k]) = Elems(k)
        BY <4>2, <4>4, <4>5
      <4>8. Right(k)
        BY <4>3, <4>6, <4>7
      <4> QED
        BY <4>8
    <3> QED
      BY <3>4, <3>5
  <2> QED
    BY <2>3, <2>4
<1>4. Right(n)
  <2>1. n \in 0 .. n
    BY <1>0
  <2> HIDE DEF n, Right
  <2> QED
    BY <2>1, <1>3
<1>5. Elems(n) = Range(l) \ es
  BY <1>0 DEF Range
<1> HIDE DEF Elems
<1> QED
  BY <1>2, <1>4, <1>5

=============================================================================
