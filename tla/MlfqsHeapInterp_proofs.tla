----------------------- MODULE MlfqsHeapInterp_proofs -----------------------
(***************************************************************************)
(* Theorems about three components that share no name.                     *)
(*                                                                         *)
(* The advanced scheduler, for any number of threads, any nice values and  *)
(* any TIMER_FREQ: how large load_avg and recent_cpu can get, and that the *)
(* highest priority runs.                                                  *)
(*                                                                         *)
(* The memory allocators, for any number of threads and pages, any page    *)
(* and header size and any requests: what is allocated is apart from all   *)
(* else, no page is lost, and no thread waits in a circle.                 *)
(*                                                                         *)
(* The interpreter of project 0, for any names, slots and values: a name   *)
(* that a command finds is one that was created.                           *)
(***************************************************************************)
EXTENDS Mlfqs, Heap, Interp, KernelList_proofs

-----------------------------------------------------------------------------
(* THE ADVANCED SCHEDULER *)


-----------------------------------------------------------------------------
(* The 64-bit operations of fixed_point.h: what FixedPoint computes in two  *)
(* halves is the truncated product and quotient, and how large they get.    *)

LEMMA Division ==
  ASSUME NEW x \in Nat, NEW y \in Nat \ {0}
  PROVE  /\ x \div y \in Nat /\ x % y \in Nat /\ x % y < y
         /\ x = (x \div y) * y + (x % y)
OBVIOUS

\* A quotient is what leaves a remainder smaller than the divisor.
LEMMA QuotientIs ==
  ASSUME NEW x \in Nat, NEW y \in Nat \ {0}, NEW q \in Nat, NEW r \in Nat,
         r < y, x = q * y + r
  PROVE  x \div y = q
<1> DEFINE p == x \div y
           s == x % y
<1>1. p \in Nat /\ s \in Nat /\ s < y /\ x = p * y + s
  BY Division
<1> HIDE DEF p, s
<1>2. ASSUME p < q PROVE FALSE
  <2>1. (p + 1) * y <= q * y
    BY <1>1, <1>2
  <2>2. (p + 1) * y = p * y + y
    BY <1>1
  <2> QED
    BY <1>1, <2>1, <2>2
<1>3. ASSUME q < p PROVE FALSE
  <2>1. (q + 1) * y <= p * y
    BY <1>1, <1>3
  <2>2. (q + 1) * y = q * y + y
    OBVIOUS
  <2> QED
    BY <1>1, <2>1, <2>2
<1>4. p = q
  BY <1>1, <1>2, <1>3
<1> QED
  BY <1>4 DEF p

\* fp_mul_fp() of numbers that are not negative.
LEMMA MulNatExact ==
  ASSUME NEW x \in Nat, NEW y \in Nat
  PROVE  MulNat(x, y) = (x * y) \div F
<1> DEFINE h == y \div F
           l == y % F
           m == (x * l) \div F
           r == (x * l) % F
<1>1. F = 16384
  BY DEF F
<1>2. h \in Nat /\ l \in Nat /\ y = h * F + l
  BY <1>1
<1>3. x * l \in Nat /\ x * h \in Nat /\ x * y \in Nat
  BY <1>2
<1>4. m \in Nat /\ r \in Nat /\ r < F /\ x * l = m * F + r
  <2>1. F \in Nat \ {0}
    BY <1>1
  <2> HIDE DEF h, l
  <2> QED
    BY <1>3, <2>1, Division
<1> HIDE DEF h, l, m, r
<1>5. x * y = (x * h) * F + x * l
  <2>1. x * y = x * (h * F + l)
    BY <1>2
  <2>2. x * (h * F + l) = (x * h) * F + x * l
    BY <1>1, <1>2
  <2> QED
    BY <2>1, <2>2
<1>6. x * y = (x * h + m) * F + r
  BY <1>1, <1>3, <1>4, <1>5
<1>7. (x * y) \div F = x * h + m
  BY <1>1, <1>3, <1>4, <1>6, QuotientIs
<1> QED
  BY <1>7 DEF MulNat, h, l, m

\* fp_div_fp() of numbers that are not negative.
LEMMA FpDivExact ==
  ASSUME NEW x \in Nat, NEW y \in Nat \ {0}
  PROVE  FpDivFp(x, y) = (x * F) \div y
<1> DEFINE q == (x * Half) \div y
           r == (x * Half) % y
           p == (r * Half) \div y
           s == (r * Half) % y
<1>1. F = 16384 /\ Half = 128
  BY DEF F, Half
<1>2. x * Half \in Nat
  BY <1>1
<1>3. q \in Nat /\ r \in Nat /\ r < y /\ x * Half = q * y + r
  BY <1>2, Division
<1> HIDE DEF q, r
<1>4. r * Half \in Nat
  BY <1>1, <1>3
<1>5. p \in Nat /\ s \in Nat /\ s < y /\ r * Half = p * y + s
  BY <1>4, Division
<1> HIDE DEF p, s
<1>6. q * y \in Nat /\ p * y \in Nat
  BY <1>3, <1>5
<1>7. x * F = (q * y) * Half + p * y + s
  BY <1>1, <1>3, <1>5, <1>6
<1>8. (q * Half + p) * y = (q * y) * Half + p * y
  BY <1>1, <1>3, <1>5
<1>9. x * F = (q * Half + p) * y + s
  BY <1>7, <1>8
<1>10. q * Half + p \in Nat /\ x * F \in Nat
  BY <1>1, <1>3, <1>5
<1>11. (x * F) \div y = q * Half + p
  BY <1>5, <1>9, <1>10, QuotientIs
<1> QED
  BY <1>11 DEF FpDivFp, p, q, r

-----------------------------------------------------------------------------
(* Arithmetic *)

LEMMA NextRemainder ==
  ASSUME NEW x \in Nat, NEW y \in Nat \ {0}
  PROVE  (x + 1) % y = IF (x % y) + 1 = y THEN 0 ELSE (x % y) + 1
<1> DEFINE q == x \div y
           r == x % y
           p == (x + 1) \div y
           s == (x + 1) % y
<1>1. q \in Nat /\ r \in Nat /\ r < y /\ x = q * y + r
  BY Division
<1>2. p \in Nat /\ s \in Nat /\ s < y /\ x + 1 = p * y + s
  <2>1. x + 1 \in Nat
    OBVIOUS
  <2> QED
    BY <2>1, Division
<1> HIDE DEF q, r, p, s
<1>3. CASE r + 1 = y
  <2>1. (q + 1) * y = q * y + y
    BY <1>1
  <2>2. x + 1 = (q + 1) * y + 0 /\ 0 < y /\ q + 1 \in Nat /\ x + 1 \in Nat
    BY <1>1, <1>3, <2>1
  <2>3. p = q + 1
    BY <2>2, QuotientIs DEF p
  <2>4. s = 0
    BY <1>2, <2>2, <2>3
  <2> QED
    BY <1>3, <2>4 DEF r, s
<1>4. CASE r + 1 # y
  <2>1. x + 1 = q * y + (r + 1) /\ r + 1 < y /\ r + 1 \in Nat /\ x + 1 \in Nat
    BY <1>1, <1>4
  <2>2. p = q
    BY <1>1, <2>1, QuotientIs DEF p
  <2>3. q * y \in Int
    BY <1>1
  <2>4. s = r + 1
    BY <1>1, <1>2, <2>1, <2>2, <2>3
  <2> QED
    BY <1>4, <2>4 DEF r, s
<1> QED
  BY <1>3, <1>4

\* The factor by which recent_cpu is forgotten, under a load of at most n.
LEMMA Decay ==
  ASSUME NEW load \in Nat, NEW n \in Nat, load <= n * F
  PROVE  LET d == FpDivFp(load * 2, FpAddInt(load * 2, 1))
         IN  d \in Nat /\ d <= F /\ d * (2 * n + 1) <= 2 * n * F
<1> DEFINE g == load * 2 + F
           d == (load * 2 * F) \div g
           s == (load * 2 * F) % g
<1>1. F = 16384
  BY DEF F
<1>2. load * 2 \in Nat /\ load * 2 * F \in Nat /\ g \in Nat \ {0}
  BY <1>1
<1>3. FpDivFp(load * 2, FpAddInt(load * 2, 1)) = d
  <2>1. FpAddInt(load * 2, 1) = g
    BY <1>1 DEF FpAddInt
  <2> HIDE DEF g
  <2> QED
    BY <1>2, <2>1, FpDivExact
<1>4. d \in Nat /\ s \in Nat /\ load * 2 * F = d * g + s
  <2> HIDE DEF g
  <2> QED
    BY <1>2, Division
<1> HIDE DEF d, s
<1>5. d * g = (d * load) * 2 + d * F /\ d * load \in Nat
  BY <1>1, <1>4
<1> HIDE DEF g
<1>6. (d * load) * 2 + d * F <= load * 2 * F
  <2>1. d * g \in Int
    BY <1>2, <1>4
  <2> QED
    BY <1>2, <1>4, <1>5, <2>1
<1>7. d <= F
  <2>1. ASSUME F < d PROVE FALSE
    <3>1. F * load <= d * load
      BY <1>1, <1>4, <2>1
    <3> QED
      BY <1>1, <1>4, <1>5, <1>6, <2>1, <3>1
  <2> QED
    BY <1>1, <1>4, <2>1
<1> DEFINE e == F - d
<1>8. e \in Nat
  BY <1>1, <1>4, <1>7
<1>9. d * F <= (load * e) * 2
  <2>1. load * e = load * F - d * load
    BY <1>1, <1>4
  <2> QED
    BY <1>1, <1>4, <1>5, <1>6, <2>1
<1>10. d = F - e
  BY <1>1, <1>4
<1> HIDE DEF e
<1>11. load * e <= (n * F) * e
  BY <1>1, <1>8
<1>12. (n * F) * e = (n * e) * F /\ n * e \in Nat
  BY <1>1, <1>8
<1>13. d <= (n * e) * 2
  <2>1. load * e \in Nat
    BY <1>8
  <2> QED
    BY <1>1, <1>4, <1>9, <1>11, <1>12, <2>1
<1>14. d * (2 * n + 1) = 2 * n * F - (n * e) * 2 + d
  <2>1. d * (2 * n + 1) = (F - e) * (2 * n) + d
    BY <1>1, <1>4, <1>8, <1>10
  <2>2. (F - e) * (2 * n) = 2 * n * F - (n * e) * 2
    BY <1>1, <1>8
  <2> QED
    BY <2>1, <2>2
<1> QED
  <2>1. 2 * n * F \in Nat
    BY <1>1
  <2>2. d * (2 * n + 1) <= 2 * n * F
    BY <1>4, <1>12, <1>13, <1>14, <2>1
  <2> QED
    BY <1>3, <1>4, <1>7, <2>2

\* What is left of a number that is not negative.
LEMMA ForgottenNat ==
  ASSUME NEW d \in Nat, NEW n \in Nat, NEW k \in Nat, NEW x \in Nat,
         d * (2 * n + 1) <= 2 * n * F, x <= (2 * n + 1) * k * F
  PROVE  MulNat(d, x) \in Nat /\ MulNat(d, x) <= 2 * n * k * F
<1> DEFINE m == (d * x) \div F
           r == (d * x) % F
           w == d * (2 * n + 1)
           u == k * F
<1>1. F = 16384
  BY DEF F
<1>2. d * x \in Nat
  OBVIOUS
<1>3. MulNat(d, x) = m
  BY MulNatExact
<1>4. m \in Nat /\ r \in Nat /\ d * x = m * F + r
  <2>1. F \in Nat \ {0}
    BY <1>1
  <2> QED
    BY <1>2, <2>1, Division
<1> HIDE DEF m, r
<1>5. u \in Nat /\ w \in Nat
  BY <1>1
<1>6. d * x <= w * u
  <2>1. (2 * n + 1) * k * F = (2 * n + 1) * u
    BY <1>1
  <2>2. d * x <= d * ((2 * n + 1) * u)
    <3>1. (2 * n + 1) * u \in Nat
      BY <1>5
    <3>2. x <= (2 * n + 1) * u
      BY <2>1
    <3> DEFINE y == (2 * n + 1) * u
    <3> HIDE DEF y, u
    <3>3. \A a, b, c \in Nat : a <= b => c * a <= c * b
      OBVIOUS
    <3> QED
      BY <3>1, <3>2, <3>3 DEF y
  <2>3. d * ((2 * n + 1) * u) = w * u
    <3> HIDE DEF u
    <3> QED
      BY <1>5
  <2> QED
    BY <2>2, <2>3
<1>7. w * u <= (2 * n * F) * u
  <2>1. 2 * n * F \in Nat /\ w <= 2 * n * F
    BY <1>1
  <2> HIDE DEF w, u
  <2>2. \A a, b, c \in Nat : a <= b => a * c <= b * c
    OBVIOUS
  <2> QED
    BY <1>5, <2>1, <2>2
<1>8. (2 * n * F) * u = (2 * n * u) * F /\ 2 * n * u \in Nat
  <2> HIDE DEF u
  <2> QED
    BY <1>1, <1>5
<1> HIDE DEF w, u
<1>9. m * F <= (2 * n * u) * F
  <2>1. w * u \in Nat
    BY <1>5
  <2> QED
    BY <1>1, <1>2, <1>4, <1>6, <1>7, <1>8, <2>1
<1>10. m <= 2 * n * u
  BY <1>1, <1>4, <1>8, <1>9
<1>11. 2 * n * u = 2 * n * k * F
  BY <1>1 DEF u
<1> QED
  BY <1>3, <1>4, <1>10, <1>11

LEMMA Forgotten ==
  ASSUME NEW d \in Nat, NEW n \in Nat, NEW x \in Int, d * (2 * n + 1) <= 2 * n * F
  PROVE  /\ FpMulFp(d, x) \in Int
         /\ \A k \in Nat : x <= (2 * n + 1) * k * F => FpMulFp(d, x) <= 2 * n * k * F
         /\ \A k \in Nat : -((2 * n + 1) * k * F) <= x => -(2 * n * k * F) <= FpMulFp(d, x)
<1>1. F = 16384
  BY DEF F
<1>2. \A k \in Nat : 2 * n * k * F \in Nat /\ (2 * n + 1) * k * F \in Nat
  BY <1>1
<1>3. CASE x >= 0
  <2>1. FpMulFp(d, x) = MulNat(d, x) /\ x \in Nat
    BY <1>3 DEF FpMulFp
  <2>2. MulNat(d, x) \in Nat
    <3>1. x <= (2 * n + 1) * x * F
      BY <1>1, <2>1
    <3> QED
      BY <2>1, <3>1, ForgottenNat
  <2>3. \A k \in Nat : x <= (2 * n + 1) * k * F => MulNat(d, x) <= 2 * n * k * F
    BY <2>1, ForgottenNat
  <2> QED
    BY <1>2, <2>1, <2>2, <2>3
<1>4. CASE x < 0
  <2>1. FpMulFp(d, x) = -MulNat(d, -x) /\ -x \in Nat
    BY <1>4 DEF FpMulFp
  <2>2. MulNat(d, -x) \in Nat
    <3>1. -x <= (2 * n + 1) * (-x) * F
      BY <1>1, <2>1
    <3> QED
      BY <2>1, <3>1, ForgottenNat
  <2>3. \A k \in Nat : -x <= (2 * n + 1) * k * F => MulNat(d, -x) <= 2 * n * k * F
    BY <2>1, ForgottenNat
  <2>4. \A k \in Nat : -((2 * n + 1) * k * F) <= x => -x <= (2 * n + 1) * k * F
    BY <1>2
  <2>5. \A k \in Nat : x <= (2 * n + 1) * k * F => -MulNat(d, -x) <= 2 * n * k * F
    <3>1. \A b \in Nat : -MulNat(d, -x) <= b
      BY <2>2
    <3> QED
      BY <1>2, <3>1
  <2>6. \A k \in Nat : -((2 * n + 1) * k * F) <= x => -(2 * n * k * F) <= -MulNat(d, -x)
    <3> SUFFICES ASSUME NEW k \in Nat, -((2 * n + 1) * k * F) <= x
                 PROVE  -(2 * n * k * F) <= -MulNat(d, -x)
      OBVIOUS
    <3>1. MulNat(d, -x) <= 2 * n * k * F
      BY <2>3, <2>4
    <3>2. \A a, b \in Nat : a <= b => -b <= -a
      OBVIOUS
    <3> QED
      BY <1>2, <2>2, <3>1, <3>2
  <2>7. -MulNat(d, -x) \in Int
    BY <2>2
  <2> QED
    BY Zenon, <2>1, <2>5, <2>6, <2>7
<1> QED
  BY <1>3, <1>4

-----------------------------------------------------------------------------
(* The ready list *)

\* list_sort() as it is defined here is one of the results that list_sort() may
\* have in ThreadSched: the members of the list, in order, equals as they were.
LEMMA SortedIsStable ==
  ASSUME NEW S, NEW l \in Seq(S), NEW key \in [S -> Int], ~Ordered(l, key)
  PROVE  ListSort(l, key) \in ListSortResults(l, key)
<1> DEFINE D == DOMAIN l
           n == Len(l)
           B(i) == Before(l, key, i)
           place == [i \in D |-> Cardinality(B(i)) + 1]
           perm  == [k \in D |-> CHOOSE i \in D : place[i] = k]
           Less(j, i) == key[l[j]] < key[l[i]] \/ (key[l[j]] = key[l[i]] /\ j < i)
<1>1. n \in Nat /\ D = 1 .. n /\ \A i \in D : l[i] \in S
  OBVIOUS
<1>2. \A i \in D : key[l[i]] \in Int
  BY <1>1
<1>3. IsFiniteSet(D) /\ Cardinality(D) = n
  <2>1. IsFiniteSet(1 .. n) /\ Cardinality(1 .. n) = IF 1 > n THEN 0 ELSE n - 1 + 1
    BY <1>1, FS_Interval
  <2> QED
    BY <1>1, <2>1
<1>4. \A i \in D : B(i) = {j \in D : Less(j, i)}
  BY DEF Before
<1> HIDE DEF D, n
<1>5. ASSUME NEW i \in D PROVE place[i] \in D
  <2>1. B(i) \in SUBSET (D \ {i})
    BY <1>1, <1>2, <1>4
  <2>2. IsFiniteSet(D \ {i}) /\ Cardinality(D \ {i}) = n - 1
    BY <1>3, FS_RemoveElement
  <2>3. Cardinality(B(i)) <= n - 1 /\ IsFiniteSet(B(i))
    BY <2>1, <2>2, FS_Subset
  <2>4. Cardinality(B(i)) \in Nat
    BY <2>3, FS_CardinalityType
  <2>5. place[i] = Cardinality(B(i)) + 1
    OBVIOUS
  <2> HIDE DEF B, place
  <2> QED
    BY <1>1, <2>3, <2>4, <2>5
<1>6. ASSUME NEW i \in D, NEW j \in D, Less(j, i) PROVE place[j] < place[i]
  <2>1. B(j) \in SUBSET B(i) /\ j \in B(i) /\ j \notin B(j)
    BY <1>1, <1>2, <1>4, <1>6, SMTT(40)
  <2>2. IsFiniteSet(B(i)) /\ IsFiniteSet(B(j))
    <3>1. B(i) \in SUBSET D /\ B(j) \in SUBSET D
      BY <1>4
    <3> HIDE DEF B
    <3> QED
      BY <1>3, <3>1, FS_Subset
  <2>3. Cardinality(B(j)) <= Cardinality(B(i)) /\ Cardinality(B(i)) # Cardinality(B(j))
    <3> HIDE DEF B
    <3> QED
      BY <2>1, <2>2, FS_Subset
  <2>4. Cardinality(B(i)) \in Nat /\ Cardinality(B(j)) \in Nat
    BY <2>2, FS_CardinalityType
  <2>5. place[i] = Cardinality(B(i)) + 1 /\ place[j] = Cardinality(B(j)) + 1
    OBVIOUS
  <2> HIDE DEF B, place
  <2> QED
    BY <2>3, <2>4, <2>5
<1>7. \A i, j \in D : i # j => Less(i, j) \/ Less(j, i)
  BY <1>1, <1>2
<1>8. place \in [D -> D]
  <2>1. place = [i \in D |-> place[i]]
    OBVIOUS
  <2> HIDE DEF place
  <2> QED
    BY <1>5, <2>1
<1> HIDE DEF place, Less
<1>9. place \in Injection(D, D)
  <2>1. \A i, j \in D : place[i] = place[j] => i = j
    <3> SUFFICES ASSUME NEW i \in D, NEW j \in D, place[i] = place[j], i # j PROVE FALSE
      OBVIOUS
    <3>1. place[i] \in Int /\ place[j] \in Int
      BY <1>1, <1>8
    <3> QED
      BY <1>6, <1>7, <3>1
  <2> QED
    BY <1>8, <2>1 DEF Injection, IsInjective
<1>10. \A k \in D : \E i \in D : place[i] = k
  <2>1. place \in Surjection(D, D)
    BY <1>3, <1>9, FS_Injection
  <2> QED
    BY <2>1 DEF Surjection
<1>11. \A k \in D : perm[k] \in D /\ place[perm[k]] = k
  BY <1>10
<1> HIDE DEF perm
<1>12. perm \in Bijection(D, D)
  <2>1. perm \in [D -> D]
    BY <1>11 DEF perm
  <2>2. \A k, m \in D : perm[k] = perm[m] => k = m
    BY <1>11
  <2>3. \A i \in D : \E k \in D : perm[k] = i
    <3> SUFFICES ASSUME NEW i \in D PROVE perm[place[i]] = i /\ place[i] \in D
      OBVIOUS
    <3>1. place[i] \in D
      BY <1>8
    <3>2. place[perm[place[i]]] = place[i] /\ perm[place[i]] \in D
      BY <1>11, <3>1
    <3> QED
      BY <1>9, <3>1, <3>2 DEF Injection, IsInjective
  <2>4. perm \in Injection(D, D)
    BY <2>1, <2>2 DEF Injection, IsInjective
  <2>5. perm \in Surjection(D, D)
    BY <2>1, <2>3 DEF Surjection
  <2> QED
    BY <2>4, <2>5 DEF Bijection
<1>13. IsStableSort(l, perm, key)
  <2> SUFFICES ASSUME NEW i \in D, NEW j \in D, i < j PROVE Less(perm[i], perm[j])
    BY Zenon DEF IsStableSort, Less, D
  <2>1. perm[i] \in D /\ perm[j] \in D /\ place[perm[i]] = i /\ place[perm[j]] = j
    BY <1>11
  <2>2. perm[i] # perm[j] /\ ~(place[perm[j]] < place[perm[i]])
    BY <1>1, <2>1
  <2> QED
    BY <1>6, <1>7, <2>1, <2>2
<1>14. ListSort(l, key) = [k \in D |-> l[perm[k]]]
  BY DEF ListSort, perm, place, D
<1>15. ListSortResults(l, key) =
         { [k \in D |-> l[p[k]]] : p \in {p \in Bijection(D, D) : IsStableSort(l, p, key)} }
  BY Zenon DEF ListSortResults, D
<1> QED
  BY Zenon, <1>12, <1>13, <1>14, <1>15

LEMMA SortFacts ==
  ASSUME NEW S, NEW l \in Seq(S), NEW key \in [S -> Int]
  PROVE  LET r == ListSort(l, key)
         IN  /\ r \in Seq(S) /\ ToSet(r) = ToSet(l)
             /\ IsInjective(l) => IsInjective(r)
             /\ Ordered(r, key)
<1>1. CASE Ordered(l, key)
  <2>1. ListSort(l, key) = l
    BY <1>1 DEF ListSort
  <2> QED
    BY <1>1, <2>1
<1>2. CASE ~Ordered(l, key)
  <2>1. ListSort(l, key) \in ListSortResults(l, key)
    BY <1>2, SortedIsStable
  <2> QED
    BY <2>1, SortResult
<1> QED
  BY <1>1, <1>2

LEMMA RankType ==
  ASSUME NEW pri \in [Thread -> Int]
  PROVE  Rank(pri) \in [Thread -> Int] /\ \A t \in Thread : Rank(pri)[t] = -pri[t]
BY DEF Rank

\* schedule()
LEMMA RunNextFacts ==
  ASSUME NEW l \in Seq(Thread), NEW pri \in [Thread -> Int], IsInjective(l), RunNext(l)
  PROVE  /\ ready_list' \in Seq(Thread) /\ current' \in Thread \cup {Idle}
         /\ IsInjective(ready_list') /\ current' \notin ToSet(ready_list')
         /\ current' = Idle => ready_list' = <<>>
         /\ ToSet(ready_list') \subseteq ToSet(l)
         /\ Ordered(l, Rank(pri)) =>
              /\ Ordered(ready_list', Rank(pri))
              /\ current' # Idle => \A t \in ToSet(ready_list') : pri[t] <= pri[current']
<1>1. CASE l = <<>>
  <2>1. ready_list' = <<>> /\ current' = Idle
    BY <1>1 DEF RunNext
  <2>2. ToSet(<<>>) = {} /\ <<>> \in Seq(Thread) /\ IsInjective(<<>>)
    BY DEF ToSet, IsInjective
  <2>3. Ordered(<<>>, Rank(pri))
    BY DEF Ordered
  <2> QED
    BY <2>1, <2>2, <2>3
<1>2. CASE l # <<>>
  <2>1. ready_list' = Tail(l) /\ current' = Head(l)
    BY <1>2 DEF RunNext
  <2>2. Rank(pri) \in [Thread -> Int] /\ \A t \in Thread : Rank(pri)[t] = -pri[t]
    BY RankType
  <2>3. /\ Head(l) \in Thread /\ Head(l) \in ToSet(l)
        /\ Tail(l) \in Seq(Thread)
        /\ ToSet(l) = ToSet(Tail(l)) \cup {Head(l)}
        /\ IsInjective(Tail(l)) /\ Head(l) \notin ToSet(Tail(l))
        /\ Ordered(l, Rank(pri)) =>
             /\ Ordered(Tail(l), Rank(pri))
             /\ \A x \in ToSet(l) : Rank(pri)[Head(l)] <= Rank(pri)[x]
    BY <1>2, <2>2, PopFront
  <2>4. ToSet(Tail(l)) \subseteq Thread
    BY <2>3 DEF ToSet
  <2>5. Head(l) # Idle
    BY <2>3, MlfqsAssumption
  <2>6. ASSUME Ordered(l, Rank(pri)), NEW t \in ToSet(Tail(l))
        PROVE  pri[t] <= pri[Head(l)]
    <3>1. t \in Thread /\ t \in ToSet(l)
      BY <2>3, <2>4
    <3>2. Rank(pri)[Head(l)] <= Rank(pri)[t]
      BY <2>3, <2>6, <3>1
    <3>3. pri[t] \in Int /\ pri[Head(l)] \in Int
      BY <2>3, <3>1
    <3> QED
      BY <2>2, <2>3, <3>1, <3>2, <3>3
  <2> QED
    BY <2>1, <2>3, <2>5, <2>6
<1> QED
  BY <1>1, <1>2

\* thread_yield(), from a ready list that the running thread is not on.
LEMMA YieldFacts ==
  ASSUME NEW l \in Seq(Thread), NEW pri \in [Thread -> Int], IsInjective(l),
         current \in Thread \cup {Idle}, current \notin ToSet(l), Ordered(l, Rank(pri)),
         ThreadYield(l, pri)
  PROVE  /\ ready_list' \in Seq(Thread) /\ current' \in Thread \cup {Idle}
         /\ IsInjective(ready_list') /\ current' \notin ToSet(ready_list')
         /\ current' = Idle => ready_list' = <<>>
         /\ Ordered(ready_list', Rank(pri))
         /\ current' # Idle => \A t \in ToSet(ready_list') : pri[t] <= pri[current']
<1>1. CASE current = Idle
  BY <1>1, RunNextFacts DEF ThreadYield
<1>2. CASE current # Idle
  <2> DEFINE r == ListInsertOrdered(l, current, Rank(pri))
  <2>1. current \in Thread /\ Rank(pri) \in [Thread -> Int]
    BY <1>2, RankType
  <2>2. r \in Seq(Thread) /\ IsInjective(r) /\ Ordered(r, Rank(pri))
    BY <2>1, InsertOrdered
  <2>3. RunNext(r)
    BY <1>2 DEF ThreadYield
  <2> QED
    BY <2>2, <2>3, RunNextFacts
<1> QED
  BY <1>1, <1>2

LEMMA PriorityType ==
  ASSUME NEW pri \in [Thread -> Pri]
  PROVE  pri \in [Thread -> Int]
<1>1. Pri \subseteq Int
  BY DEF Pri, PriMin, PriMax
<1> QED
  BY <1>1

LEMMA NewPriorityType ==
  ASSUME NEW recent \in Int, NEW n \in Nice
  PROVE  NewPriority(recent, n) \in Pri
<1>1. n \in Int
  BY MlfqsAssumption DEF Nice
<1>2. \A x \in Int, y \in Nat \ {0} : Quot(x, y) \in Int
  BY DEF Quot
<1> DEFINE p == RoundTowardZero(IntToFp(PriMax) - Quot(recent, 4) - IntToFp(n) * 2)
<1>3. p \in Int
  <2>1. F \in Nat \ {0} /\ F = 16384
    BY DEF F
  <2>2. Quot(recent, 4) \in Int
    BY <1>2
  <2>3. IntToFp(PriMax) \in Int /\ IntToFp(n) \in Int
    BY <1>1, <2>1 DEF IntToFp, PriMax
  <2> QED
    BY <1>2, <2>1, <2>2, <2>3 DEF RoundTowardZero
<1> HIDE DEF p
<1>4. NewPriority(recent, n) = IF p > PriMax THEN PriMax ELSE IF p < PriMin THEN PriMin ELSE p
  BY DEF NewPriority, p
<1> QED
  BY <1>3, <1>4 DEF Pri, PriMin, PriMax

-----------------------------------------------------------------------------
(* The timer interrupt *)

LEMMA Threads ==
  IsFiniteSet(Thread) /\ N \in Nat
<1>1. Started \in [1 .. Len(Started) -> Thread] /\ Len(Started) \in Nat
  BY MlfqsAssumption
<1>2. \A t \in Thread : \E i \in 1 .. Len(Started) : Started[i] = t
  BY <1>1 DEF Thread, ToSet
<1>3. Started \in Surjection(1 .. Len(Started), Thread)
  BY <1>1, <1>2 DEF Surjection
<1>4. IsFiniteSet(1 .. Len(Started))
  BY <1>1, FS_Interval
<1>5. IsFiniteSet(Thread)
  BY <1>3, <1>4, FS_Surjection
<1> QED
  BY <1>5, FS_CardinalityType DEF N

\* update_load_avg() counts no thread twice.
LEMMA ReadyCount ==
  ASSUME NEW l \in Seq(Thread), IsInjective(l),
         current \in Thread \cup {Idle}, current \notin ToSet(l)
  PROVE  Len(l) + (IF current = Idle THEN 0 ELSE 1) <= N
<1> DEFINE S == IF current = Idle THEN Thread ELSE Thread \ {current}
<1>1. IsFiniteSet(S) /\ Cardinality(S) = IF current = Idle THEN N ELSE N - 1
  BY Threads, FS_RemoveElement DEF N
<1>2. l \in [1 .. Len(l) -> S]
  <2>1. \A i \in 1 .. Len(l) : l[i] \in Thread /\ l[i] # current
    BY DEF ToSet
  <2>2. l \in [1 .. Len(l) -> Thread]
    OBVIOUS
  <2> QED
    BY <2>1, <2>2
<1>3. l \in Injection(1 .. Len(l), S)
  BY <1>2 DEF Injection, IsInjective
<1> HIDE DEF S
<1>4. Cardinality(1 .. Len(l)) <= Cardinality(S)
  BY <1>1, <1>3, FS_Injection
<1>5. Len(l) \in Nat
  OBVIOUS
<1>6. Cardinality(1 .. Len(l)) = Len(l)
  <2>1. Cardinality(1 .. Len(l)) = IF 1 > Len(l) THEN 0 ELSE Len(l) - 1 + 1
    BY <1>5, FS_Interval
  <2> QED
    BY <1>5, <2>1
<1> QED
  BY <1>1, <1>4, <1>5, <1>6, Threads

LEMMA LoadBound ==
  ASSUME NEW load \in Nat, NEW n \in Nat, NEW r \in Nat, load <= n * F, r <= n
  PROVE  NewLoadAvg(load, r) \in Nat /\ NewLoadAvg(load, r) <= n * F
<1> DEFINE m == MulNat(16110, load)
<1>1. F = 16384
  BY DEF F
<1>2. FpDivFp(IntToFp(59), IntToFp(60)) = 16110
  BY <1>1 DEF FpDivFp, IntToFp, Half
<1>3. FpDivFp(IntToFp(1), IntToFp(60)) = 273
  BY <1>1 DEF FpDivFp, IntToFp, Half
<1>4. NewLoadAvg(load, r) = m + 273 * r
  BY <1>2, <1>3 DEF NewLoadAvg, FpMulFp
<1>5. m \in Nat /\ m * F <= 16110 * load
  <2> DEFINE s == (16110 * load) % F
  <2>1. m = (16110 * load) \div F
    BY MulNatExact
  <2>2. F \in Nat \ {0} /\ 16110 * load \in Nat
    BY <1>1
  <2>3. /\ (16110 * load) \div F \in Nat /\ s \in Nat
        /\ 16110 * load = ((16110 * load) \div F) * F + s
    BY <2>2, Division
  <2> HIDE DEF m, s
  <2> QED
    BY <1>1, <2>1, <2>3
<1> HIDE DEF m
<1>6. m <= 16110 * n
  BY <1>1, <1>5
<1> QED
  BY <1>1, <1>4, <1>5, <1>6

LEMMA RecentBound ==
  ASSUME NEW load \in Nat, NEW n \in Nat, load <= n * F,
         NEW x \in Int, NEW v \in Nice, NEW freq \in Nat,
         -((2 * n + 1) * MaxNice * F) <= x, x <= (2 * n + 1) * (freq + MaxNice) * F
  PROVE  LET r == NewRecentCpu(load, x, v)
         IN  /\ r \in Int
             /\ -((2 * n + 1) * MaxNice * F) <= r
             /\ r <= (2 * n * freq + (2 * n + 1) * MaxNice) * F
<1> DEFINE d == FpDivFp(load * 2, FpAddInt(load * 2, 1))
           m == FpMulFp(d, x)
<1>1. F = 16384
  BY DEF F
<1>2. MaxNice \in Nat /\ v \in Int /\ -MaxNice <= v /\ v <= MaxNice /\ freq + MaxNice \in Nat
  BY MlfqsAssumption DEF Nice
<1>3. d \in Nat /\ d * (2 * n + 1) <= 2 * n * F
  BY Decay
<1>4. NewRecentCpu(load, x, v) = m + v * F
  BY DEF NewRecentCpu, FpAddInt
<1> HIDE DEF d
<1>5. m \in Int /\ m <= 2 * n * (freq + MaxNice) * F /\ -(2 * n * MaxNice * F) <= m
  BY <1>2, <1>3, Forgotten
<1> HIDE DEF m
<1>6. /\ 2 * n * (freq + MaxNice) * F + MaxNice * F = (2 * n * freq + (2 * n + 1) * MaxNice) * F
      /\ -(2 * n * MaxNice * F) - MaxNice * F = -((2 * n + 1) * MaxNice * F)
  BY <1>1, <1>2
<1>7. v * F <= MaxNice * F /\ -(MaxNice * F) <= v * F /\ v * F \in Int /\ MaxNice * F \in Int
  BY <1>1, <1>2
<1>8. 2 * n * (freq + MaxNice) * F \in Int /\ 2 * n * MaxNice * F \in Int
  BY <1>1, <1>2
<1>9. \A a, b, c, e, g \in Int : a <= b /\ c <= e => a + c <= b + e
  OBVIOUS
<1> QED
  BY <1>4, <1>5, <1>6, <1>7, <1>8

\* The tick count starts again where nothing that the code reads changes.
LEMMA NextTick ==
  ASSUME ticks \in 0 .. MaxTicks, ticks' = (ticks % MaxTicks) + 1
  PROVE  /\ ticks' \in 0 .. MaxTicks
         /\ Ticked \in Nat /\ Ticked < TimerFreq
         /\ Ticked' = IF Ticked + 1 = TimerFreq THEN 0 ELSE Ticked + 1
<1> DEFINE b == ticks % MaxTicks
<1>1. /\ TimerFreq \in Nat \ {0} /\ MaxTicks \in Nat \ {0}
      /\ MaxTicks % TimerFreq = 0 /\ ticks \in Nat
  BY MlfqsAssumption
<1>2. b \in Nat /\ b < MaxTicks
  BY <1>1, Division
<1>3. b % TimerFreq = Ticked
  <2>1. CASE ticks = MaxTicks
    <3>1. MaxTicks = 1 * MaxTicks + 0 /\ 0 < MaxTicks
      BY <1>1
    <3>2. MaxTicks \div MaxTicks = 1
      BY <1>1, <3>1, QuotientIs
    <3>3. b = 0
      <4>1. MaxTicks = (MaxTicks \div MaxTicks) * MaxTicks + (MaxTicks % MaxTicks)
        BY <1>1, Division
      <4>2. MaxTicks % MaxTicks \in Nat
        BY <1>1, Division
      <4> QED
        BY <1>1, <2>1, <3>2, <4>1, <4>2
    <3>4. 0 % TimerFreq = 0
      BY <1>1
    <3> QED
      BY <1>1, <2>1, <3>3, <3>4 DEF Ticked
  <2>2. CASE ticks # MaxTicks
    <3>1. ticks < MaxTicks /\ ticks = 0 * MaxTicks + ticks
      BY <1>1, <2>2
    <3>2. ticks \div MaxTicks = 0
      BY <1>1, <3>1, QuotientIs
    <3>3. ticks = (ticks \div MaxTicks) * MaxTicks + b
      BY <1>1, Division
    <3>4. b = ticks
      BY <1>1, <1>2, <3>2, <3>3
    <3> QED
      BY <3>4 DEF Ticked
  <2> QED
    BY <2>1, <2>2
<1>4. Ticked \in Nat /\ Ticked < TimerFreq
  BY <1>1, <1>2, Division DEF Ticked
<1> HIDE DEF b
<1>5. (b + 1) % TimerFreq = IF (b % TimerFreq) + 1 = TimerFreq THEN 0 ELSE (b % TimerFreq) + 1
  BY <1>1, <1>2, NextRemainder
<1>6. Ticked' = (b + 1) % TimerFreq
  BY DEF Ticked, b
<1> QED
  BY <1>1, <1>2, <1>3, <1>4, <1>5, <1>6 DEF b

\* timer_interrupt(), with the ready list that thread_alarm() leaves.
LEMMA TickFacts ==
  ASSUME MlfqsInv, NEW l \in Seq(Thread), IsInjective(l), current \notin ToSet(l),
         Ordered(l, Rank(priority)), Tick(l), calls' \in 0 .. MaxCalls
  PROVE  MlfqsInv'
<1> DEFINE now    == (ticks % MaxTicks) + 1
           second == now % TimerFreq = 0
           load   == IF second THEN UpdatedLoadAvg(l) ELSE load_avg
           recent == IF second THEN UpdatedRecentCpu(load, Charged) ELSE Charged
<1>1. /\ handler = "none" /\ handler' = "return"
      /\ ticks' = now /\ ready_list' = l /\ load_avg' = load /\ recent_cpu' = recent
      /\ priority' = IF now % 4 = 0 THEN [t \in Thread |-> NewPriority(recent[t], nice[t])]
                     ELSE priority
      /\ UNCHANGED <<current, nice, pc, new_pri, workload>>
  BY DEF Tick
<1>2. TypeOK /\ Within
  BY DEF MlfqsInv
<1>3. /\ load_avg \in Nat /\ load_avg <= N * F /\ N \in Nat /\ F = 16384
      /\ MaxNice \in Nat /\ TimerFreq \in Nat \ {0}
      /\ N * F \in Nat
  BY <1>2, Threads, MlfqsAssumption DEF Within, TypeOK, F
<1>4. /\ ticks' \in 0 .. MaxTicks
      /\ Ticked \in Nat /\ Ticked < TimerFreq
      /\ Ticked' = IF Ticked + 1 = TimerFreq THEN 0 ELSE Ticked + 1
  BY <1>1, <1>2, NextTick DEF TypeOK
<1>5. second <=> Ticked + 1 = TimerFreq
  BY <1>1, <1>3, <1>4 DEF Ticked
<1>6. load \in Nat /\ load <= N * F
  <2>1. CASE second
    <3> DEFINE r == Len(l) + (IF current = Idle THEN 0 ELSE 1)
    <3>1. r \in Nat /\ r <= N
      BY <1>2, ReadyCount DEF TypeOK
    <3>2. load = NewLoadAvg(load_avg, r)
      BY <2>1 DEF UpdatedLoadAvg
    <3> HIDE DEF load, r
    <3> QED
      BY <1>3, <3>1, <3>2, LoadBound
  <2>2. CASE ~second
    BY <1>3, <2>2
  <2> QED
    BY <2>1, <2>2
<1>7. \A t \in Thread : /\ recent_cpu[t] \in Int /\ Charged[t] \in Int
                        /\ recent_cpu[t] <= Charged[t] /\ Charged[t] <= recent_cpu[t] + F
  BY <1>2, <1>3 DEF TypeOK, Charged, FpAddInt
<1>8. Charged \in [Thread -> Int]
  <2>1. Charged = [t \in Thread |-> Charged[t]]
    BY DEF Charged
  <2> QED
    BY <1>7, <2>1
<1>9. ASSUME NEW t \in Thread
      PROVE  /\ -(LeastCpu * F) <= Charged[t]
             /\ Charged[t] <= (MostCpu + (Ticked + 1)) * F
  <2>1. LeastCpu \in Nat /\ MostCpu \in Nat
    BY <1>3 DEF LeastCpu, MostCpu
  <2>2. -LeastCpu * F <= recent_cpu[t] /\ recent_cpu[t] <= (MostCpu + Ticked) * F
    BY <1>2 DEF Within
  <2>3. /\ Ticked \in Nat /\ recent_cpu[t] \in Int /\ Charged[t] \in Int
        /\ recent_cpu[t] <= Charged[t] /\ Charged[t] <= recent_cpu[t] + F
    BY <1>4, <1>7
  <2> HIDE DEF now, second, load, recent
  <2> QED
    BY <2>1, <2>2, <2>3 DEF F
<1> HIDE DEF load
<1>10. ASSUME NEW t \in Thread
       PROVE  /\ recent[t] \in Int
              /\ -LeastCpu * F <= recent[t]
              /\ recent[t] <= (MostCpu + Ticked') * F
  <2>1. CASE second
    <3>1. recent[t] = NewRecentCpu(load, Charged[t], nice[t])
      BY <2>1 DEF UpdatedRecentCpu
    <3>2. nice[t] \in Nice
      BY <1>2 DEF TypeOK
    <3>3. MostCpu + (Ticked + 1) = (2 * N + 1) * (TimerFreq + MaxNice)
      BY <1>3, <1>4, <1>5, <2>1 DEF MostCpu
    <3>4. LeastCpu * F = (2 * N + 1) * MaxNice * F
      BY <1>3 DEF LeastCpu
    <3>5. /\ recent[t] \in Int
          /\ -((2 * N + 1) * MaxNice * F) <= recent[t]
          /\ recent[t] <= (2 * N * TimerFreq + (2 * N + 1) * MaxNice) * F
      <4> HIDE DEF recent, second
      <4>1. /\ -((2 * N + 1) * MaxNice * F) <= Charged[t]
            /\ Charged[t] <= (2 * N + 1) * (TimerFreq + MaxNice) * F
            /\ TimerFreq \in Nat
        BY <1>3, <1>9, <3>3, <3>4
      <4>2. N \in Nat /\ load \in Nat /\ load <= N * F /\ Charged[t] \in Int
        BY <1>3, <1>6, <1>7
      <4> QED
        BY Zenon, <3>1, <3>2, <4>1, <4>2, RecentBound
    <3>6. Ticked' = 0
      BY <1>4, <1>5, <2>1
    <3>7. MostCpu \in Nat /\ MostCpu = 2 * N * TimerFreq + (2 * N + 1) * MaxNice
      BY <1>3 DEF MostCpu
    <3>8. LeastCpu \in Nat
      BY <1>3 DEF LeastCpu
    <3> HIDE DEF recent
    <3> QED
      BY <1>3, <3>4, <3>5, <3>6, <3>7, <3>8
  <2>2. CASE ~second
    <3>1. recent[t] = Charged[t] /\ Ticked' = Ticked + 1
      BY <1>4, <1>5, <2>2
    <3>2. LeastCpu \in Nat
      BY <1>3 DEF LeastCpu
    <3> HIDE DEF recent
    <3> QED
      BY <1>3, <1>7, <1>9, <3>1, <3>2
  <2> QED
    BY <2>1, <2>2
<1>11. recent \in [Thread -> Int]
  <2>1. recent = [t \in Thread |-> recent[t]]
    BY DEF UpdatedRecentCpu, Charged
  <2> HIDE DEF recent
  <2> QED
    BY <1>10, <2>1
<1>12. priority' \in [Thread -> Pri]
  <2>1. \A t \in Thread : NewPriority(recent[t], nice[t]) \in Pri
    <3> HIDE DEF recent
    <3> QED
      BY <1>2, <1>11, NewPriorityType DEF TypeOK
  <2> HIDE DEF recent, now
  <2> QED
    BY <1>1, <1>2, <2>1 DEF TypeOK
<1> HIDE DEF recent, second
<1>13. TypeOK'
  BY <1>1, <1>2, <1>4, <1>6, <1>11, <1>12 DEF TypeOK
<1>14. Within'
  <2>1. load_avg' \in 0 .. N * F
    BY <1>1, <1>3, <1>6
  <2>2. \A t \in Thread : /\ -LeastCpu * F <= recent_cpu'[t]
                          /\ recent_cpu'[t] <= (MostCpu + Ticked') * F
    BY <1>1, <1>10
  <2> QED
    BY <2>1, <2>2 DEF Within, LeastCpu, MostCpu
<1>15. Distinct' /\ InOrder' /\ RunsHighest'
  BY <1>1 DEF Distinct, InOrder, RunsHighest
<1> QED
  BY <1>13, <1>14, <1>15 DEF MlfqsInv

-----------------------------------------------------------------------------
(* The invariant *)

LEMMA InitInv == Init => MlfqsInv
<1> SUFFICES ASSUME Init PROVE MlfqsInv
  OBVIOUS
<1> DEFINE l == ListSort(Started, Rank(priority))
<1>1. /\ load_avg = 0 /\ recent_cpu = [t \in Thread |-> 0] /\ nice = StartNice
      /\ priority = [t \in Thread |-> NewPriority(0, StartNice[t])]
      /\ new_pri = [t \in Thread |-> PriMin]
      /\ current = Head(l) /\ ready_list = Tail(l)
      /\ ticks = FirstTick /\ handler = "none" /\ pc = [t \in Thread |-> "run"]
      /\ workload \in {"calls", "computing"}
      /\ calls = IF workload = "computing" THEN MaxCalls ELSE 0
  BY DEF Init
<1>2. /\ Started \in Seq(Thread) /\ Started # <<>> /\ IsInjective(Started)
      /\ Idle \notin Thread /\ StartNice \in [Thread -> Nice]
      /\ TimerFreq \in Nat \ {0} /\ MaxTicks \in Nat /\ FirstTick \in 0 .. MaxTicks
      /\ MaxCalls \in Nat /\ MaxNice \in Nat
  BY MlfqsAssumption
<1>3. priority \in [Thread -> Pri] /\ priority \in [Thread -> Int]
  <2>1. \A t \in Thread : NewPriority(0, StartNice[t]) \in Pri
    BY <1>2, NewPriorityType
  <2>2. priority \in [Thread -> Pri]
    BY <1>1, <2>1
  <2> QED
    BY <2>2, PriorityType
<1>4. /\ Rank(priority) \in [Thread -> Int]
      /\ \A t \in Thread : Rank(priority)[t] = -priority[t]
  BY <1>3, RankType
<1>5. /\ l \in Seq(Thread) /\ ToSet(l) = ToSet(Started) /\ IsInjective(l)
      /\ Ordered(l, Rank(priority))
  BY <1>2, <1>4, SortFacts
<1> HIDE DEF l
<1>6. l # <<>>
  <2>1. Started[1] \in ToSet(Started)
    BY <1>2 DEF ToSet
  <2>2. ToSet(<<>>) = {}
    BY DEF ToSet
  <2> QED
    BY <1>5, <2>1, <2>2
<1>7. /\ current \in Thread /\ ready_list \in Seq(Thread)
      /\ IsInjective(ready_list) /\ current \notin ToSet(ready_list)
      /\ ToSet(l) = ToSet(ready_list) \cup {current}
      /\ Ordered(ready_list, Rank(priority))
      /\ \A t \in ToSet(l) : Rank(priority)[current] <= Rank(priority)[t]
  BY <1>1, <1>4, <1>5, <1>6, PopFront
<1>8. TypeOK
  <2>1. PriMin \in Pri
    BY DEF Pri, PriMin, PriMax
  <2> QED
    BY <1>1, <1>2, <1>3, <1>7, <2>1 DEF TypeOK
<1>9. Within
  <2>1. N \in Nat /\ F = 16384
    BY Threads DEF F
  <2>2. LeastCpu \in Nat /\ MostCpu \in Nat /\ Ticked \in Nat
    BY <1>1, <1>2, <2>1 DEF LeastCpu, MostCpu, Ticked
  <2> QED
    BY <1>1, <2>1, <2>2 DEF Within
<1>10. RunsHighest
  <2>1. ASSUME NEW t \in ToSet(ready_list) PROVE priority[t] <= priority[current]
    <3>1. t \in ToSet(l) /\ t \in Thread
      <4>1. t \in ToSet(l)
        BY <1>7
      <4>2. ToSet(ready_list) \subseteq Thread
        BY <1>7 DEF ToSet
      <4> QED
        BY <4>1, <4>2
    <3>2. -priority[current] <= -priority[t]
      BY <1>4, <1>7, <3>1
    <3>3. priority[t] \in Int /\ priority[current] \in Int
      BY <1>3, <1>7, <3>1
    <3> QED
      BY <3>2, <3>3
  <2>2. current # Idle
    BY <1>2, <1>7
  <2> QED
    BY <1>7, <2>1, <2>2 DEF RunsHighest
<1> QED
  BY <1>7, <1>8, <1>9, <1>10 DEF MlfqsInv, Distinct, InOrder

\* A step of a thread that changes neither CPU use nor the clock.
LEMMA WithinKept ==
  ASSUME Within, UNCHANGED <<cpuVars, ticks>>
  PROVE  Within'
BY DEF Within, cpuVars, Ticked, MostCpu, LeastCpu

LEMMA StepInv ==
  ASSUME MlfqsInv, [Next]_vars
  PROVE  MlfqsInv'
<1>1. /\ TypeOK /\ Distinct /\ InOrder /\ Within /\ RunsHighest
      /\ IsInjective(ready_list) /\ current \notin ToSet(ready_list)
      /\ ready_list \in Seq(Thread) /\ current \in Thread \cup {Idle}
      /\ priority \in [Thread -> Pri] /\ priority \in [Thread -> Int]
  BY PriorityType DEF MlfqsInv, Distinct, TypeOK
<1>2. Rank(priority) \in [Thread -> Int] /\ Idle \notin Thread
  BY <1>1, RankType, MlfqsAssumption
<1>3. ASSUME Call PROVE calls' \in 0 .. MaxCalls
  BY <1>1, <1>3, MlfqsAssumption DEF Call, TypeOK
<1>4. ASSUME handler = "none" PROVE Ordered(ready_list, Rank(priority))
  BY <1>1, <1>4 DEF InOrder
<1>5. ASSUME NEW u \in Blocked, handler = "none"
      PROVE  LET r == ListInsertOrdered(ready_list, u, Rank(priority))
             IN  /\ r \in Seq(Thread) /\ IsInjective(r) /\ current \notin ToSet(r)
                 /\ Ordered(r, Rank(priority))
  <2>1. u \in Thread /\ u # current /\ u \notin ToSet(ready_list)
    BY <1>5 DEF Blocked
  <2> QED
    BY <1>1, <1>2, <1>4, <1>5, <2>1, InsertOrdered
<1>6. CASE TimerInterrupt
  <2>1. Tick(ready_list) /\ calls' \in 0 .. MaxCalls /\ handler = "none"
    BY <1>1, <1>6 DEF TimerInterrupt, Tick, TypeOK
  <2> QED
    BY <1>1, <1>4, <2>1, TickFacts
<1>7. CASE TimerAlarm
  <2>1. PICK u \in Blocked : Tick(ListInsertOrdered(ready_list, u, Rank(priority)))
    BY <1>7 DEF TimerAlarm
  <2>2. handler = "none" /\ calls' \in 0 .. MaxCalls
    BY <1>3, <1>7, <2>1 DEF TimerAlarm, Tick
  <2> QED
    BY <1>5, <2>1, <2>2, TickFacts
<1>8. CASE IntrReturn
  <2> DEFINE l == IF ticks % 4 = 0 THEN UpdatedReady(ready_list, priority) ELSE ready_list
  <2>1. /\ ThreadYield(l, priority) /\ handler' = "none"
        /\ UNCHANGED <<cpuVars, nice, priority, ticks, pc, new_pri, calls, workload>>
    BY <1>8 DEF IntrReturn
  <2>2. l \in Seq(Thread) /\ IsInjective(l) /\ current \notin ToSet(l) /\ Ordered(l, Rank(priority))
    BY <1>1, <1>2, SortFacts DEF UpdatedReady, InOrder
  <2> HIDE DEF l
  <2>3. /\ ready_list' \in Seq(Thread) /\ current' \in Thread \cup {Idle}
        /\ IsInjective(ready_list') /\ current' \notin ToSet(ready_list')
        /\ current' = Idle => ready_list' = <<>>
        /\ Ordered(ready_list', Rank(priority))
        /\ current' # Idle => \A t \in ToSet(ready_list') : priority[t] <= priority[current']
    BY <1>1, <2>1, <2>2, YieldFacts
  <2>4. Within'
    BY <1>1, <2>1, WithinKept
  <2>5. TypeOK'
    BY <1>1, <2>1, <2>3 DEF TypeOK, cpuVars
  <2> QED
    BY <2>1, <2>3, <2>4, <2>5 DEF MlfqsInv, Distinct, InOrder, RunsHighest
<1>9. ASSUME NEW t \in Thread, ThreadBlock(t) PROVE MlfqsInv'
  <2>1. /\ handler = "none" /\ calls' \in 0 .. MaxCalls /\ RunNext(ready_list)
        /\ UNCHANGED <<cpuVars, nice, priority, ticks, handler, pc, new_pri, workload>>
    BY <1>3, <1>9 DEF ThreadBlock, At
  <2>2. /\ ready_list' \in Seq(Thread) /\ current' \in Thread \cup {Idle}
        /\ IsInjective(ready_list') /\ current' \notin ToSet(ready_list')
        /\ current' = Idle => ready_list' = <<>>
        /\ Ordered(ready_list', Rank(priority))
        /\ current' # Idle => \A u \in ToSet(ready_list') : priority[u] <= priority[current']
    BY <1>1, <1>4, <2>1, RunNextFacts
  <2>3. Within'
    BY <1>1, <2>1, WithinKept
  <2>4. TypeOK'
    BY <1>1, <2>1, <2>2 DEF TypeOK, cpuVars
  <2> QED
    BY <2>1, <2>2, <2>3, <2>4 DEF MlfqsInv, Distinct, InOrder, RunsHighest
<1>10. ASSUME NEW t \in Thread, NEW u \in Thread, Wake(t, u) PROVE MlfqsInv'
  <2> DEFINE l == ListInsertOrdered(ready_list, u, Rank(priority))
  <2>1. /\ handler = "none" /\ calls' \in 0 .. MaxCalls /\ u \in Blocked
        /\ ThreadYield(l, priority)
        /\ UNCHANGED <<cpuVars, nice, priority, ticks, handler, pc, new_pri, workload>>
    BY <1>3, <1>10 DEF Wake, At
  <2>2. /\ l \in Seq(Thread) /\ IsInjective(l) /\ current \notin ToSet(l)
        /\ Ordered(l, Rank(priority))
    BY <1>5, <2>1
  <2> HIDE DEF l
  <2>3. /\ ready_list' \in Seq(Thread) /\ current' \in Thread \cup {Idle}
        /\ IsInjective(ready_list') /\ current' \notin ToSet(ready_list')
        /\ current' = Idle => ready_list' = <<>>
        /\ Ordered(ready_list', Rank(priority))
        /\ current' # Idle => \A v \in ToSet(ready_list') : priority[v] <= priority[current']
    BY <1>1, <2>1, <2>2, YieldFacts
  <2>4. Within'
    BY <1>1, <2>1, WithinKept
  <2>5. TypeOK'
    BY <1>1, <2>1, <2>3 DEF TypeOK, cpuVars
  <2> QED
    BY <2>1, <2>3, <2>4, <2>5 DEF MlfqsInv, Distinct, InOrder, RunsHighest
<1>11. ASSUME NEW t \in Thread, NEW n \in NewNice, ThreadSetNice(t, n) PROVE MlfqsInv'
  <2>1. /\ current = t /\ pc[t] = "run" /\ handler = "none" /\ calls' \in 0 .. MaxCalls
        /\ nice' = [nice EXCEPT ![t] = n] /\ pc' = [pc EXCEPT ![t] = "nice"]
        /\ UNCHANGED <<cpuVars, priority, runVars, ticks, handler, new_pri, workload>>
    BY <1>3, <1>11 DEF ThreadSetNice, At
  <2>2. n \in Nice
    BY MlfqsAssumption
  <2>3. TypeOK'
    BY <1>1, <2>1, <2>2 DEF TypeOK, cpuVars, runVars
  <2>4. Within'
    BY <1>1, <2>1, WithinKept
  <2>5. pc[current] # "test"
    BY <2>1
  <2> QED
    BY <1>1, <2>1, <2>3, <2>4, <2>5 DEF MlfqsInv, Distinct, InOrder, RunsHighest, runVars
<1>12. ASSUME NEW t \in Thread, ComputePriority(t) PROVE MlfqsInv'
  <2>1. /\ current = t /\ pc[t] = "nice" /\ handler = "none"
        /\ new_pri' = [new_pri EXCEPT ![t] = NewPriority(recent_cpu[t], nice[t])]
        /\ pc' = [pc EXCEPT ![t] = "store"]
        /\ UNCHANGED <<cpuVars, nice, priority, runVars, ticks, handler, calls, workload>>
    BY <1>12 DEF ComputePriority, At
  <2>2. NewPriority(recent_cpu[t], nice[t]) \in Pri
    BY <1>1, NewPriorityType DEF TypeOK
  <2>3. TypeOK'
    BY <1>1, <2>1, <2>2 DEF TypeOK, cpuVars, runVars
  <2>4. Within'
    BY <1>1, <2>1, WithinKept
  <2>5. pc[current] # "test"
    BY <2>1
  <2> QED
    BY <1>1, <2>1, <2>3, <2>4, <2>5 DEF MlfqsInv, Distinct, InOrder, RunsHighest, runVars
<1>13. ASSUME NEW t \in Thread, StorePriority(t) PROVE MlfqsInv'
  <2>1. /\ current = t /\ pc[t] = "store" /\ handler = "none"
        /\ priority' = [priority EXCEPT ![t] = new_pri[t]]
        /\ new_pri' = [new_pri EXCEPT ![t] = PriMin]
        /\ pc' = [pc EXCEPT ![t] = "test"]
        /\ UNCHANGED <<cpuVars, nice, runVars, ticks, handler, calls, workload>>
    BY <1>13 DEF StorePriority, At
  <2>2. PriMin \in Pri
    BY DEF Pri, PriMin, PriMax
  <2>3. TypeOK'
    BY <1>1, <2>1, <2>2 DEF TypeOK, cpuVars, runVars
  <2>4. Within'
    BY <1>1, <2>1, WithinKept
  <2>5. pc'[current'] = "test" /\ current' # Idle
    BY <1>1, <1>2, <2>1 DEF TypeOK, runVars
  <2>6. Ordered(ready_list', Rank(priority'))
    <3>1. \A x \in ToSet(ready_list) : x \in Thread /\ x # t
      BY <1>1, <2>1 DEF ToSet
    <3>2. \A x \in ToSet(ready_list) : Rank(priority')[x] = Rank(priority)[x]
      BY <1>1, <2>1, <3>1 DEF Rank
    <3>3. \A x, y \in ToSet(ready_list) :
            Rank(priority)[x] <= Rank(priority)[y] => Rank(priority')[x] <= Rank(priority')[y]
      BY <3>2
    <3>4. Ordered(ready_list, Rank(priority'))
      BY <1>4, <2>1, <3>3, OrderedMonotone
    <3> QED
      BY <2>1, <3>4 DEF runVars
  <2> QED
    BY <1>1, <2>1, <2>3, <2>4, <2>5, <2>6
    DEF MlfqsInv, Distinct, InOrder, RunsHighest, runVars
<1>14. ASSUME NEW t \in Thread, TestYield(t) PROVE MlfqsInv'
  <2>1. /\ current = t /\ pc[t] = "test" /\ handler = "none"
        /\ pc' = [pc EXCEPT ![t] = "run"]
        /\ IF ready_list # <<>> /\ priority[t] < priority[Head(ready_list)]
             THEN ThreadYield(ready_list, priority) ELSE UNCHANGED runVars
        /\ UNCHANGED <<cpuVars, nice, priority, ticks, handler, new_pri, calls, workload>>
    BY <1>14 DEF TestYield, At
  <2>2. Within'
    BY <1>1, <2>1, WithinKept
  <2>3. /\ ready_list' \in Seq(Thread) /\ current' \in Thread \cup {Idle}
        /\ IsInjective(ready_list') /\ current' \notin ToSet(ready_list')
        /\ current' = Idle => ready_list' = <<>>
        /\ Ordered(ready_list', Rank(priority))
        /\ current' # Idle => \A u \in ToSet(ready_list') : priority[u] <= priority[current']
    <3>1. CASE ready_list # <<>> /\ priority[t] < priority[Head(ready_list)]
      <4>1. ThreadYield(ready_list, priority)
        BY <2>1, <3>1
      <4> QED
        BY <1>1, <1>4, <2>1, <4>1, YieldFacts
    <3>2. CASE ready_list = <<>>
      <4>1. ready_list' = <<>> /\ current' = current
        BY <2>1, <3>2 DEF runVars
      <4>2. ToSet(<<>>) = {}
        BY DEF ToSet
      <4> QED
        BY <1>1, <1>4, <2>1, <3>2, <4>1, <4>2
    <3>3. CASE ready_list # <<>> /\ ~(priority[t] < priority[Head(ready_list)])
      <4>1. ready_list' = ready_list /\ current' = current
        BY <2>1, <3>3 DEF runVars
      <4>2. /\ Head(ready_list) \in Thread
            /\ \A u \in ToSet(ready_list) : Rank(priority)[Head(ready_list)] <= Rank(priority)[u]
        BY <1>1, <1>2, <1>4, <2>1, <3>3, PopFront
      <4>3. ASSUME NEW u \in ToSet(ready_list) PROVE priority[u] <= priority[current]
        <5>1. u \in Thread
          BY <1>1 DEF ToSet
        <5>2. -priority[Head(ready_list)] <= -priority[u]
          BY <1>1, <4>2, <5>1, RankType
        <5>3. priority[u] \in Int /\ priority[Head(ready_list)] \in Int /\ priority[t] \in Int
          BY <1>1, <4>2, <5>1
        <5> QED
          BY <2>1, <3>3, <5>2, <5>3
      <4> QED
        BY <1>1, <1>2, <1>4, <2>1, <4>1, <4>3
    <3> QED
      BY <3>1, <3>2, <3>3
  <2>4. TypeOK'
    BY <1>1, <2>1, <2>3 DEF TypeOK, cpuVars
  <2> QED
    BY <2>1, <2>2, <2>3, <2>4 DEF MlfqsInv, Distinct, InOrder, RunsHighest
<1>15. CASE UNCHANGED vars
  <2>1. Within'
    BY <1>1, <1>15, WithinKept DEF vars
  <2>2. TypeOK'
    BY <1>1, <1>15 DEF TypeOK, vars, cpuVars, runVars
  <2> QED
    BY <1>1, <1>15, <2>1, <2>2
    DEF MlfqsInv, Distinct, InOrder, RunsHighest, vars, cpuVars, runVars
<1> QED
  BY <1>6, <1>7, <1>8, <1>9, <1>10, <1>11, <1>12, <1>13, <1>14, <1>15 DEF Next

\* The inductive invariant.
THEOREM MlfqsInvariant == Spec => []MlfqsInv
<1>1. Init => MlfqsInv
  BY InitInv
<1>2. MlfqsInv /\ [Next]_vars => MlfqsInv'
  BY StepInv
<1> QED
  BY <1>1, <1>2, PTL DEF Spec

\* However many threads there are and whatever their nice values: load_avg and
\* recent_cpu (update_load_avg(), update_recent_cpu()) stay within their bounds.
THEOREM CpuUseBounded == Spec => []Within
<1>1. MlfqsInv => Within
  BY DEF MlfqsInv
<1> QED
  BY <1>1, MlfqsInvariant, PTL

\* The running thread is one of the highest priority (update_priority(),
\* thread_set_nice(), thread_unblock(), thread_yield()).
THEOREM HighestRuns == Spec => []RunsHighest
<1>1. MlfqsInv => RunsHighest
  BY DEF MlfqsInv
<1> QED
  BY <1>1, MlfqsInvariant, PTL

\* With room for (2 N + 1) (TIMER_FREQ + MaxNice) in the 17 bits before the
\* point, nothing that update_load_avg() and update_recent_cpu() compute in an
\* int overflows: 545 threads at 100 ticks a second and nice values up to 20.
NoOverflow ==
  /\ FpAddInt(load_avg * 2, 1) \in 0 .. IntMax
  /\ \A t \in Thread : -IntMax <= recent_cpu[t] /\ FpAddInt(recent_cpu[t], 1) <= IntMax

THEOREM NothingOverflows ==
  ASSUME IntMax \in Nat, (2 * N + 1) * (TimerFreq + MaxNice) * F <= IntMax
  PROVE  Spec => []NoOverflow
<1>1. MlfqsInv => NoOverflow
  <2> SUFFICES ASSUME MlfqsInv PROVE NoOverflow
    OBVIOUS
  <2>1. Within /\ TypeOK
    BY DEF MlfqsInv
  <2>2. /\ N \in Nat /\ F = 16384 /\ TimerFreq \in Nat \ {0} /\ MaxNice \in Nat
        /\ MaxTicks \in Nat \ {0} /\ ticks \in Nat
    BY <2>1, Threads, MlfqsAssumption DEF F, TypeOK
  <2>3. Ticked \in Nat /\ Ticked < TimerFreq
    BY <2>2, Division DEF Ticked
  <2> DEFINE k == (2 * N + 1) * (TimerFreq + MaxNice)
  <2>4. k \in Nat /\ k * F <= IntMax
    BY <2>2
  <2>5. LeastCpu \in Nat /\ MostCpu \in Nat /\ LeastCpu <= k /\ MostCpu + TimerFreq = k
    <3>1. k = (2 * N + 1) * TimerFreq + (2 * N + 1) * MaxNice
      BY <2>2
    <3>2. (2 * N + 1) * TimerFreq = 2 * N * TimerFreq + TimerFreq
      BY <2>2
    <3>3. /\ (2 * N + 1) * TimerFreq \in Nat /\ (2 * N + 1) * MaxNice \in Nat
          /\ 2 * N * TimerFreq \in Nat
      BY <2>2
    <3> DEFINE a == (2 * N + 1) * TimerFreq
               b == (2 * N + 1) * MaxNice
               c == 2 * N * TimerFreq
    <3>4. LeastCpu = b /\ MostCpu = c + b /\ k = a + b /\ a = c + TimerFreq
      BY <3>1, <3>2 DEF LeastCpu, MostCpu
    <3>5. a \in Nat /\ b \in Nat /\ c \in Nat
      BY <3>3
    <3> HIDE DEF a, b, c, k
    <3> QED
      BY <2>2, <3>4, <3>5
  <2>6. 2 * N + 1 <= k
    <3>1. (2 * N + 1) * 1 <= (2 * N + 1) * (TimerFreq + MaxNice)
      <4>1. \A a, b, c \in Nat : a <= b => c * a <= c * b
        OBVIOUS
      <4>2. 1 <= TimerFreq + MaxNice /\ TimerFreq + MaxNice \in Nat /\ 2 * N + 1 \in Nat
        BY <2>2
      <4> QED
        BY <4>1, <4>2
    <3> QED
      BY <2>2, <3>1
  <2> HIDE DEF k
  <2>7. FpAddInt(load_avg * 2, 1) \in 0 .. IntMax
    BY <2>1, <2>2, <2>4, <2>6 DEF Within, FpAddInt
  <2>8. ASSUME NEW t \in Thread
        PROVE  -IntMax <= recent_cpu[t] /\ FpAddInt(recent_cpu[t], 1) <= IntMax
    <3>1. recent_cpu[t] \in Int
      BY <2>1 DEF TypeOK
    <3>2. -LeastCpu * F <= recent_cpu[t] /\ recent_cpu[t] <= (MostCpu + Ticked) * F
      BY <2>1 DEF Within
    <3> QED
      BY <2>2, <2>3, <2>4, <2>5, <3>1, <3>2 DEF FpAddInt
  <2> QED
    BY <2>7, <2>8 DEF NoOverflow
<1> QED
  BY <1>1, MlfqsInvariant, PTL

-----------------------------------------------------------------------------
(* THE MEMORY ALLOCATORS *)


-----------------------------------------------------------------------------
(* The inductive invariant *)

\* What a thread owns: what it has, and what its free() is about to give back.
GivesBack(t) ==
  ~NoCall(t) /\ \/ call[t].pc = "push"
                \/ call[t].pc = "clear" /\ call[t].kind # "block"
Back(t) == IF GivesBack(t) THEN {call[t].addr} ELSE {}
Owned(t) == {r.addr : r \in held[t]} \cup Back(t)

\* The page of a big block's header, and that of an arena of small blocks.
IsBig(p)   == arena[p] # None /\ arena[p].desc = 0
IsArena(p) == arena[p] # None /\ arena[p].desc # 0

\* The free blocks of an arena.
FreeIn(p)  == Blocks(p, arena[p].desc) \cap Range(free_list[arena[p].desc])

\* The pages of what is at addr.
RunFrom(p, cnt) == p .. p + cnt - 1
Run(addr) == LET p == PageOf(addr)
             IN  IF IsBig(p) THEN RunFrom(p, arena[p].free_cnt) ELSE {p}

\* The pages that only the call of t is about: it has found them, it has marked
\* them, or it has emptied the arena there.
Reserves(t) ==
  ~NoCall(t) /\ \/ call[t].pc \in {"flip", "arena"}
                \/ call[t].pc = "clear" /\ call[t].kind = "block"
Reserved(t) == IF Reserves(t) THEN RunFrom(call[t].page, call[t].cnt) ELSE {}

\* A lock has the holder that stands in the code under it.
HasDesc(t, d) ==
  ~NoCall(t) /\ call[t].kind = "block" /\ call[t].desc = d /\ call[t].pc \notin {"lock", "push"}
LocksHeld ==
  /\ \A d \in Desc, t \in Caller : desc_lock[d] = t <=> HasDesc(t, d)
  /\ \A t \in Caller : pool_lock = t <=> Stands(t, "flip")

\* What a call has determined when it stands there.
CallShape(c) ==
  /\ c.kind = "block" => c.desc \in Desc /\ c.cnt = 1
  /\ c.kind # "block" => c.desc = 0 /\ c.pc \notin {"lock", "pop", "push"}
  /\ c.kind = "page" => c.cnt = 1 /\ c.pc # "arena" /\ c.old = 0
  /\ c.pc \in {"push", "clear"} => c.old = 0
  /\ c.pc \in {"lock", "scan"} => c.page = 0
  /\ c.pc \in {"flip", "arena", "push", "clear"} => c.page \in Page /\ c.cnt >= 1
  /\ c.pc = "push" => c.addr \in Blocks(c.page, c.desc)
  /\ c.pc = "clear" /\ c.kind = "page" => c.addr = Start(c.page)
  /\ c.pc = "clear" /\ c.kind = "big" => c.addr = Start(c.page) + Header
CallsOK ==
  \A t \in Caller : ~NoCall(t) =>
    /\ CallShape(call[t])
    /\ call[t].old # 0 => \E r \in held[t] : r.addr = call[t].old /\ ~IsPage(r)

\* The size of what is at addr.
SizeAt(addr) ==
  LET a == arena[PageOf(addr)]
  IN  IF addr % PageSize = 0 THEN PageSize
      ELSE IF a.desc = 0 THEN a.free_cnt * PageSize - Header ELSE a.desc
HeldOK ==
  \A t \in Caller : \A r \in held[t] :
    /\ r.size = SizeAt(r.addr)
    /\ r.addr \notin Back(t)
    /\ \A q \in held[t] : q.addr = r.addr => q = r

\* What somebody owns is a page, a big block or a block that is not free.
Granted(addr) ==
  LET p == PageOf(addr)
  IN  /\ p \in used_map
      /\ \/ addr = Start(p) /\ arena[p] = None
         \/ addr = Start(p) + Header /\ IsBig(p)
         \/ /\ IsArena(p) /\ addr \in Blocks(p, arena[p].desc)
            /\ addr \notin Range(free_list[arena[p].desc])
OwnedOK ==
  /\ \A t \in Caller : \A a \in Owned(t) : Granted(a)
  /\ \A t, u \in Caller : t # u => Owned(t) \cap Owned(u) = {}
  /\ \A t, u \in Caller : \A a \in Owned(t), b \in Owned(u) :
       a # b => Run(a) \cap Run(b) = {} \/ (PageOf(a) = PageOf(b) /\ IsArena(PageOf(a)))

\* What a call gives back is what free() has taken it for.
BackFor(t) ==
  LET c == call[t]
  IN  /\ c.kind = "big" => IsBig(c.page) /\ arena[c.page].free_cnt = c.cnt
      /\ c.kind = "block" => IsArena(c.page) /\ arena[c.page].desc = c.desc
BackOK == \A t \in Caller : GivesBack(t) => BackFor(t)

PagesOK ==
  /\ \A p \in Page \ used_map : arena[p] = None
  /\ \A p \in Page : IsBig(p) =>
       /\ arena[p].free_cnt >= 1 /\ RunFrom(p, arena[p].free_cnt) \subseteq used_map
       /\ \A q \in RunFrom(p, arena[p].free_cnt) : q # p => arena[q] = None

ReservedFor(u) ==
  LET c == call[u]
  IN  /\ Reserved(u) \subseteq Page
      /\ c.pc = "flip" => Reserved(u) \cap used_map = {}
      /\ c.pc = "arena" => Reserved(u) \subseteq used_map /\ \A p \in Reserved(u) : arena[p] = None
      /\ c.pc = "clear" =>
           /\ c.page \in used_map /\ IsArena(c.page) /\ arena[c.page].desc = c.desc
           /\ FreeIn(c.page) = {}
ReservedOK ==
  \A t \in Caller : Reserves(t) =>
    /\ ReservedFor(t)
    /\ \A u \in Caller : \A a \in Owned(u) : Run(a) \cap Reserved(t) = {}
    /\ \A u \in Caller : u # t => Reserved(u) \cap Reserved(t) = {}

\* The free lists have blocks of arenas of their size, each once.
FreeOK ==
  \A d \in Desc :
    /\ IsInjective(free_list[d])
    /\ \A b \in Range(free_list[d]) :
         LET p == PageOf(b)
         IN  p \in Page /\ IsArena(p) /\ arena[p].desc = d /\ b \in Blocks(p, d)

\* While a new arena is being made there is no free block, and then only those
\* of the new arena.
FreshFor(t) ==
  /\ call[t].pc \in {"scan", "flip", "arena"} => free_list[call[t].desc] = <<>>
  /\ call[t].pc = "pop" /\ call[t].page # 0 =>
       \A b \in Range(free_list[call[t].desc]) : PageOf(b) = call[t].page
FreshOK == \A t \in Caller : ~NoCall(t) /\ call[t].kind = "block" => FreshFor(t)

\* An arena whose blocks have left the free list, and whose page is on its way back.
GoneSoon(p) == \E t \in Caller : Stands(t, "clear") /\ call[t].kind = "block" /\ call[t].page = p
CountsFor(p) ==
  LET out == Blocks(p, arena[p].desc) \ FreeIn(p)
  IN  /\ arena[p].free_cnt = Cardinality(FreeIn(p))
      /\ \A b \in out : \E t \in Caller : b \in Owned(t)
      /\ out = {} => \E t \in Caller : /\ Stands(t, "pop") /\ call[t].page = p
                                       /\ call[t].desc = arena[p].desc
CountsOK == \A p \in Page : IsArena(p) /\ ~GoneSoon(p) => CountsFor(p)

UsedOK ==
  \A p \in used_map :
    \/ IsArena(p)
    \/ \E t \in Caller : p \in Reserved(t) \/ \E a \in Owned(t) : p \in Run(a)

HeapInv ==
  /\ HeapTypeOK /\ LocksHeld /\ CallsOK /\ HeldOK /\ OwnedOK /\ BackOK /\ PagesOK
  /\ ReservedOK /\ FreeOK /\ FreshOK /\ CountsOK /\ UsedOK

-----------------------------------------------------------------------------
(* Addresses: where the pages, the headers and the blocks of an arena are.  *)

\* Block sizes are positive, and an arena has room for a block of each.
LEMMA DescFacts ==
  ASSUME NEW d \in Desc
  PROVE  d \in Nat \ {0} /\ d + Header <= PageSize /\ d < PageSize
<1>1. \A m \in Doublings : m \in Nat \ {0}
  BY DEF Doublings
<1>2. PICK m \in Doublings : d = MinBlock * m
  BY DEF Desc
<1>3. d \in Nat \ {0}
  BY <1>1, <1>2, HeapAssumption
<1>4. d < PageSize \div 2
  BY DEF Desc
<1> QED
  BY <1>3, <1>4, HeapAssumption

\* The page of an address, and how far into the page it is.
LEMMA PageOfAt ==
  ASSUME NEW p \in Nat, NEW k \in Nat, k < PageSize
  PROVE  /\ Start(p) \in Nat /\ Start(p) + k \in Nat
         /\ PageOf(Start(p) + k) = p /\ (Start(p) + k) % PageSize = k
<1>1. PageSize \in Nat \ {0} /\ Start(p) = p * PageSize
  BY HeapAssumption DEF Start
<1>2. Start(p) \in Nat
  BY <1>1
<1> DEFINE x == Start(p) + k
<1>3. x \in Nat /\ x = p * PageSize + k
  BY <1>1, <1>2
<1> HIDE DEF x
<1>4. x \div PageSize = p
  BY <1>1, <1>3, QuotientIs
<1>5. x = (x \div PageSize) * PageSize + (x % PageSize) /\ x % PageSize \in Nat
  BY <1>1, <1>3, Division
<1>6. x % PageSize = k
  BY <1>1, <1>2, <1>3, <1>4, <1>5
<1> QED
  BY <1>2, <1>3, <1>4, <1>6 DEF x, PageOf

LEMMA StartIsNat ==
  ASSUME NEW p \in Nat
  PROVE  Start(p) \in Nat
BY HeapAssumption DEF Start

\* Every address is somewhere in its page.
LEMMA InPage ==
  ASSUME NEW a \in Nat
  PROVE  /\ PageOf(a) \in Nat /\ Start(PageOf(a)) \in Nat
         /\ Start(PageOf(a)) <= a /\ a < Start(PageOf(a)) + PageSize
         /\ a = Start(PageOf(a)) + (a % PageSize) /\ a % PageSize \in Nat
<1>1. PageSize \in Nat \ {0}
  BY HeapAssumption
<1>2. PICK q \in Nat, r \in Nat :
        r < PageSize /\ a = q * PageSize + r /\ q = a \div PageSize /\ r = a % PageSize
  BY <1>1, Division
<1>3. PageOf(a) = q
  BY <1>2 DEF PageOf
<1>4. q * PageSize \in Nat /\ Start(q) = q * PageSize
  BY <1>1, <1>2 DEF Start
<1>5. Start(q) \in Nat /\ Start(q) <= a /\ a < Start(q) + PageSize /\ a = Start(q) + r
  BY <1>1, <1>2, <1>4
<1>6. a = Start(q) + (a % PageSize) /\ a % PageSize \in Nat
  BY <1>2, <1>5
<1> QED
  BY <1>3, <1>5, <1>6

\* A later page starts after the earlier one has ended.
LEMMA StartsApart ==
  ASSUME NEW p \in Nat, NEW q \in Nat, p < q
  PROVE  Start(p) + PageSize <= Start(q) /\ Start(p) \in Nat /\ Start(q) \in Nat
<1>1. PageSize \in Nat \ {0}
  BY HeapAssumption
<1>2. (p + 1) * PageSize <= q * PageSize
  BY <1>1
<1>3. (p + 1) * PageSize = p * PageSize + PageSize
  BY <1>1
<1> QED
  BY <1>1, <1>2, <1>3 DEF Start

\* The cells of some pages are in those pages.
LEMMA CellsOfPages ==
  ASSUME NEW p \in Nat, NEW cnt \in Nat \ {0}, NEW c \in Nat,
         Start(p) <= c, c < Start(p) + cnt * PageSize
  PROVE  PageOf(c) \in RunFrom(p, cnt)
<1> DEFINE q == PageOf(c)
<1>1. PageSize \in Nat \ {0}
  BY HeapAssumption
<1>2. /\ q \in Nat /\ Start(q) \in Nat /\ Start(p) \in Nat
      /\ Start(q) <= c /\ c < Start(q) + PageSize
  BY InPage, StartIsNat
<1> HIDE DEF q
<1>3. ~(q < p)
  <2> SUFFICES ASSUME q < p PROVE FALSE
    OBVIOUS
  <2>1. Start(q) + PageSize <= Start(p)
    BY <1>2, StartsApart
  <2> QED
    BY <1>1, <1>2, <2>1
<1>4. ~(q >= p + cnt)
  <2> SUFFICES ASSUME q >= p + cnt PROVE FALSE
    OBVIOUS
  <2>1. (p + cnt) * PageSize <= q * PageSize
    BY <1>1, <1>2
  <2>2. (p + cnt) * PageSize = p * PageSize + cnt * PageSize
    BY <1>1
  <2>3. Start(p) + cnt * PageSize <= Start(q)
    BY <2>1, <2>2 DEF Start
  <2>4. cnt * PageSize \in Nat
    BY <1>1
  <2> QED
    BY <1>2, <2>3, <2>4
<1> QED
  BY <1>2, <1>3, <1>4 DEF q, RunFrom

\* How many blocks an arena has, and that they fit.
LEMMA ArenaSize ==
  ASSUME NEW d \in Desc
  PROVE  /\ BlocksPerArena(d) \in Nat \ {0}
         /\ BlocksPerArena(d) * d \in Nat
         /\ Header + BlocksPerArena(d) * d <= PageSize
<1> DEFINE n == (PageSize - Header) \div d
           r == (PageSize - Header) % d
<1>1. /\ PageSize \in Nat \ {0} /\ Header \in Nat \ {0} /\ d \in Nat \ {0}
      /\ PageSize - Header \in Nat /\ d <= PageSize - Header
  BY DescFacts, HeapAssumption
<1>2. n \in Nat /\ r \in Nat /\ r < d /\ PageSize - Header = n * d + r
  BY <1>1, Division
<1>3. BlocksPerArena(d) = n
  BY DEF BlocksPerArena
<1> HIDE DEF n, r
<1>4. n # 0 /\ n * d \in Nat
  BY <1>1, <1>2
<1>5. Header + n * d <= PageSize
  BY <1>1, <1>2, <1>4
<1> QED
  BY <1>2, <1>3, <1>4, <1>5, Zenon

\* The blocks of an arena are in its page, after the header.
LEMMA BlockFacts ==
  ASSUME NEW p \in Nat, NEW d \in Desc, NEW b \in Blocks(p, d)
  PROVE  /\ b \in Nat /\ PageOf(b) = p /\ b % PageSize # 0 /\ b # Start(p)
         /\ Start(p) + Header <= b /\ b + d <= Start(p) + PageSize
<1> DEFINE n == BlocksPerArena(d)
<1>1. /\ PageSize \in Nat \ {0} /\ Header \in Nat \ {0} /\ d \in Nat \ {0}
      /\ PageSize - Header \in Nat /\ Start(p) \in Nat
  BY DescFacts, HeapAssumption, StartIsNat
<1>2. n \in Nat \ {0} /\ n * d \in Nat /\ Header + n * d <= PageSize
  BY ArenaSize
<1> HIDE DEF n
<1>3. PICK k \in 0 .. n - 1 : b = Start(p) + Header + k * d
  BY DEF Blocks, ArenaToBlock, n
<1>4. k * d \in Nat /\ k * d + d <= n * d /\ n * d \in Nat
  <2>1. (k + 1) * d <= n * d
    BY <1>1, <1>2, <1>3
  <2>2. (k + 1) * d = k * d + d
    BY <1>1, <1>3
  <2>3. k * d \in Nat /\ n * d \in Nat
    BY <1>1, <1>2, <1>3
  <2> QED
    BY <2>1, <2>2, <2>3
<1> PICK x \in Nat : x = Header + k * d
  BY <1>1, <1>4
<1>5. x >= Header /\ x + d <= PageSize /\ x < PageSize /\ b = Start(p) + x
  BY <1>1, <1>2, <1>3, <1>4
<1>6. PageOf(b) = p /\ b % PageSize = x /\ b \in Nat
  BY <1>5, PageOfAt
<1> QED
  BY <1>1, <1>5, <1>6

\* Two blocks of an arena do not overlap.
LEMMA BlocksApart ==
  ASSUME NEW p \in Nat, NEW d \in Desc, NEW b \in Blocks(p, d), NEW c \in Blocks(p, d), b # c
  PROVE  b + d <= c \/ c + d <= b
<1> DEFINE n == BlocksPerArena(d)
<1>1. d \in Nat \ {0} /\ Header \in Nat /\ Start(p) \in Nat /\ n \in Nat
  BY DescFacts, HeapAssumption, StartIsNat, ArenaSize
<1> HIDE DEF n
<1>2. PICK k \in 0 .. n - 1 : b = Start(p) + Header + k * d
  BY DEF Blocks, ArenaToBlock, n
<1>3. PICK j \in 0 .. n - 1 : c = Start(p) + Header + j * d
  BY DEF Blocks, ArenaToBlock, n
<1>4. k \in Nat /\ j \in Nat /\ k # j /\ k * d \in Nat /\ j * d \in Nat
  BY <1>1, <1>2, <1>3
<1>5. ASSUME NEW x \in Nat, NEW y \in Nat, x < y
      PROVE  x * d + d <= y * d
  <2>1. (x + 1) * d <= y * d
    BY <1>1, <1>5
  <2>2. (x + 1) * d = x * d + d
    BY <1>1
  <2> QED
    BY <2>1, <2>2
<1>6. CASE k < j
  BY <1>1, <1>2, <1>3, <1>4, <1>5, <1>6
<1>7. CASE j < k
  BY <1>1, <1>2, <1>3, <1>4, <1>5, <1>7
<1> QED
  BY <1>4, <1>6, <1>7

\* The blocks of a new arena, as malloc() lists them.
LEMMA ArenaList ==
  ASSUME NEW p \in Nat, NEW d \in Desc
  PROVE  LET l == [k \in 1 .. BlocksPerArena(d) |-> ArenaToBlock(p, d, k - 1)]
         IN  /\ l \in Seq(Nat) /\ Range(l) = Blocks(p, d) /\ IsInjective(l)
             /\ l \in Bijection(1 .. BlocksPerArena(d), Blocks(p, d))
             /\ <<>> \o l = l
<1> DEFINE n == BlocksPerArena(d)
           f == [k \in 1 .. n |-> ArenaToBlock(p, d, k - 1)]
<1>1. d \in Nat \ {0} /\ Header \in Nat /\ Start(p) \in Nat
  BY DescFacts, HeapAssumption, StartIsNat
<1>2. n \in Nat \ {0}
  BY ArenaSize
<1> HIDE DEF n
<1>3. \A k \in 1 .. n : f[k] \in Blocks(p, d)
  <2>1. \A k \in 1 .. n : k - 1 \in 0 .. n - 1
    BY <1>2
  <2> QED
    BY <2>1 DEF Blocks, n
<1>4. ASSUME NEW i \in 1 .. n, NEW j \in 1 .. n, f[i] = f[j]
      PROVE  i = j
  <2>1. (i - 1) * d = (j - 1) * d /\ (i - 1) * d \in Nat
    BY <1>1, <1>4 DEF ArenaToBlock
  <2>2. i * d = j * d
    BY <1>1, <2>1
  <2> QED
    BY <1>1, <2>2
<1>5. \A b \in Blocks(p, d) : \E i \in 1 .. n : f[i] = b
  <2> SUFFICES ASSUME NEW b \in Blocks(p, d) PROVE \E i \in 1 .. n : f[i] = b
    OBVIOUS
  <2>1. PICK k \in 0 .. n - 1 : b = ArenaToBlock(p, d, k)
    BY DEF Blocks, n
  <2>2. k + 1 \in 1 .. n /\ (k + 1) - 1 = k
    BY <1>2
  <2> QED
    BY <2>1, <2>2
<1> HIDE DEF f
<1>6. f \in [1 .. n -> Blocks(p, d)]
  BY <1>3 DEF f
<1>7. Blocks(p, d) \subseteq Nat
  BY BlockFacts
<1>8. f \in Seq(Nat)
  BY <1>2, <1>6, <1>7, FunctionIsSeq
<1>9. <<>> \o f = f
  BY <1>8, ConcatEmptySeq
<1>10. f \in Bijection(1 .. n, Blocks(p, d)) /\ IsInjective(f)
  BY <1>4, <1>5, <1>6 DEF Bijection, Injection, Surjection, IsInjective
<1>11. Range(f) = Blocks(p, d)
  BY <1>3, <1>5, <1>6 DEF Range
<1> QED
  BY <1>8, <1>9, <1>10, <1>11 DEF f, n

\* How many they are.
LEMMA BlockCount ==
  ASSUME NEW p \in Nat, NEW d \in Desc
  PROVE  /\ IsFiniteSet(Blocks(p, d)) /\ Blocks(p, d) # {}
         /\ Cardinality(Blocks(p, d)) = BlocksPerArena(d)
<1> DEFINE n == BlocksPerArena(d)
<1>1. n \in Nat \ {0}
  BY ArenaSize
<1>2. ExistsBijection(1 .. n, Blocks(p, d))
  BY ArenaList DEF ExistsBijection
<1>3. Cardinality(1 .. n) = n /\ IsFiniteSet(1 .. n)
  BY <1>1, FS_Interval
<1>4. Cardinality(Blocks(p, d)) = n /\ IsFiniteSet(Blocks(p, d))
  BY <1>2, <1>3, FS_Bijection
<1> QED
  BY <1>1, <1>4, FS_EmptySet


-----------------------------------------------------------------------------
(* Free lists *)

LEMMA PushedFront ==
  ASSUME NEW l \in Seq(Nat), NEW x \in Nat
  PROVE  /\ <<x>> \o l \in Seq(Nat) /\ <<x>> \o l # <<>>
         /\ Range(<<x>> \o l) = Range(l) \cup {x}
         /\ IsInjective(l) /\ x \notin Range(l) => IsInjective(<<x>> \o l)
<1> DEFINE r == <<x>> \o l
           n == Len(l)
<1>1. n \in Nat /\ l \in [1 .. n -> Nat]
  BY LenProperties
<1>2. /\ r \in Seq(Nat) /\ Len(r) = n + 1 /\ r[1] = x
      /\ \A i \in 2 .. n + 1 : r[i] = l[i - 1]
  <2>1. <<x>> \in Seq(Nat) /\ Len(<<x>>) = 1 /\ <<x>>[1] = x
    OBVIOUS
  <2> QED
    BY <1>1, <2>1, ConcatProperties
<1> HIDE DEF r, n
<1>3. DOMAIN r = 1 .. n + 1 /\ DOMAIN l = 1 .. n
  BY <1>1, <1>2, LenProperties
<1>4. \A i \in 1 .. n : r[i + 1] = l[i] /\ i + 1 \in 1 .. n + 1
  BY <1>1, <1>2
<1>5. \A i \in 1 .. n + 1 : i # 1 => i - 1 \in 1 .. n /\ r[i] = l[i - 1]
  BY <1>1, <1>2
<1>6. Range(r) = Range(l) \cup {x}
  <2>1. 1 \in 1 .. n + 1
    BY <1>1
  <2>2. ASSUME NEW y \in Range(r) PROVE y \in Range(l) \cup {x}
    <3>1. PICK i \in 1 .. n + 1 : y = r[i]
      BY <1>3, <2>2 DEF Range
    <3>2. \A k \in 1 .. n : l[k] \in Range(l)
      BY <1>3 DEF Range
    <3> QED
      BY <1>2, <1>5, <3>1, <3>2
  <2>3. ASSUME NEW y \in Range(l) PROVE y \in Range(r)
    <3>1. PICK i \in 1 .. n : y = l[i]
      BY <1>3, <2>3 DEF Range
    <3>2. \A k \in 1 .. n + 1 : r[k] \in Range(r)
      BY <1>3 DEF Range
    <3> QED
      BY <1>4, <3>1, <3>2
  <2>4. x \in Range(r)
    BY <1>2, <1>3, <2>1 DEF Range
  <2> QED
    BY <2>2, <2>3, <2>4
<1>7. ASSUME IsInjective(l), x \notin Range(l) PROVE IsInjective(r)
  <2> SUFFICES ASSUME NEW i \in 1 .. n + 1, NEW j \in 1 .. n + 1, r[i] = r[j] PROVE i = j
    BY <1>3 DEF IsInjective
  <2>1. \A k \in 1 .. n : l[k] # x
    BY <1>3, <1>7 DEF Range
  <2>2. CASE i = 1 \/ j = 1
    BY <1>2, <1>5, <2>1, <2>2
  <2>3. CASE i # 1 /\ j # 1
    <3>1. i - 1 \in 1 .. n /\ j - 1 \in 1 .. n /\ l[i - 1] = l[j - 1]
      BY <1>5, <2>3
    <3>2. i - 1 = j - 1
      BY <1>3, <1>7, <3>1 DEF IsInjective
    <3> QED
      BY <1>1, <3>2
  <2> QED
    BY <2>2, <2>3
<1>8. r # <<>>
  BY <1>1, <1>2, <1>3
<1> QED
  BY <1>2, <1>6, <1>7, <1>8 DEF r

LEMMA PoppedFront ==
  ASSUME NEW l \in Seq(Nat), l # <<>>
  PROVE  /\ Head(l) \in Nat /\ Head(l) \in Range(l) /\ Tail(l) \in Seq(Nat)
         /\ IsInjective(l) => IsInjective(Tail(l)) /\ Range(Tail(l)) = Range(l) \ {Head(l)}
<1> DEFINE key == [x \in Nat |-> 0]
<1>1. key \in [Nat -> Int]
  OBVIOUS
<1> HIDE DEF key
<1>2. \A s : ToSet(s) = Range(s)
  BY DEF ToSet, Range
<1>3. /\ Head(l) \in Nat /\ Head(l) \in ToSet(l) /\ Tail(l) \in Seq(Nat)
      /\ ToSet(l) = ToSet(Tail(l)) \cup {Head(l)}
      /\ IsInjective(l) => IsInjective(Tail(l)) /\ Head(l) \notin ToSet(Tail(l))
  BY <1>1, PopFront
<1>4. ToSet(l) = Range(l) /\ ToSet(Tail(l)) = Range(Tail(l))
  BY <1>2
<1> QED
  BY <1>3, <1>4

-----------------------------------------------------------------------------
(* What a step leaves alone *)

\* The threads that do not take the step.
LEMMA OthersSame ==
  ASSUME NEW u, call'[u] = call[u], held'[u] = held[u]
  PROVE  /\ NoCall(u)' <=> NoCall(u)
         /\ GivesBack(u)' <=> GivesBack(u)
         /\ Back(u)' = Back(u) /\ Owned(u)' = Owned(u)
         /\ Reserves(u)' <=> Reserves(u)
         /\ Reserved(u)' = Reserved(u)
<1>1. NoCall(u)' <=> NoCall(u)
  BY DEF NoCall
<1>2. GivesBack(u)' <=> GivesBack(u)
  BY <1>1 DEF GivesBack
<1>3. Back(u)' = Back(u)
  BY <1>2 DEF Back
<1>4. Owned(u)' = Owned(u)
  BY <1>3 DEF Owned
<1>5. Reserves(u)' <=> Reserves(u)
  BY <1>1 DEF Reserves
<1>6. Reserved(u)' = Reserved(u)
  BY <1>5 DEF Reserved
<1> QED
  BY <1>1, <1>2, <1>3, <1>4, <1>5, <1>6

LEMMA OthersLocks ==
  ASSUME NEW u, call'[u] = call[u]
  PROVE  /\ \A d : HasDesc(u, d)' <=> HasDesc(u, d)
         /\ \A to : Stands(u, to)' <=> Stands(u, to)
BY DEF HasDesc, Stands, NoCall

\* Memory that a step does not touch.
LEMMA MemorySame ==
  ASSUME UNCHANGED memVars
  PROVE  /\ \A p : (IsBig(p)' <=> IsBig(p)) /\ (IsArena(p)' <=> IsArena(p)) /\ FreeIn(p)' = FreeIn(p)
         /\ \A a : (Granted(a)' <=> Granted(a)) /\ Run(a)' = Run(a) /\ SizeAt(a)' = SizeAt(a)
<1>1. used_map' = used_map /\ arena' = arena /\ free_list' = free_list
  BY DEF memVars
<1>2. \A p : (IsBig(p)' <=> IsBig(p)) /\ (IsArena(p)' <=> IsArena(p)) /\ FreeIn(p)' = FreeIn(p)
  BY <1>1 DEF IsBig, IsArena, FreeIn
<1>3. \A a : Run(a)' = Run(a) /\ SizeAt(a)' = SizeAt(a)
  BY <1>1, <1>2 DEF Run, SizeAt
<1>4. \A a : Granted(a)' <=> Granted(a)
  BY <1>1, <1>2 DEF Granted
<1> QED
  BY <1>2, <1>3, <1>4

\* The parts of the types, one by one.
LEMMA HeapTypes ==
  ASSUME HeapTypeOK
  PROVE  /\ used_map \subseteq Page /\ Page \subseteq Nat \ {0}
         /\ \A p \in Page : arena[p] # None =>
              arena[p] \in ArenaRecord /\ arena[p].desc \in Desc \cup {0} /\ arena[p].free_cnt \in Nat
         /\ \A p \in Page : IsArena(p) => arena[p].desc \in Desc /\ arena[p].free_cnt \in Nat
         /\ \A p \in Page : IsBig(p) => arena[p].desc = 0 /\ arena[p].free_cnt \in Nat
         /\ \A d \in Desc : free_list[d] \in Seq(Nat) /\ d # 0
<1>1. used_map \subseteq Page /\ arena \in [Page -> ArenaRecord \cup {None}] /\ free_list \in [Desc -> Seq(Nat)]
  BY DEF HeapTypeOK
<1>2. Page \subseteq Nat \ {0}
  BY HeapAssumption DEF Page
<1>3. \A p \in Page : arena[p] # None =>
        arena[p] \in ArenaRecord /\ arena[p].desc \in Desc \cup {0} /\ arena[p].free_cnt \in Nat
  BY <1>1 DEF ArenaRecord
<1>4. \A d \in Desc : free_list[d] \in Seq(Nat) /\ d # 0
  BY <1>1, DescFacts
<1> QED
  BY <1>1, <1>2, <1>3, <1>4 DEF IsBig, IsArena

\* The parts of a call.
LEMMA CallTypes ==
  ASSUME HeapTypeOK, NEW t \in Caller
  PROVE  /\ ~NoCall(t) => call[t] \in CallRecord
         /\ call[t] \in CallRecord =>
              /\ ~NoCall(t) /\ call[t].desc \in Desc \cup {0} /\ call[t].cnt \in Nat
              /\ call[t].asked \in Nat /\ call[t].page \in Page \cup {0}
              /\ call[t].addr \in Nat /\ call[t].old \in Nat
              /\ call[t].kind \in {"block", "big", "page"}
         /\ \A r \in held[t] : r \in Region /\ r.addr \in Nat /\ r.size \in Nat /\ r.asked \in Nat
<1>1. call[t] \in CallRecord \cup {None} /\ held[t] \subseteq Region
  BY DEF HeapTypeOK
<1>2. ~NoCall(t) => call[t] \in CallRecord
  BY <1>1 DEF NoCall
<1>3. ASSUME call[t] \in CallRecord
      PROVE  /\ ~NoCall(t) /\ call[t].desc \in Desc \cup {0} /\ call[t].cnt \in Nat
             /\ call[t].asked \in Nat /\ call[t].page \in Page \cup {0}
             /\ call[t].addr \in Nat /\ call[t].old \in Nat
             /\ call[t].kind \in {"block", "big", "page"}
  BY <1>3, NoneIsNothing DEF NoCall, CallRecord
<1>4. \A r \in held[t] : r \in Region /\ r.addr \in Nat /\ r.size \in Nat /\ r.asked \in Nat
  BY <1>1 DEF Region
<1> QED
  BY <1>2, <1>3, <1>4

\* What an owned address is.
LEMMA GrantedFacts ==
  ASSUME HeapTypeOK, PagesOK, NEW a \in Nat, Granted(a)
  PROVE  /\ PageOf(a) \in Page /\ PageOf(a) \in used_map /\ a # 0
         /\ PageOf(a) \in Run(a) /\ Run(a) \subseteq used_map
         /\ a % PageSize = 0 => a = Start(PageOf(a)) /\ arena[PageOf(a)] = None
         /\ a % PageSize # 0 =>
              \/ a = Start(PageOf(a)) + Header /\ IsBig(PageOf(a))
              \/ IsArena(PageOf(a)) /\ a \in Blocks(PageOf(a), arena[PageOf(a)].desc)
<1> DEFINE p == PageOf(a)
<1>1. p \in used_map /\ p \in Page /\ p \in Nat \ {0}
  BY HeapTypes DEF Granted
<1>2. /\ PageSize \in Nat \ {0} /\ Header \in Nat \ {0} /\ Header < PageSize
  BY HeapAssumption
<1>3. Start(p) \in Nat /\ Start(p) # 0 /\ Start(p) <= a /\ a = Start(p) + (a % PageSize) /\ a % PageSize \in Nat
  <2>1. Start(p) \in Nat /\ Start(p) <= a /\ a = Start(p) + (a % PageSize) /\ a % PageSize \in Nat
    BY InPage
  <2>2. Start(p) # 0
    BY <1>1, <1>2 DEF Start
  <2> QED
    BY <2>1, <2>2
<1>4. a # 0
  BY <1>3
<1>5. p \in Run(a) /\ Run(a) \subseteq used_map
  <2>1. CASE IsBig(p)
    <3>1. arena[p].free_cnt >= 1 /\ RunFrom(p, arena[p].free_cnt) \subseteq used_map
      BY <1>1, <2>1 DEF PagesOK
    <3>2. Run(a) = RunFrom(p, arena[p].free_cnt)
      BY <2>1 DEF Run
    <3>3. arena[p].free_cnt \in Nat
      BY <1>1, <2>1, HeapTypes
    <3>4. p \in RunFrom(p, arena[p].free_cnt)
      BY <1>1, <3>1, <3>3 DEF RunFrom
    <3> QED
      BY <3>1, <3>2, <3>4
  <2>2. CASE ~IsBig(p)
    BY <1>1, <2>2 DEF Run
  <2> QED
    BY <2>1, <2>2
<1> HIDE DEF p
<1>6. \/ a = Start(p) /\ arena[p] = None
      \/ a = Start(p) + Header /\ IsBig(p)
      \/ IsArena(p) /\ a \in Blocks(p, arena[p].desc)
  BY DEF Granted, p
<1>7. IsArena(p) => arena[p].desc \in Desc
  BY <1>1, HeapTypes
<1>8. IsArena(p) /\ a \in Blocks(p, arena[p].desc) => a % PageSize # 0
  BY <1>1, <1>7, BlockFacts
<1>9. a = Start(p) <=> a % PageSize = 0
  BY <1>3
<1>10. a = Start(p) + Header => a % PageSize # 0
  BY <1>2, <1>3
<1> QED
  <2>1. a % PageSize = 0 => a = Start(p) /\ arena[p] = None
    BY <1>6, <1>8, <1>10
  <2>2. a % PageSize # 0 => \/ a = Start(p) + Header /\ IsBig(p)
                            \/ IsArena(p) /\ a \in Blocks(p, arena[p].desc)
    BY <1>6, <1>9
  <2> QED
    BY <1>1, <1>4, <1>5, <2>1, <2>2, Zenon DEF p

\* What an owner finds in its own addresses.
LEMMA OwnsFacts ==
  ASSUME HeapTypeOK, OwnedOK, PagesOK, NEW t \in Caller, NEW a \in Owned(t)
  PROVE  a \in Nat /\ Granted(a)
<1>1. \A r \in held[t] : r.addr \in Nat
  BY CallTypes
<1>2. Back(t) \subseteq Nat
  <2>1. GivesBack(t) => call[t].addr \in Nat
    BY CallTypes DEF GivesBack
  <2> QED
    BY <2>1 DEF Back
<1>3. a \in Nat
  BY <1>1, <1>2 DEF Owned
<1> QED
  BY <1>3 DEF OwnedOK

\* What free() finds at a block.
LEMMA FreeingFacts ==
  ASSUME HeapTypeOK, PagesOK, NEW a \in Nat, Granted(a), a % PageSize # 0
  PROVE  LET c == Freeing(a)
         IN  /\ c \in CallRecord /\ c.old = 0 /\ CallShape(c) /\ c.addr = a /\ c.page = PageOf(a)
             /\ c.asked = 0
             /\ \/ c.pc = "clear" /\ c.kind = "big" /\ IsBig(c.page) /\ arena[c.page].free_cnt = c.cnt
                \/ c.pc = "push" /\ c.kind = "block" /\ IsArena(c.page) /\ arena[c.page].desc = c.desc
<1> DEFINE p == PageOf(a)
           c == Freeing(a)
<1>1. /\ p \in Page /\ p \in used_map
      /\ \/ a = Start(p) + Header /\ IsBig(p)
         \/ IsArena(p) /\ a \in Blocks(p, arena[p].desc)
  BY GrantedFacts
<1>2. arena[p] \in ArenaRecord
  BY <1>1, HeapTypes DEF IsBig, IsArena
<1> HIDE DEF p
<1>3. CASE IsBig(p)
  <2>1. arena[p].desc = 0 /\ arena[p].free_cnt \in Nat /\ arena[p].free_cnt >= 1
    BY <1>1, <1>2, <1>3 DEF IsBig, PagesOK, ArenaRecord
  <2>2. a = Start(p) + Header
    BY <1>1, <1>3 DEF IsBig, IsArena
  <2>3. c = [pc |-> "clear", kind |-> "big", desc |-> 0, cnt |-> arena[p].free_cnt,
             asked |-> 0, page |-> p, addr |-> a, old |-> 0]
    BY <2>1 DEF Freeing, p
  <2> HIDE DEF c
  <2>4. c \in CallRecord
    BY <1>1, <2>1, <2>3 DEF CallRecord
  <2>5. CallShape(c)
    BY <1>1, <2>1, <2>2, <2>3 DEF CallShape
  <2> QED
    BY <1>3, <2>1, <2>3, <2>4, <2>5 DEF c, p
<1>4. CASE IsArena(p)
  <2>1. arena[p].desc # 0 /\ arena[p].desc \in Desc
    BY <1>2, <1>4 DEF IsArena, ArenaRecord
  <2>2. a \in Blocks(p, arena[p].desc)
    BY <1>1, <1>4 DEF IsBig, IsArena
  <2>3. c = [pc |-> "push", kind |-> "block", desc |-> arena[p].desc, cnt |-> 1,
             asked |-> 0, page |-> p, addr |-> a, old |-> 0]
    BY <2>1 DEF Freeing, p
  <2> HIDE DEF c
  <2>4. c \in CallRecord
    BY <1>1, <2>1, <2>3 DEF CallRecord
  <2>5. CallShape(c)
    BY <1>1, <2>1, <2>2, <2>3 DEF CallShape
  <2> QED
    BY <1>4, <2>1, <2>3, <2>4, <2>5 DEF c, p
<1> QED
  BY <1>1, <1>3, <1>4

\* What a request starts with.
LEMMA RequestFacts ==
  ASSUME NEW size \in Nat, NEW asked \in Nat, NEW old \in Nat
  PROVE  LET c == Request(size, asked, old)
         IN  /\ c \in CallRecord /\ CallShape(c) /\ c.old = old /\ c.asked = asked /\ c.page = 0
             /\ \/ c.pc = "lock" /\ c.kind = "block" /\ c.desc \in Desc /\ c.desc >= size
                \/ c.pc = "scan" /\ c.kind = "big" /\ c.cnt = PageCnt(size)
<1> DEFINE c == Request(size, asked, old)
<1>1. CASE Fits(size) = {}
  <2>1. PageCnt(size) \in Nat
    <3>1. PageSize \in Nat \ {0} /\ Header \in Nat /\ Word \in Nat \ {0}
      BY HeapAssumption
    <3>2. (size + Header) % Word \in Nat
      BY <3>1, Division
    <3>3. ((size + Header) % Word) + PageSize - 1 \in Nat
      BY <3>1, <3>2
    <3>4. (((size + Header) % Word) + PageSize - 1) % Word \in Nat
      BY <3>1, <3>3, Division
    <3> QED
      BY <3>1, <3>4, Division DEF PageCnt
  <2>2. c = [pc |-> "scan", kind |-> "big", desc |-> 0, cnt |-> PageCnt(size),
             asked |-> asked, page |-> 0, addr |-> 0, old |-> old]
    BY <1>1 DEF Request
  <2> HIDE DEF c
  <2>3. c \in CallRecord
    BY <2>1, <2>2 DEF CallRecord
  <2>4. CallShape(c)
    BY <2>2 DEF CallShape
  <2> QED
    BY <2>2, <2>3, <2>4 DEF c
<1>2. CASE Fits(size) # {}
  <2> DEFINE m == Min(Fits(size))
  <2>1. m \in Desc /\ m >= size
    <3>1. Fits(size) \in SUBSET Nat
      BY DescFacts DEF Fits
    <3>2. \E x \in Fits(size) : \A y \in Fits(size) : x <= y
      BY <1>2, <3>1, LeastNatural
    <3>3. m \in Fits(size)
      BY <3>2 DEF Min
    <3> QED
      BY <3>3 DEF Fits
  <2>2. c = [pc |-> "lock", kind |-> "block", desc |-> m, cnt |-> 1,
             asked |-> asked, page |-> 0, addr |-> 0, old |-> old]
    BY <1>2 DEF Request
  <2> HIDE DEF c, m
  <2>3. c \in CallRecord
    BY <2>1, <2>2 DEF CallRecord
  <2>4. CallShape(c)
    BY <2>1, <2>2 DEF CallShape
  <2> QED
    BY <2>1, <2>2, <2>3, <2>4 DEF c
<1> QED
  BY <1>1, <1>2

\* A call goes on at another place.
LEMMA GoFacts ==
  ASSUME HeapTypeOK, NEW t \in Caller, ~NoCall(t), NEW to, Go(t, to),
         to \in {"lock", "scan", "flip", "arena", "pop", "push", "clear"}
  PROVE  /\ call' \in [Caller -> CallRecord \cup {None}]
         /\ call'[t] \in CallRecord /\ ~NoCall(t)' /\ call'[t].pc = to
         /\ call'[t].kind = call[t].kind /\ call'[t].desc = call[t].desc
         /\ call'[t].cnt = call[t].cnt /\ call'[t].asked = call[t].asked
         /\ call'[t].page = call[t].page /\ call'[t].addr = call[t].addr
         /\ call'[t].old = call[t].old
         /\ \A u \in Caller : u # t => call'[u] = call[u]
<1>1. call \in [Caller -> CallRecord \cup {None}] /\ call[t] \in CallRecord
  BY CallTypes DEF HeapTypeOK
<1>2. call' = [call EXCEPT ![t] = [call[t] EXCEPT !.pc = to]]
  BY DEF Go
<1> DEFINE n == [call[t] EXCEPT !.pc = to]
<1>3. /\ n \in CallRecord /\ n.pc = to
      /\ n.kind = call[t].kind /\ n.desc = call[t].desc
      /\ n.cnt = call[t].cnt /\ n.asked = call[t].asked
      /\ n.page = call[t].page /\ n.addr = call[t].addr
      /\ n.old = call[t].old
  BY <1>1 DEF CallRecord
<1> HIDE DEF n
<1>4. call'[t] = n /\ \A u \in Caller : u # t => call'[u] = call[u]
  BY <1>1, <1>2 DEF n
<1>5. call' \in [Caller -> CallRecord \cup {None}]
  BY <1>1, <1>2, <1>3 DEF n
<1>6. n # None
  BY <1>3, NoneIsNothing
<1> QED
  BY <1>3, <1>4, <1>5, <1>6 DEF NoCall

\* A step of t is about its own call and what it has.
Others(t) == \A u \in Caller : u # t => call'[u] = call[u] /\ held'[u] = held[u]

\* What is at an owned address stays what it is.
Kept(a) ==
  /\ Granted(a)' /\ Run(a)' = Run(a) /\ SizeAt(a)' = SizeAt(a)
  /\ IsBig(PageOf(a)) => IsBig(PageOf(a))' /\ arena'[PageOf(a)].free_cnt = arena[PageOf(a)].free_cnt
  /\ IsArena(PageOf(a)) <=> IsArena(PageOf(a))'
  /\ IsArena(PageOf(a)) => arena'[PageOf(a)].desc = arena[PageOf(a)].desc

LEMMA LocksSame ==
  ASSUME LocksHeld, NEW t \in Caller, Others(t), UNCHANGED lockVars,
         \A d \in Desc : HasDesc(t, d)' <=> HasDesc(t, d),
         Stands(t, "flip")' <=> Stands(t, "flip")
  PROVE  LocksHeld'
<1>1. desc_lock' = desc_lock /\ pool_lock' = pool_lock
  BY DEF lockVars
<1>2. \A u \in Caller : u # t =>
        /\ \A d : HasDesc(u, d)' <=> HasDesc(u, d)
        /\ Stands(u, "flip")' <=> Stands(u, "flip")
  BY OthersLocks DEF Others
<1>3. \A d \in Desc, u \in Caller : HasDesc(u, d)' <=> HasDesc(u, d)
  BY <1>2
<1>4. \A u \in Caller : Stands(u, "flip")' <=> Stands(u, "flip")
  BY <1>2
<1> QED
  BY <1>1, <1>3, <1>4 DEF LocksHeld

LEMMA CallsSame ==
  ASSUME CallsOK, NEW t \in Caller, Others(t),
         ~NoCall(t)' => /\ CallShape(call'[t])
                        /\ call'[t].old # 0 => \E r \in held'[t] : r.addr = call'[t].old /\ ~IsPage(r)
  PROVE  CallsOK'
<1> SUFFICES ASSUME NEW u \in Caller, ~NoCall(u)'
             PROVE  /\ CallShape(call'[u])
                    /\ call'[u].old # 0 => \E r \in held'[u] : r.addr = call'[u].old /\ ~IsPage(r)
  BY DEF CallsOK
<1>1. CASE u = t
  BY <1>1
<1>2. CASE u # t
  <2>1. call'[u] = call[u] /\ held'[u] = held[u]
    BY <1>2 DEF Others
  <2>2. ~NoCall(u)
    BY <2>1 DEF NoCall
  <2> QED
    BY <2>1, <2>2 DEF CallsOK
<1> QED
  BY <1>1, <1>2

LEMMA HeldSame ==
  ASSUME HeldOK,
         \A u \in Caller : \A r \in held'[u] :
           r \in held[u] /\ SizeAt(r.addr)' = SizeAt(r.addr) /\ r.addr \notin Back(u)'
  PROVE  HeldOK'
BY DEF HeldOK

\* What a call gives back, it has; and where.
LEMMA BackPage ==
  ASSUME HeapTypeOK, CallsOK, NEW u \in Caller, GivesBack(u)
  PROVE  /\ call[u].addr \in Owned(u) /\ PageOf(call[u].addr) = call[u].page
         /\ call[u].page \in Page
<1>1. call[u] \in CallRecord /\ CallShape(call[u])
  BY CallTypes DEF CallsOK, GivesBack
<1>2. call[u].page \in Page /\ call[u].page \in Nat
  BY <1>1, HeapTypes DEF CallShape, GivesBack
<1>3. call[u].addr \in Owned(u)
  BY DEF Owned, Back
<1>4. CASE call[u].pc = "push"
  <2>1. call[u].addr \in Blocks(call[u].page, call[u].desc) /\ call[u].desc \in Desc
    <3>1. call[u].kind = "block"
      BY <1>1, <1>4 DEF CallShape
    <3> QED
      BY <1>1, <1>4, <3>1 DEF CallShape
  <2> QED
    BY <1>2, <1>3, <2>1, BlockFacts
<1>5. CASE call[u].pc = "clear" /\ call[u].kind # "block"
  <2>1. PageSize \in Nat /\ Header \in Nat /\ 0 \in Nat /\ Header < PageSize /\ 0 < PageSize
    BY HeapAssumption
  <2>2. Start(call[u].page) \in Nat
    BY <1>2, StartIsNat
  <2>3. call[u].addr = Start(call[u].page) + 0 \/ call[u].addr = Start(call[u].page) + Header
    <3>1. call[u].kind \in {"big", "page"}
      BY <1>1, <1>5, CallTypes
    <3> QED
      BY <1>1, <1>5, <2>2, <3>1 DEF CallShape
  <2>4. PageOf(call[u].addr) = call[u].page
    BY <1>2, <2>1, <2>3, PageOfAt
  <2> QED
    BY <1>2, <1>3, <2>4
<1> QED
  BY <1>4, <1>5 DEF GivesBack

LEMMA BackSame ==
  ASSUME HeapTypeOK, CallsOK, BackOK, NEW t \in Caller, Others(t),
         \A u \in Caller : u # t => \A a \in Owned(u) : Kept(a),
         GivesBack(t)' => BackFor(t)'
  PROVE  BackOK'
<1> SUFFICES ASSUME NEW u \in Caller, GivesBack(u)', u # t
             PROVE  BackFor(u)'
  BY DEF BackOK
<1>1. call'[u] = call[u] /\ held'[u] = held[u]
  BY DEF Others
<1>2. GivesBack(u)
  BY <1>1, OthersSame
<1> PICK p : p = call[u].page
  OBVIOUS
<1> PICK a : a = call[u].addr
  OBVIOUS
<1>3. Kept(a) /\ PageOf(a) = p
  BY <1>2, BackPage
<1>4. /\ call[u].kind = "big" => IsBig(p) /\ arena[p].free_cnt = call[u].cnt
      /\ call[u].kind = "block" => IsArena(p) /\ arena[p].desc = call[u].desc
  BY <1>2 DEF BackOK, BackFor
<1>5. /\ IsBig(p) => IsBig(p)' /\ arena'[p].free_cnt = arena[p].free_cnt
      /\ IsArena(p) => IsArena(p)' /\ arena'[p].desc = arena[p].desc
  BY <1>3 DEF Kept
<1>6. p = call'[u].page
  BY <1>1
<1>7. /\ call'[u].kind = "big" => IsBig(p)' /\ arena'[p].free_cnt = call'[u].cnt
      /\ call'[u].kind = "block" => IsArena(p)' /\ arena'[p].desc = call'[u].desc
  BY <1>1, <1>4, <1>5
<1> QED
  BY <1>6, <1>7 DEF BackFor, IsBig, IsArena

\* What is owned after a step of t: what was, and what is new, all apart.
LEMMA OwnedStep ==
  ASSUME OwnedOK, NEW t \in Caller, Others(t), NEW new,
         Owned(t)' \subseteq Owned(t) \cup new,
         \A u \in Caller : \A a \in Owned(u)' : (u = t /\ a \in new) \/ Kept(a),
         \A x \in new : /\ Granted(x)' /\ \A u \in Caller : x \notin Owned(u)
                        /\ \A y \in new : x = y
                        /\ \A u \in Caller : \A a \in Owned(u) :
                             Run(a) \cap Run(x)' = {} \/ (PageOf(a) = PageOf(x) /\ IsArena(PageOf(x))')
  PROVE  OwnedOK'
<1>1. \A u \in Caller : u # t => Owned(u)' = Owned(u)
  BY OthersSame DEF Others
<1>2. \A u \in Caller : \A a \in Owned(u)' : (a \in Owned(u) /\ Kept(a)) \/ (u = t /\ a \in new)
  BY <1>1
<1>3. \A u \in Caller : \A a \in Owned(u)' : Granted(a)'
  BY <1>2 DEF Kept
<1>4. ASSUME NEW u \in Caller, NEW v \in Caller, u # v
      PROVE  Owned(u)' \cap Owned(v)' = {}
  <2>1. Owned(u) \cap Owned(v) = {}
    BY <1>4 DEF OwnedOK
  <2> QED
    BY <1>2, <1>4, <2>1
<1>5. ASSUME NEW u \in Caller, NEW v \in Caller, NEW a \in Owned(u)', NEW b \in Owned(v)', a # b
      PROVE  Run(a)' \cap Run(b)' = {} \/ (PageOf(a) = PageOf(b) /\ IsArena(PageOf(a))')
  <2>1. CASE a \in Owned(u) /\ Kept(a) /\ b \in Owned(v) /\ Kept(b)
    <3>1. Run(a) \cap Run(b) = {} \/ (PageOf(a) = PageOf(b) /\ IsArena(PageOf(a)))
      BY <1>5, <2>1 DEF OwnedOK
    <3> QED
      BY <2>1, <3>1 DEF Kept
  <2>2. CASE a \in Owned(u) /\ Kept(a) /\ b \in new
    <3>1. Run(a) \cap Run(b)' = {} \/ (PageOf(a) = PageOf(b) /\ IsArena(PageOf(b))')
      BY <2>2
    <3> QED
      BY <2>2, <3>1 DEF Kept
  <2>3. CASE a \in new /\ b \in Owned(v) /\ Kept(b)
    <3>1. Run(b) \cap Run(a)' = {} \/ (PageOf(b) = PageOf(a) /\ IsArena(PageOf(a))')
      BY <2>3
    <3> QED
      BY <2>3, <3>1 DEF Kept
  <2> QED
    BY <1>2, <1>5, <2>1, <2>2, <2>3
<1> QED
  BY <1>3, <1>4, <1>5 DEF OwnedOK

\* Nothing new is owned.
LEMMA OwnedLess ==
  ASSUME OwnedOK, NEW t \in Caller, Others(t), Owned(t)' \subseteq Owned(t),
         \A u \in Caller : \A a \in Owned(u)' : Kept(a)
  PROVE  OwnedOK'
<1> PICK none : none = {}
  OBVIOUS
<1>1. Owned(t)' \subseteq Owned(t) \cup none
  OBVIOUS
<1>2. \A x \in none : /\ Granted(x)' /\ \A u \in Caller : x \notin Owned(u)
                      /\ \A y \in none : x = y
                      /\ \A u \in Caller : \A a \in Owned(u) :
                           Run(a) \cap Run(x)' = {} \/ (PageOf(a) = PageOf(x) /\ IsArena(PageOf(x))')
  OBVIOUS
<1>3. \A u \in Caller : \A a \in Owned(u)' : (u = t /\ a \in none) \/ Kept(a)
  OBVIOUS
<1> QED
  BY <1>1, <1>2, <1>3, OwnedStep

\* What the other threads have reserved stays theirs.
LEMMA ReservedStep ==
  ASSUME HeapTypeOK, CallsOK, ReservedOK, NEW t \in Caller, Others(t),
         \A u \in Caller : u # t /\ Reserves(u) => \A p \in Reserved(u) :
            /\ p \in used_map' <=> p \in used_map
            /\ arena'[p] = arena[p]
            /\ FreeIn(p) = {} /\ IsArena(p) => FreeIn(p)' = {},
         \A u, v \in Caller : \A a \in Owned(v)' : u # t =>
            (a \in Owned(v) /\ Run(a)' = Run(a)) \/ Run(a)' \cap Reserved(u) = {},
         \A u \in Caller : u # t => Reserved(t)' \cap Reserved(u) = {},
         Reserves(t)' => /\ ReservedFor(t)'
                         /\ \A u \in Caller : \A a \in Owned(u)' : Run(a)' \cap Reserved(t)' = {}
  PROVE  ReservedOK'
<1>1. ASSUME NEW u \in Caller, u # t
      PROVE  /\ call'[u] = call[u] /\ Reserved(u)' = Reserved(u)
             /\ Reserves(u)' <=> Reserves(u)
  BY <1>1, OthersSame DEF Others
<1>2. ASSUME NEW u \in Caller, Reserves(u)', u # t
      PROVE  ReservedFor(u)' /\ \A v \in Caller : \A a \in Owned(v)' : Run(a)' \cap Reserved(u)' = {}
  <2>1. Reserves(u) /\ call'[u] = call[u] /\ Reserved(u)' = Reserved(u)
    BY <1>1, <1>2
  <2>2. ReservedFor(u) /\ \A v \in Caller : \A a \in Owned(v) : Run(a) \cap Reserved(u) = {}
    BY <2>1 DEF ReservedOK, ReservedFor
  <2>3. \A p \in Reserved(u) :
            /\ p \in used_map' <=> p \in used_map
            /\ arena'[p] = arena[p]
            /\ FreeIn(p) = {} /\ IsArena(p) => FreeIn(p)' = {}
    BY <1>2, <2>1
  <2> PICK p : p = call[u].page
    OBVIOUS
  <2>4. p \in Reserved(u)
    <3>1. call[u] \in CallRecord /\ CallShape(call[u])
      BY <2>1, CallTypes DEF CallsOK, Reserves
    <3>2. p \in Page /\ call[u].cnt \in Nat /\ call[u].cnt >= 1 /\ p \in Nat
      BY <2>1, <3>1, HeapTypes, CallTypes DEF CallShape, Reserves
    <3> QED
      BY <2>1, <3>2 DEF Reserved, RunFrom
  <2>5. /\ Reserved(u) \subseteq Page
        /\ call[u].pc = "flip" => Reserved(u) \cap used_map' = {}
        /\ call[u].pc = "arena" => Reserved(u) \subseteq used_map' /\ \A q \in Reserved(u) : arena'[q] = None
    BY <2>2, <2>3 DEF ReservedFor
  <2>6. call[u].pc = "clear" =>
           p \in used_map' /\ IsArena(p)' /\ arena'[p].desc = call[u].desc /\ FreeIn(p)' = {}
    BY <2>2, <2>3, <2>4 DEF ReservedFor, IsArena
  <2>7. p = call'[u].page
    BY <2>1
  <2>8. call'[u].pc = "clear" =>
           /\ call'[u].page \in used_map' /\ (IsArena(call[u].page))'
           /\ arena'[call'[u].page].desc = call'[u].desc /\ (FreeIn(call[u].page))' = {}
    BY <2>1, <2>6, <2>7 DEF IsArena, FreeIn
  <2>9. ReservedFor(u)'
    BY <2>1, <2>5, <2>8 DEF ReservedFor
  <2> QED
    BY <1>2, <2>1, <2>2, <2>9
<1>3. ASSUME NEW u \in Caller, NEW v \in Caller, u # v, Reserves(u)'
      PROVE  Reserved(v)' \cap Reserved(u)' = {}
  <2>1. CASE u # t /\ v # t
    <3>1. Reserves(u) /\ Reserved(u)' = Reserved(u) /\ Reserved(v)' = Reserved(v)
      BY <1>1, <1>3, <2>1
    <3> QED
      BY <1>3, <3>1 DEF ReservedOK, ReservedFor
  <2>2. CASE u = t
    BY <1>1, <1>3, <2>2
  <2>3. CASE v = t
    BY <1>1, <1>3, <2>3
  <2> QED
    BY <2>1, <2>2, <2>3
<1>4. ASSUME NEW u \in Caller, Reserves(u)'
      PROVE  ReservedFor(u)' /\ \A v \in Caller : \A a \in Owned(v)' : Run(a)' \cap Reserved(u)' = {}
  BY <1>2, <1>4
<1> QED
  BY <1>3, <1>4 DEF ReservedOK, ReservedFor

LEMMA KeptSame ==
  ASSUME UNCHANGED memVars, NEW a, Granted(a)
  PROVE  Kept(a)
<1>1. arena' = arena
  BY DEF memVars
<1> QED
  BY <1>1, MemorySame DEF Kept

LEMMA HeldQuiet ==
  ASSUME HeldOK, UNCHANGED memVars, held' = held, \A u \in Caller : Back(u)' = Back(u)
  PROVE  HeldOK'
<1>1. \A a : SizeAt(a)' = SizeAt(a)
  BY MemorySame
<1>2. \A u \in Caller : \A r \in held[u] : r.addr \notin Back(u)
  BY DEF HeldOK
<1>3. \A u \in Caller : \A r \in held'[u] :
        r \in held[u] /\ SizeAt(r.addr)' = SizeAt(r.addr) /\ r.addr \notin Back(u)'
  BY <1>1, <1>2
<1> QED
  BY <1>3, HeldSame

LEMMA HeldKept ==
  ASSUME HeldOK, held' = held, \A u \in Caller : Back(u)' = Back(u),
         \A u \in Caller : \A a \in Owned(u) : Kept(a)
  PROVE  HeldOK'
<1>1. \A u \in Caller : \A r \in held[u] : Kept(r.addr)
  BY DEF Owned
<1>2. \A u \in Caller : \A r \in held[u] : SizeAt(r.addr)' = SizeAt(r.addr)
  BY <1>1 DEF Kept
<1>3. \A u \in Caller : \A r \in held[u] : r.addr \notin Back(u)
  BY DEF HeldOK
<1>4. \A u \in Caller : \A r \in held'[u] :
        r \in held[u] /\ SizeAt(r.addr)' = SizeAt(r.addr) /\ r.addr \notin Back(u)'
  BY <1>2, <1>3
<1> QED
  BY <1>4, HeldSame

\* Reserved pages are marked once the pool's lock is free.
LEMMA ReservedUsed ==
  ASSUME HeapTypeOK, CallsOK, ReservedOK, NEW u \in Caller, Reserves(u), ~Stands(u, "flip")
  PROVE  /\ Reserved(u) \subseteq used_map
         /\ call[u].pc = "clear" => Reserved(u) = {call[u].page}
<1>1. call[u] \in CallRecord /\ CallShape(call[u]) /\ call[u].pc \in {"arena", "clear"}
  BY CallTypes DEF CallsOK, Reserves, Stands
<1>2. CASE call[u].pc = "arena"
  BY <1>2 DEF ReservedOK, ReservedFor
<1>3. CASE call[u].pc = "clear"
  <2>1. call[u].kind = "block"
    BY <1>3 DEF Reserves
  <2>2. call[u].cnt = 1 /\ call[u].page \in Page /\ call[u].page \in Nat
    BY <1>1, <1>3, <2>1, HeapTypes DEF CallShape
  <2>3. Reserved(u) = {call[u].page}
    BY <2>2 DEF Reserved, RunFrom
  <2> QED
    BY <1>3, <2>3 DEF ReservedOK, ReservedFor
<1> QED
  BY <1>1, <1>2, <1>3

\* An arena that the step is not about.
LEMMA CountsSame ==
  ASSUME CountsOK, NEW t \in Caller, Others(t), NEW p \in Page, IsArena(p)', ~GoneSoon(p)',
         arena'[p] = arena[p], FreeIn(p)' = FreeIn(p),
         ~(Stands(t, "pop") /\ call[t].page = p /\ call[t].desc = arena[p].desc),
         ~(Stands(t, "clear") /\ call[t].kind = "block" /\ call[t].page = p),
         \A b \in Blocks(p, arena[p].desc) :
           (\E u \in Caller : b \in Owned(u)) => \E u \in Caller : b \in Owned(u)'
  PROVE  CountsFor(p)'
<1>1. IsArena(p)
  BY DEF IsArena
<1>2. ~GoneSoon(p)
  <2>1. ASSUME NEW u \in Caller, Stands(u, "clear"), call[u].kind = "block", call[u].page = p
        PROVE  FALSE
    <3>1. u # t
      BY <2>1
    <3>2. Stands(u, "clear")' /\ call'[u].kind = "block" /\ call'[u].page = p
      BY <2>1, <3>1 DEF Others, Stands, NoCall
    <3> QED
      BY <3>2 DEF GoneSoon
  <2> QED
    BY <2>1 DEF GoneSoon
<1>3. ASSUME NEW u \in Caller, Stands(u, "pop"), call[u].page = p, call[u].desc = arena[p].desc
      PROVE  Stands(u, "pop")' /\ call'[u].page = p /\ call'[u].desc = arena[p].desc
  <2>1. u # t
    BY <1>3
  <2> QED
    BY <1>3, <2>1 DEF Others, Stands, NoCall
<1>4. CountsFor(p)
  BY <1>1, <1>2 DEF CountsOK
<1> QED
  BY <1>3, <1>4 DEF CountsFor

\* A step that leaves memory alone, and what is owned and reserved.
LEMMA QuietStep ==
  ASSUME HeapInv, NEW t \in Caller, Others(t), UNCHANGED memVars,
         Owned(t)' = Owned(t), ~Reserves(t), ~Stands(t, "pop"),
         GivesBack(t)' => BackFor(t)'
  PROVE  /\ OwnedOK' /\ BackOK' /\ PagesOK' /\ FreeOK' /\ CountsOK' /\ UsedOK'
         /\ ~Reserves(t)' => ReservedOK'
<1> USE DEF HeapInv
<1>1. used_map' = used_map /\ arena' = arena /\ free_list' = free_list
  BY DEF memVars
<1>2. /\ Reserved(t) = {} /\ \A u \in Caller : Owned(u)' = Owned(u)
      /\ \A u \in Caller : u # t => Reserved(u)' = Reserved(u)
  BY OthersSame DEF Others, Reserved
<1>3. \A u \in Caller : \A a \in Owned(u) : Kept(a)
  BY KeptSame DEF OwnedOK
<1>4. /\ \A p : (IsBig(p)' <=> IsBig(p)) /\ (IsArena(p)' <=> IsArena(p)) /\ FreeIn(p)' = FreeIn(p)
      /\ \A a : (Granted(a)' <=> Granted(a)) /\ Run(a)' = Run(a)
  BY MemorySame
<1>5. OwnedOK'
  <2>1. OwnedOK /\ \A u \in Caller : \A a \in Owned(u)' : Kept(a)
    BY <1>2, <1>3
  <2> HIDE DEF HeapInv
  <2> QED
    BY <2>1, OwnedLess
<1>6. BackOK'
  BY <1>3, BackSame
<1>7. PagesOK'
  BY <1>1, <1>4 DEF PagesOK
<1>8. ASSUME ~Reserves(t)' PROVE ReservedOK'
  <2>1. Reserved(t)' = {}
    BY <1>8 DEF Reserved
  <2> QED
    BY <1>8, <1>1, <1>2, <1>4, <2>1, ReservedStep
<1>9. FreeOK'
  BY <1>1, <1>4 DEF FreeOK
<1>10. UsedOK'
  <2> SUFFICES ASSUME NEW p \in used_map, ~IsArena(p)
               PROVE  \E u \in Caller : p \in Reserved(u)' \/ \E a \in Owned(u)' : p \in Run(a)'
    BY <1>1, <1>4 DEF UsedOK
  <2>1. PICK u \in Caller : p \in Reserved(u) \/ \E a \in Owned(u) : p \in Run(a)
    BY DEF UsedOK
  <2> QED
    BY <1>2, <1>4, <2>1
<1>11. CountsOK'
  <2> SUFFICES ASSUME NEW p \in Page, IsArena(p)', ~GoneSoon(p)'
               PROVE  CountsFor(p)'
    BY DEF CountsOK
  <2>1. \A b : (\E u \in Caller : b \in Owned(u)) => \E u \in Caller : b \in Owned(u)'
    BY <1>2
  <2>2. ~(Stands(t, "clear") /\ call[t].kind = "block")
    BY DEF Reserves, Stands
  <2> QED
    BY <1>1, <1>4, <2>1, <2>2, CountsSame
<1> QED
  BY <1>5, <1>6, <1>7, <1>8, <1>9, <1>10, <1>11

\* The lists of the descriptors that other threads have locked do not change.
LEMMA FreshSame ==
  ASSUME FreshOK, NEW t \in Caller, Others(t),
         \A u \in Caller : \A d \in Desc : u # t /\ HasDesc(u, d) => free_list'[d] = free_list[d],
         CallsOK,
         ~NoCall(t)' /\ call'[t].kind = "block" => FreshFor(t)'
  PROVE  FreshOK'
<1> SUFFICES ASSUME NEW u \in Caller, ~NoCall(u)', call'[u].kind = "block", u # t
             PROVE  FreshFor(u)'
  BY DEF FreshOK, FreshFor
<1>1. call'[u] = call[u] /\ ~NoCall(u)
  BY DEF Others, NoCall
<1>2. FreshFor(u)
  BY <1>1 DEF FreshOK, FreshFor
<1>3. call[u].desc \in Desc
  BY <1>1 DEF CallsOK, CallShape
<1>4. call[u].pc \in {"scan", "flip", "arena", "pop"} => free_list'[call[u].desc] = free_list[call[u].desc]
  BY <1>1, <1>3 DEF HasDesc
<1> QED
  BY <1>1, <1>2, <1>4 DEF FreshFor

-----------------------------------------------------------------------------
(* Calls begin *)

LEMMA InitHeap ==
  ASSUME HeapInit
  PROVE  HeapInv
<1> USE DEF HeapInit
<1>1. /\ \A t \in Caller : NoCall(t) /\ held[t] = {} /\ ~GivesBack(t) /\ ~Reserves(t)
      /\ \A p \in Page : arena[p] = None /\ ~IsBig(p) /\ ~IsArena(p)
  BY DEF NoCall, GivesBack, Reserves, IsBig, IsArena
<1>2. \A t \in Caller : Back(t) = {} /\ Owned(t) = {} /\ Reserved(t) = {}
  BY <1>1 DEF Back, Owned, Reserved
<1>3. HeapTypeOK
  <2>1. free_list \in [Desc -> Seq(Nat)]
    BY EmptySeq
  <2> QED
    BY <2>1 DEF HeapTypeOK
<1>4. LocksHeld
  <2>1. \A t \in Caller : t # None
    BY NoneIsNothing
  <2>2. \A t \in Caller : ~Stands(t, "flip") /\ \A d \in Desc : ~HasDesc(t, d)
    BY <1>1 DEF HasDesc, Stands
  <2>3. pool_lock = None /\ \A d \in Desc : desc_lock[d] = None
    OBVIOUS
  <2> HIDE DEF HeapInit
  <2> QED
    BY <2>1, <2>2, <2>3 DEF LocksHeld
<1>5. CallsOK /\ HeldOK /\ OwnedOK /\ BackOK
  BY <1>1, <1>2 DEF CallsOK, HeldOK, OwnedOK, BackOK
<1>6. PagesOK /\ ReservedOK /\ FreshOK /\ UsedOK /\ CountsOK
  BY <1>1, <1>2 DEF PagesOK, ReservedOK, ReservedFor, FreshOK, FreshFor, UsedOK, CountsOK
<1>7. FreeOK
  BY DEF FreeOK, IsInjective, Range
<1> QED
  BY <1>3, <1>4, <1>5, <1>6, <1>7 DEF HeapInv

\* A call that begins.
LEMMA BeginsInv ==
  ASSUME HeapInv, NEW t \in Caller, NoCall(t), NEW c \in CallRecord,
         call' = [call EXCEPT ![t] = c], UNCHANGED <<memVars, lockVars, held>>,
         CallShape(c), c.pc \in {"lock", "scan"}, c.pc = "scan" => c.kind # "block",
         c.old # 0 => \E r \in held[t] : r.addr = c.old /\ ~IsPage(r)
  PROVE  HeapInv'
<1> USE DEF HeapInv
<1>1. call \in [Caller -> CallRecord \cup {None}]
  BY DEF HeapTypeOK
<1>2. call'[t] = c /\ (\A u \in Caller : u # t => call'[u] = call[u]) /\ c # None
  BY <1>1, NoneIsNothing
<1>3. call' \in [Caller -> CallRecord \cup {None}]
  BY <1>1
<1>4. Others(t) /\ held' = held /\ UNCHANGED memVars /\ UNCHANGED lockVars
  BY <1>2 DEF Others
<1>5. ~GivesBack(t) /\ ~GivesBack(t)' /\ ~Reserves(t) /\ ~Reserves(t)' /\ ~Stands(t, "pop")
  BY <1>2 DEF GivesBack, Reserves, NoCall, Stands
<1>6. Back(t)' = {} /\ Back(t) = {} /\ Owned(t)' = Owned(t)
  BY <1>4, <1>5 DEF Back, Owned
<1>7. HeapTypeOK'
  BY <1>3, <1>4 DEF HeapTypeOK, memVars, lockVars
<1>8. LocksHeld'
  <2>1. \A d \in Desc : ~HasDesc(t, d) /\ ~HasDesc(t, d)'
    BY <1>2 DEF HasDesc, NoCall
  <2>2. ~Stands(t, "flip") /\ ~Stands(t, "flip")'
    BY <1>2 DEF Stands, NoCall
  <2> QED
    BY <1>4, <2>1, <2>2, LocksSame
<1>9. CallsOK'
  BY <1>2, <1>4, CallsSame
<1>10. HeldOK'
  <2>1. \A u \in Caller : Back(u)' = Back(u)
    BY <1>4, <1>6, OthersSame DEF Others
  <2>2. \A a : SizeAt(a)' = SizeAt(a)
    BY <1>4, MemorySame
  <2>3. \A u \in Caller : \A r \in held[u] : r.addr \notin Back(u)
    BY DEF HeldOK
  <2>4. \A u \in Caller : \A r \in held'[u] :
          r \in held[u] /\ SizeAt(r.addr)' = SizeAt(r.addr) /\ r.addr \notin Back(u)'
    BY <1>4, <2>1, <2>2, <2>3
  <2>5. HeldOK
    OBVIOUS
  <2> HIDE DEF HeapInv
  <2> QED
    BY <2>4, <2>5, HeldSame
<1>11. FreshOK'
  <2>1. free_list' = free_list
    BY <1>4 DEF memVars
  <2>2. ~NoCall(t)' /\ call'[t].kind = "block" => FreshFor(t)'
    BY <1>2 DEF FreshFor
  <2> QED
    BY <1>4, <2>1, <2>2, FreshSame
<1>12. OwnedOK' /\ BackOK' /\ PagesOK' /\ ReservedOK' /\ FreeOK' /\ CountsOK' /\ UsedOK'
  BY <1>4, <1>5, <1>6, QuietStep
<1> QED
  BY <1>7, <1>8, <1>9, <1>10, <1>11, <1>12

LEMMA MallocInv ==
  ASSUME HeapInv, NEW t \in Caller, NEW size \in Sizes, Malloc(t, size)
  PROVE  HeapInv'
<1> DEFINE c == Request(size, size, 0)
<1>1. size \in Nat /\ 0 \in Nat
  BY HeapAssumption
<1>2. c \in CallRecord /\ CallShape(c) /\ c.old = 0 /\ c.pc \in {"lock", "scan"}
      /\ (c.pc = "scan" => c.kind # "block")
  BY <1>1, RequestFacts
<1>3. NoCall(t) /\ call' = [call EXCEPT ![t] = c] /\ UNCHANGED <<memVars, lockVars, held>>
  BY DEF Malloc, MayAsk
<1> HIDE DEF c
<1> QED
  BY <1>2, <1>3, BeginsInv

LEMMA CallocInv ==
  ASSUME HeapInv, NEW t \in Caller, NEW a \in Counts, NEW b \in Counts, Calloc(t, a, b)
  PROVE  HeapInv'
<1> DEFINE size == (a * b) % Word
           c == Request(size, a * b, 0)
<1>1. size \in Nat /\ a * b \in Nat /\ 0 \in Nat
  <2>1. a \in Nat /\ b \in Nat /\ Word \in Nat \ {0}
    BY HeapAssumption
  <2>2. a * b \in Nat
    BY <2>1
  <2> QED
    BY <2>1, <2>2, Division
<1>2. NoCall(t) /\ call' = [call EXCEPT ![t] = c] /\ UNCHANGED <<memVars, lockVars, held>>
  BY DEF Calloc, MayAsk
<1> HIDE DEF size
<1>3. c \in CallRecord /\ CallShape(c) /\ c.old = 0 /\ c.pc \in {"lock", "scan"}
      /\ (c.pc = "scan" => c.kind # "block")
  BY <1>1, RequestFacts
<1> HIDE DEF c
<1> QED
  BY <1>2, <1>3, BeginsInv

LEMMA GetPageInv ==
  ASSUME HeapInv, NEW t \in Caller, GetPage(t)
  PROVE  HeapInv'
<1> DEFINE c == [pc |-> "scan", kind |-> "page", desc |-> 0, cnt |-> 1,
                 asked |-> PageSize, page |-> 0, addr |-> 0, old |-> 0]
<1>1. NoCall(t) /\ call' = [call EXCEPT ![t] = c] /\ UNCHANGED <<memVars, lockVars, held>>
  BY DEF GetPage, MayAsk
<1>2. PageSize \in Nat
  BY HeapAssumption
<1>3. c \in CallRecord
  BY <1>2 DEF CallRecord
<1>4. CallShape(c)
  BY DEF CallShape
<1> QED
  BY <1>1, <1>3, <1>4, BeginsInv

LEMMA ReallocInv ==
  ASSUME HeapInv, NEW t \in Caller, NEW r \in held[t], NEW size \in Sizes, Realloc(t, r, size)
  PROVE  HeapInv'
<1> DEFINE c == Request(size, size, r.addr)
<1>1. size \in Nat /\ r.addr \in Nat
  BY HeapAssumption, CallTypes DEF HeapInv
<1>2. c \in CallRecord /\ CallShape(c) /\ c.old = r.addr /\ c.pc \in {"lock", "scan"}
      /\ (c.pc = "scan" => c.kind # "block")
  BY <1>1, RequestFacts
<1>3. NoCall(t) /\ call' = [call EXCEPT ![t] = c] /\ UNCHANGED <<memVars, lockVars, held>> /\ ~IsPage(r)
  BY DEF Realloc, MayAsk
<1> HIDE DEF c
<1> QED
  BY <1>2, <1>3, BeginsInv

LEMMA FreeInv ==
  ASSUME HeapInv, NEW t \in Caller, NEW r \in held[t], Free(t, r)
  PROVE  HeapInv'
<1> USE DEF HeapInv
<1> DEFINE p == PageOf(r.addr)
           c == IF IsPage(r)
                THEN [pc |-> "clear", kind |-> "page", desc |-> 0, cnt |-> 1, asked |-> 0,
                      page |-> p, addr |-> r.addr, old |-> 0]
                ELSE Freeing(r.addr)
           rest == Without(t, r.addr)
<1>1. /\ NoCall(t) /\ call' = [call EXCEPT ![t] = c] /\ held' = [held EXCEPT ![t] = rest]
      /\ UNCHANGED <<memVars, lockVars>>
  BY DEF Free
<1>2. r.addr \in Owned(t) /\ r.addr \in Nat /\ Granted(r.addr) /\ p \in Page
  <2>1. r.addr \in Owned(t)
    BY DEF Owned
  <2>2. r.addr \in Nat /\ Granted(r.addr)
    BY <2>1, OwnsFacts
  <2> QED
    BY <2>1, <2>2, GrantedFacts
<1>3. /\ c \in CallRecord /\ CallShape(c) /\ c.addr = r.addr /\ c.old = 0
      /\ c.pc = "push" \/ (c.pc = "clear" /\ c.kind # "block")
      /\ c.kind = "big" => IsBig(c.page) /\ arena[c.page].free_cnt = c.cnt
      /\ c.kind = "block" => IsArena(c.page) /\ arena[c.page].desc = c.desc
  <2>1. CASE IsPage(r)
    <3>1. r.addr = Start(p)
      BY <1>2, <2>1, GrantedFacts DEF IsPage
    <3>2. c = [pc |-> "clear", kind |-> "page", desc |-> 0, cnt |-> 1, asked |-> 0,
               page |-> p, addr |-> r.addr, old |-> 0]
      BY <2>1
    <3> HIDE DEF c, p
    <3>3. c \in CallRecord
      BY <1>2, <3>2 DEF CallRecord
    <3>4. CallShape(c)
      BY <1>2, <3>1, <3>2 DEF CallShape
    <3> QED
      BY <3>2, <3>3, <3>4
  <2>2. CASE ~IsPage(r)
    <3>1. c = Freeing(r.addr)
      BY <2>2
    <3> HIDE DEF c
    <3>2. r.addr % PageSize # 0
      BY <2>2 DEF IsPage
    <3> QED
      BY <1>2, <3>1, <3>2, FreeingFacts
  <2> QED
    BY <2>1, <2>2
<1> HIDE DEF c
<1>4. call \in [Caller -> CallRecord \cup {None}] /\ held \in [Caller -> SUBSET Region]
  BY DEF HeapTypeOK
<1>5. call'[t] = c /\ (\A u \in Caller : u # t => call'[u] = call[u]) /\ c # None
  BY <1>1, <1>3, <1>4, NoneIsNothing
<1>6. /\ held'[t] = rest /\ \A u \in Caller : u # t => held'[u] = held[u]
      /\ rest \subseteq held[t] /\ \A q \in rest : q.addr # r.addr
      /\ \A q \in held[t] : q.addr # r.addr => q \in rest
  BY <1>1, <1>4 DEF Without
<1> HIDE DEF rest
<1>7. Others(t) /\ UNCHANGED memVars /\ UNCHANGED lockVars
  BY <1>1, <1>5, <1>6 DEF Others
<1>8. ~GivesBack(t) /\ GivesBack(t)' /\ ~Reserves(t) /\ ~Reserves(t)' /\ ~Stands(t, "pop")
  BY <1>1, <1>3, <1>5 DEF GivesBack, Reserves, NoCall, Stands
<1>9. Back(t)' = {r.addr} /\ Back(t) = {}
  BY <1>3, <1>5, <1>8 DEF Back
<1>10. Owned(t)' = Owned(t)
  <2>1. \A a : a \in Owned(t)' <=> a = r.addr \/ \E q \in rest : a = q.addr
    BY <1>6, <1>9 DEF Owned
  <2>2. \A a : a \in Owned(t) <=> \E q \in held[t] : a = q.addr
    BY <1>9 DEF Owned
  <2> QED
    BY <1>6, <2>1, <2>2
<1>11. HeapTypeOK'
  <2>1. call' \in [Caller -> CallRecord \cup {None}]
    BY <1>1, <1>3, <1>4
  <2>2. held' \in [Caller -> SUBSET Region]
    BY <1>1, <1>4, <1>6
  <2> QED
    BY <1>1, <2>1, <2>2 DEF HeapTypeOK, memVars, lockVars
<1>12. LocksHeld'
  <2>1. \A d \in Desc : ~HasDesc(t, d) /\ ~HasDesc(t, d)'
    BY <1>1, <1>3, <1>5 DEF HasDesc, NoCall
  <2>2. ~Stands(t, "flip") /\ ~Stands(t, "flip")'
    BY <1>1, <1>3, <1>5 DEF Stands, NoCall
  <2> QED
    BY <1>7, <2>1, <2>2, LocksSame
<1>13. CallsOK'
  BY <1>3, <1>5, <1>7, CallsSame
<1>14. HeldOK'
  <2>1. \A u \in Caller : u # t => Back(u)' = Back(u)
    BY <1>7, OthersSame DEF Others
  <2>2. \A a : SizeAt(a)' = SizeAt(a)
    BY <1>7, MemorySame
  <2>3. \A u \in Caller : \A q \in held[u] : q.addr \notin Back(u)
    BY DEF HeldOK
  <2>4. \A u \in Caller : \A q \in held'[u] :
          q \in held[u] /\ SizeAt(q.addr)' = SizeAt(q.addr) /\ q.addr \notin Back(u)'
    BY <1>6, <1>9, <2>1, <2>2, <2>3
  <2>5. HeldOK
    OBVIOUS
  <2> HIDE DEF HeapInv
  <2> QED
    BY <2>4, <2>5, HeldSame
<1>15. FreshOK'
  <2>1. free_list' = free_list
    BY <1>7 DEF memVars
  <2>2. FreshFor(t)'
    BY <1>3, <1>5 DEF FreshFor
  <2> QED
    BY <1>7, <2>1, <2>2, FreshSame
<1>16. BackFor(t)'
  <2>1. arena' = arena
    BY <1>7 DEF memVars
  <2> QED
    BY <1>3, <1>5, <2>1 DEF BackFor, IsBig, IsArena
<1>17. OwnedOK' /\ BackOK' /\ PagesOK' /\ ReservedOK' /\ FreeOK' /\ CountsOK' /\ UsedOK'
  BY <1>7, <1>8, <1>10, <1>16, QuietStep
<1> QED
  BY <1>11, <1>12, <1>13, <1>14, <1>15, <1>17

-----------------------------------------------------------------------------
(* Steps with the locks *)

\* A lock is nobody's before it is taken.
LEMMA TakeDescFacts ==
  ASSUME HeapTypeOK, LocksHeld, NEW t \in Caller, Others(t), NEW d \in Desc, TakeDesc(d, t),
         HasDesc(t, d)', \A e \in Desc : e # d => (HasDesc(t, e)' <=> HasDesc(t, e)),
         UNCHANGED pool_lock, Stands(t, "flip")' <=> Stands(t, "flip")
  PROVE  LocksHeld' /\ desc_lock' \in [Desc -> Caller \cup {None}]
         /\ \A u \in Caller : ~HasDesc(u, d)
<1>1. /\ desc_lock \in [Desc -> Caller \cup {None}] /\ desc_lock[d] = None
      /\ desc_lock' = [desc_lock EXCEPT ![d] = t]
  BY DEF HeapTypeOK, TakeDesc
<1>2. desc_lock'[d] = t /\ \A e \in Desc : e # d => desc_lock'[e] = desc_lock[e]
  BY <1>1
<1>3. \A u \in Caller : ~HasDesc(u, d)
  BY <1>1, NoneIsNothing DEF LocksHeld
<1>4. \A u \in Caller : u # t =>
        /\ \A e : HasDesc(u, e)' <=> HasDesc(u, e)
        /\ Stands(u, "flip")' <=> Stands(u, "flip")
  BY OthersLocks DEF Others
<1>5. \A e \in Desc, u \in Caller : desc_lock'[e] = u <=> HasDesc(u, e)'
  <2> SUFFICES ASSUME NEW e \in Desc, NEW u \in Caller
               PROVE  desc_lock'[e] = u <=> HasDesc(u, e)'
    OBVIOUS
  <2>1. CASE e = d
    BY <1>2, <1>3, <1>4, <2>1
  <2>2. CASE e # d
    BY <1>2, <1>4, <2>2 DEF LocksHeld
  <2> QED
    BY <2>1, <2>2
<1>6. \A u \in Caller : pool_lock' = u <=> Stands(u, "flip")'
  BY <1>4 DEF LocksHeld
<1>7. desc_lock' \in [Desc -> Caller \cup {None}]
  BY <1>1
<1> QED
  BY <1>3, <1>5, <1>6, <1>7 DEF LocksHeld

\* A lock is nobody's after it is released.
LEMMA DropDescFacts ==
  ASSUME HeapTypeOK, LocksHeld, NEW t \in Caller, Others(t), NEW d \in Desc \cup {0}, DropDesc(d),
         \A e \in Desc : HasDesc(t, e) => e = d,
         d # 0 => HasDesc(t, d), \A e \in Desc : ~HasDesc(t, e)',
         UNCHANGED pool_lock, Stands(t, "flip")' <=> Stands(t, "flip")
  PROVE  LocksHeld' /\ desc_lock' \in [Desc -> Caller \cup {None}]
<1>1. /\ desc_lock \in [Desc -> Caller \cup {None}]
      /\ d = 0 => desc_lock' = desc_lock
      /\ d # 0 => desc_lock' = [desc_lock EXCEPT ![d] = None]
  BY DEF HeapTypeOK, DropDesc
<1>2. \A e \in Desc : e # 0
  BY DescFacts
<1>3. \A e \in Desc : desc_lock'[e] = IF e = d THEN None ELSE desc_lock[e]
  BY <1>1, <1>2
<1>4. \A u \in Caller : u # t =>
        /\ \A e : HasDesc(u, e)' <=> HasDesc(u, e)
        /\ Stands(u, "flip")' <=> Stands(u, "flip")
  BY OthersLocks DEF Others
<1>5. \A e \in Desc, u \in Caller : desc_lock'[e] = u <=> HasDesc(u, e)'
  <2> SUFFICES ASSUME NEW e \in Desc, NEW u \in Caller
               PROVE  desc_lock'[e] = u <=> HasDesc(u, e)'
    OBVIOUS
  <2>1. u # None
    BY NoneIsNothing
  <2>2. CASE e = d
    <3>1. desc_lock[e] = t /\ desc_lock'[e] = None
      BY <1>2, <1>3, <2>2 DEF LocksHeld
    <3>2. u # t => ~HasDesc(u, e)
      BY <3>1 DEF LocksHeld
    <3> QED
      BY <1>4, <2>1, <3>1, <3>2
  <2>3. CASE e # d
    BY <1>3, <1>4, <2>3 DEF LocksHeld
  <2> QED
    BY <2>2, <2>3
<1>6. \A u \in Caller : pool_lock' = u <=> Stands(u, "flip")'
  BY <1>4 DEF LocksHeld
<1>7. desc_lock' \in [Desc -> Caller \cup {None}]
  BY <1>1
<1> QED
  BY <1>5, <1>6, <1>7 DEF LocksHeld

LEMMA LockInv ==
  ASSUME HeapInv, NEW t \in Caller, Lock(t)
  PROVE  HeapInv'
<1> USE DEF HeapInv
<1> PICK d : d = call[t].desc
  OBVIOUS
<1> DEFINE to == IF free_list[d] = <<>> THEN "scan" ELSE "pop"
<1>1. /\ ~NoCall(t) /\ call[t].pc = "lock" /\ TakeDesc(d, t) /\ Go(t, to)
      /\ UNCHANGED <<memVars, pool_lock, held>>
  BY DEF Lock, Stands
<1>2. call[t] \in CallRecord /\ CallShape(call[t])
  BY <1>1, CallTypes DEF CallsOK
<1>3. call[t].kind = "block" /\ d \in Desc /\ call[t].page = 0
  BY <1>1, <1>2 DEF CallShape
<1>4. /\ to = "scan" => free_list[d] = <<>>
      /\ to \in {"scan", "pop"}
  OBVIOUS
<1> HIDE DEF to
<1>5. /\ call' \in [Caller -> CallRecord \cup {None}]
      /\ call'[t] \in CallRecord /\ ~NoCall(t)' /\ call'[t].pc = to
      /\ call'[t].kind = "block" /\ call'[t].desc = d /\ call'[t].cnt = call[t].cnt
      /\ call'[t].page = 0 /\ call'[t].old = call[t].old
      /\ \A u \in Caller : u # t => call'[u] = call[u]
  BY <1>1, <1>3, <1>4, GoFacts
<1>6. Others(t) /\ UNCHANGED memVars /\ held' = held
  BY <1>1, <1>5 DEF Others
<1>7. ~GivesBack(t) /\ ~GivesBack(t)' /\ ~Reserves(t) /\ ~Reserves(t)' /\ ~Stands(t, "pop")
  BY <1>1, <1>4, <1>5 DEF GivesBack, Reserves, Stands
<1>8. Back(t)' = {} /\ Back(t) = {} /\ Owned(t)' = Owned(t)
  BY <1>6, <1>7 DEF Back, Owned
<1>9. LocksHeld' /\ desc_lock' \in [Desc -> Caller \cup {None}]
  <2>1. HasDesc(t, d)' /\ \A e \in Desc : ~HasDesc(t, e) /\ (e # d => ~HasDesc(t, e)')
    BY <1>1, <1>4, <1>5 DEF HasDesc
  <2>2. Stands(t, "flip")' <=> Stands(t, "flip")
    BY <1>1, <1>4, <1>5 DEF Stands
  <2>3. \A e \in Desc : e # d => (HasDesc(t, e)' <=> HasDesc(t, e))
    BY <2>1
  <2>4. HeapTypeOK /\ LocksHeld
    OBVIOUS
  <2>5. UNCHANGED pool_lock /\ TakeDesc(d, t) /\ HasDesc(t, d)'
    BY <1>1, <2>1
  <2> HIDE DEF HeapInv
  <2> QED
    BY <1>3, <1>6, <2>2, <2>3, <2>4, <2>5, TakeDescFacts
<1>10. HeapTypeOK'
  BY <1>1, <1>5, <1>9 DEF HeapTypeOK, memVars
<1>11. CallsOK'
  <2>1. CallShape(call'[t])
    BY <1>2, <1>3, <1>4, <1>5 DEF CallShape
  <2>2. call[t].old # 0 => \E r \in held[t] : r.addr = call[t].old /\ ~IsPage(r)
    BY <1>1 DEF CallsOK
  <2> QED
    BY <1>5, <1>6, <2>1, <2>2, CallsSame
<1>12. HeldOK'
  <2>1. \A u \in Caller : Back(u)' = Back(u)
    BY <1>6, <1>8, OthersSame DEF Others
  <2> QED
    BY <1>6, <2>1, HeldQuiet
<1>13. FreshOK'
  <2>1. free_list' = free_list
    BY <1>6 DEF memVars
  <2>2. FreshFor(t)'
    BY <1>4, <1>5, <2>1 DEF FreshFor
  <2> QED
    BY <1>6, <2>1, <2>2, FreshSame
<1>14. OwnedOK' /\ BackOK' /\ PagesOK' /\ ReservedOK' /\ FreeOK' /\ CountsOK' /\ UsedOK'
  BY <1>6, <1>7, <1>8, QuietStep
<1> QED
  BY <1>9, <1>10, <1>11, <1>12, <1>13, <1>14

LEMMA NoPagesInv ==
  ASSUME HeapInv, NEW t \in Caller, NoPages(t)
  PROVE  HeapInv'
<1> USE DEF HeapInv
<1> DEFINE d == call[t].desc
<1>1. /\ ~NoCall(t) /\ call[t].pc = "scan" /\ DropDesc(d)
      /\ call' = [call EXCEPT ![t] = None]
      /\ UNCHANGED <<memVars, held>> /\ pool_lock' = pool_lock
  BY DEF NoPages, Stands, DropPool
<1>2. call[t] \in CallRecord /\ CallShape(call[t]) /\ d \in Desc \cup {0}
  BY <1>1, CallTypes DEF CallsOK
<1>3. call \in [Caller -> CallRecord \cup {None}]
  BY DEF HeapTypeOK
<1>4. /\ call' \in [Caller -> CallRecord \cup {None}] /\ call'[t] = None
      /\ \A u \in Caller : u # t => call'[u] = call[u]
  BY <1>1, <1>3
<1>5. Others(t) /\ UNCHANGED memVars /\ held' = held /\ NoCall(t)'
  BY <1>1, <1>4 DEF Others, NoCall
<1>6. ~GivesBack(t) /\ ~GivesBack(t)' /\ ~Reserves(t) /\ ~Reserves(t)' /\ ~Stands(t, "pop")
  BY <1>1, <1>5 DEF GivesBack, Reserves, Stands
<1>7. Back(t)' = {} /\ Back(t) = {} /\ Owned(t)' = Owned(t)
  BY <1>5, <1>6 DEF Back, Owned
<1>8. LocksHeld' /\ desc_lock' \in [Desc -> Caller \cup {None}]
  <2>1. /\ \A e \in Desc : HasDesc(t, e) => e = d
        /\ d # 0 => HasDesc(t, d)
        /\ \A e \in Desc : ~HasDesc(t, e)'
    <3>1. d # 0 => call[t].kind = "block"
      BY <1>2 DEF CallShape
    <3> QED
      BY <1>1, <1>5, <3>1 DEF HasDesc
  <2>2. ~Stands(t, "flip") /\ ~Stands(t, "flip")'
    BY <1>1, <1>5 DEF Stands
  <2> QED
    BY <1>1, <1>2, <1>5, <2>1, <2>2, DropDescFacts
<1>9. HeapTypeOK'
  BY <1>1, <1>4, <1>8 DEF HeapTypeOK, memVars
<1>10. CallsOK'
  BY <1>5, CallsSame
<1>11. HeldOK'
  <2>1. \A u \in Caller : Back(u)' = Back(u)
    BY <1>5, <1>7, OthersSame DEF Others
  <2> QED
    BY <1>5, <2>1, HeldQuiet
<1>12. FreshOK'
  <2>1. free_list' = free_list
    BY <1>5 DEF memVars
  <2> QED
    BY <1>5, <2>1, FreshSame
<1>13. OwnedOK' /\ BackOK' /\ PagesOK' /\ ReservedOK' /\ FreeOK' /\ CountsOK' /\ UsedOK'
  BY <1>5, <1>6, <1>7, QuietStep
<1> QED
  BY <1>8, <1>9, <1>10, <1>11, <1>12, <1>13

\* What the search finds nobody has.
LEMMA ScanInv ==
  ASSUME HeapInv, NEW t \in Caller, Scan(t)
  PROVE  HeapInv'
<1> USE DEF HeapInv
<1> DEFINE cnt == call[t].cnt
           g == Min(Gaps(cnt))
<1>1. /\ ~NoCall(t) /\ call[t].pc = "scan" /\ cnt # 0 /\ Gaps(cnt) # {}
      /\ pool_lock = None /\ pool_lock' = t
      /\ call' = [call EXCEPT ![t] = [call[t] EXCEPT !.pc = "flip", !.page = g]]
      /\ UNCHANGED <<memVars, desc_lock, held>>
  BY DEF Scan, Stands, LockPool
<1>2. call[t] \in CallRecord /\ CallShape(call[t]) /\ cnt \in Nat
  BY <1>1, CallTypes DEF CallsOK
<1>3. g \in Page /\ RunFrom(g, cnt) \subseteq Page \ used_map
  <2>1. Gaps(cnt) \in SUBSET Nat
    BY HeapTypes DEF Gaps
  <2>2. \E x \in Gaps(cnt) : \A y \in Gaps(cnt) : x <= y
    BY <1>1, <2>1, LeastNatural
  <2>3. g \in Gaps(cnt)
    BY <2>2 DEF Min
  <2> QED
    BY <2>3 DEF Gaps, RunFrom
<1> HIDE DEF g
<1> DEFINE n == [call[t] EXCEPT !.pc = "flip", !.page = g]
<1>4. /\ n \in CallRecord /\ n.pc = "flip" /\ n.page = g
      /\ n.kind = call[t].kind /\ n.desc = call[t].desc /\ n.cnt = cnt
      /\ n.addr = call[t].addr /\ n.old = call[t].old
  BY <1>2, <1>3 DEF CallRecord
<1>5. call' = [call EXCEPT ![t] = n]
  BY <1>1
<1> HIDE DEF n
<1>6. call \in [Caller -> CallRecord \cup {None}]
  BY DEF HeapTypeOK
<1>7. /\ call' \in [Caller -> CallRecord \cup {None}] /\ call'[t] = n /\ n # None
      /\ \A u \in Caller : u # t => call'[u] = call[u]
  BY <1>4, <1>5, <1>6, NoneIsNothing
<1>8. Others(t) /\ UNCHANGED memVars /\ held' = held /\ ~NoCall(t)'
  BY <1>1, <1>7 DEF Others, NoCall
<1>9. ~GivesBack(t) /\ ~GivesBack(t)' /\ ~Reserves(t) /\ Reserves(t)' /\ ~Stands(t, "pop")
  BY <1>1, <1>4, <1>7, <1>8 DEF GivesBack, Reserves, Stands
<1>10. Back(t)' = {} /\ Back(t) = {} /\ Owned(t)' = Owned(t) /\ Reserved(t)' = RunFrom(g, cnt)
  BY <1>4, <1>7, <1>8, <1>9 DEF Back, Owned, Reserved
<1>11. LocksHeld'
  <2>1. \A u \in Caller : ~Stands(u, "flip")
    BY <1>1, NoneIsNothing DEF LocksHeld
  <2>2. Stands(t, "flip")'
    BY <1>4, <1>7, <1>8 DEF Stands
  <2>3. \A u \in Caller : u # t =>
          /\ \A e : HasDesc(u, e)' <=> HasDesc(u, e)
          /\ Stands(u, "flip")' <=> Stands(u, "flip")
    BY <1>8, OthersLocks DEF Others
  <2>4. \A e \in Desc : HasDesc(t, e)' <=> HasDesc(t, e)
    BY <1>1, <1>4, <1>7, <1>8 DEF HasDesc
  <2>5. \A e \in Desc, u \in Caller : HasDesc(u, e)' <=> HasDesc(u, e)
    BY <2>3, <2>4
  <2>6. \A u \in Caller : pool_lock' = u <=> Stands(u, "flip")'
    BY <1>1, <2>1, <2>2, <2>3
  <2> QED
    BY <1>1, <2>5, <2>6 DEF LocksHeld
<1>12. HeapTypeOK'
  BY <1>1, <1>7 DEF HeapTypeOK, memVars
<1>13. CallsOK'
  <2>1. CallShape(call'[t])
    BY <1>1, <1>2, <1>3, <1>4, <1>7 DEF CallShape
  <2>2. call[t].old # 0 => \E r \in held[t] : r.addr = call[t].old /\ ~IsPage(r)
    BY <1>1 DEF CallsOK
  <2> QED
    BY <1>4, <1>7, <1>8, <2>1, <2>2, CallsSame
<1>14. HeldOK'
  <2>1. \A u \in Caller : Back(u)' = Back(u)
    BY <1>8, <1>10, OthersSame DEF Others
  <2> QED
    BY <1>8, <2>1, HeldQuiet
<1>15. FreshOK'
  <2>1. free_list' = free_list
    BY <1>8 DEF memVars
  <2>2. call'[t].kind = "block" => FreshFor(t)'
    <3>1. call[t].kind = "block" => free_list[call[t].desc] = <<>>
      BY <1>1 DEF FreshOK, FreshFor
    <3> QED
      BY <1>4, <1>7, <2>1, <3>1 DEF FreshFor
  <2> QED
    BY <1>8, <2>1, <2>2, FreshSame
<1>16. OwnedOK' /\ BackOK' /\ PagesOK' /\ FreeOK' /\ CountsOK' /\ UsedOK'
  BY <1>8, <1>9, <1>10, QuietStep
<1>17. ReservedOK'
  <2>1. used_map' = used_map /\ arena' = arena
    BY <1>8 DEF memVars
  <2>2. \A p : FreeIn(p)' = FreeIn(p)
    BY <1>8, MemorySame
  <2>3. \A a : Run(a)' = Run(a)
    BY <1>8, MemorySame
  <2>4. \A u \in Caller : Owned(u)' = Owned(u)
    BY <1>8, <1>10, OthersSame DEF Others
  <2>5. ASSUME NEW u \in Caller, u # t
        PROVE  Reserved(t)' \cap Reserved(u) = {}
    <3>1. CASE Reserves(u)
      <4>1. ~Stands(u, "flip")
        BY <1>1, NoneIsNothing DEF LocksHeld
      <4>2. Reserved(u) \subseteq used_map
        BY <3>1, <4>1, ReservedUsed
      <4> QED
        BY <1>3, <1>10, <4>2
    <3>2. CASE ~Reserves(u)
      BY <3>2 DEF Reserved
    <3> QED
      BY <3>1, <3>2
  <2>6. ASSUME NEW u \in Caller, NEW a \in Owned(u)'
        PROVE  Run(a)' \cap Reserved(t)' = {}
    <3>1. a \in Owned(u) /\ Run(a)' = Run(a)
      BY <2>3, <2>4, <2>6
    <3>2. Run(a) \subseteq used_map
      BY <3>1, OwnsFacts, GrantedFacts
    <3> QED
      BY <1>3, <1>10, <3>1, <3>2
  <2>7. ReservedFor(t)'
    BY <1>3, <1>4, <1>7, <1>10, <2>1 DEF ReservedFor
  <2> QED
    BY <1>8, <2>1, <2>2, <2>3, <2>4, <2>5, <2>6, <2>7, ReservedStep
<1> QED
  BY <1>11, <1>12, <1>13, <1>14, <1>15, <1>16, <1>17

-----------------------------------------------------------------------------
(* Calls return *)

\* A call returns: it owns a new address, and may go on to free the old one.
LEMMA ReturnFacts ==
  ASSUME HeapInv, NEW t \in Caller, ~NoCall(t), call[t].pc \in {"flip", "arena", "pop"},
         NEW addr \in Nat, NEW size \in Nat, Return(t, addr, size), addr \notin Owned(t)
  PROVE  /\ Others(t)
         /\ call' \in [Caller -> CallRecord \cup {None}] /\ held' \in [Caller -> SUBSET Region]
         /\ Owned(t)' = Owned(t) \cup {addr}
         /\ ~Reserves(t)' /\ Reserved(t)' = {}
         /\ \A e \in Desc : ~HasDesc(t, e)'
         /\ \A to \in {"scan", "flip", "arena", "pop"} : ~Stands(t, to)'
         /\ ~NoCall(t)' => /\ CallShape(call'[t]) /\ call'[t].old = 0
                           /\ call'[t].kind = "block" => call'[t].pc = "push"
         /\ \A r \in held'[t] : /\ r.addr \notin Back(t)'
                                /\ r \in held[t] \/ r = [addr |-> addr, size |-> size, asked |-> call[t].asked]
         /\ GivesBack(t)' /\ (\A a \in Owned(t) : Kept(a)) => BackFor(t)'
<1> USE DEF HeapInv
<1> DEFINE new == [addr |-> addr, size |-> size, asked |-> call[t].asked]
           rest == Without(t, call[t].old)
           c == IF call[t].old = 0 THEN None ELSE Freeing(call[t].old)
<1>1. /\ call' = [call EXCEPT ![t] = c]
      /\ held' = [held EXCEPT ![t] = rest \cup {new}]
  BY DEF Return
<1>2. call[t] \in CallRecord /\ CallShape(call[t]) /\ call[t].asked \in Nat /\ call[t].old \in Nat
  BY CallTypes DEF CallsOK
<1>3. new \in Region /\ new.addr = addr
  BY <1>2 DEF Region
<1>4. call \in [Caller -> CallRecord \cup {None}] /\ held \in [Caller -> SUBSET Region]
  BY DEF HeapTypeOK
<1>5. rest \subseteq held[t] /\ (\A q \in rest : q.addr # call[t].old)
      /\ \A q \in held[t] : q.addr # call[t].old => q \in rest
  BY DEF Without
<1>6. ~GivesBack(t) /\ Back(t) = {}
  <2>1. ~GivesBack(t)
    BY DEF GivesBack
  <2> QED
    BY <2>1 DEF Back
<1>7. \A a : a \in Owned(t) <=> \E q \in held[t] : a = q.addr
  BY <1>6 DEF Owned
<1>8. \A q \in held[t] : q.addr \in Owned(t) /\ q.addr # 0
  <2> SUFFICES ASSUME NEW q \in held[t] PROVE q.addr \in Owned(t) /\ q.addr # 0
    OBVIOUS
  <2>1. q.addr \in Owned(t)
    BY <1>7
  <2>2. q.addr \in Nat /\ Granted(q.addr)
    BY <2>1, OwnsFacts
  <2>3. q.addr # 0
    BY <2>2, GrantedFacts
  <2> QED
    BY <2>1, <2>3
<1> HIDE DEF new, rest
<1>9. CASE call[t].old = 0
  <2>1. c = None
    BY <1>9
  <2>2. rest = held[t]
    BY <1>5, <1>8, <1>9
  <2> HIDE DEF c
  <2>3. /\ call'[t] = None /\ NoCall(t)' /\ \A u \in Caller : u # t => call'[u] = call[u]
        /\ call' \in [Caller -> CallRecord \cup {None}]
    BY <1>1, <1>4, <2>1 DEF NoCall
  <2>4. /\ held'[t] = held[t] \cup {new} /\ \A u \in Caller : u # t => held'[u] = held[u]
        /\ held' \in [Caller -> SUBSET Region]
    BY <1>1, <1>3, <1>4, <2>2
  <2>5. ~GivesBack(t)' /\ Back(t)' = {}
    BY <2>3 DEF GivesBack, Back
  <2>6. ~Reserves(t)' /\ Reserved(t)' = {}
    BY <2>3 DEF Reserves, Reserved
  <2>7. Owned(t)' = Owned(t) \cup {addr}
    <3>1. \A a : a \in Owned(t)' <=> \E q \in held[t] \cup {new} : a = q.addr
      BY <2>4, <2>5 DEF Owned
    <3> QED
      BY <1>3, <1>7, <3>1
  <2>8. /\ \A e \in Desc : ~HasDesc(t, e)'
        /\ \A to \in {"scan", "flip", "arena", "pop"} : ~Stands(t, to)'
    BY <2>3 DEF HasDesc, Stands
  <2>9. \A r \in held'[t] : r.addr \notin Back(t)' /\ (r \in held[t] \/ r = new)
    BY <2>4, <2>5
  <2> QED
    BY <2>3, <2>4, <2>5, <2>6, <2>7, <2>8, <2>9 DEF Others, new
<1>10. CASE call[t].old # 0
  <2> PICK old : old = call[t].old
    OBVIOUS
  <2>1. c = Freeing(old)
    BY <1>10
  <2> HIDE DEF c
  <2>2. \E r \in held[t] : r.addr = old /\ old % PageSize # 0
    BY <1>10 DEF CallsOK, IsPage
  <2>3. old \in Owned(t) /\ old \in Nat /\ Granted(old) /\ old % PageSize # 0
    <3>1. old \in Owned(t)
      BY <1>8, <2>2
    <3> QED
      BY <2>2, <3>1, OwnsFacts
  <2>4. /\ c \in CallRecord /\ c.old = 0 /\ CallShape(c) /\ c.addr = old /\ c.page = PageOf(old)
        /\ \/ c.pc = "clear" /\ c.kind = "big" /\ IsBig(c.page) /\ arena[c.page].free_cnt = c.cnt
           \/ c.pc = "push" /\ c.kind = "block" /\ IsArena(c.page) /\ arena[c.page].desc = c.desc
    BY <2>1, <2>3, FreeingFacts
  <2>5. /\ call'[t] = c /\ ~NoCall(t)' /\ \A u \in Caller : u # t => call'[u] = call[u]
        /\ call' \in [Caller -> CallRecord \cup {None}]
    BY <1>1, <1>4, <2>4, NoneIsNothing DEF NoCall
  <2>6. /\ held'[t] = rest \cup {new} /\ \A u \in Caller : u # t => held'[u] = held[u]
        /\ held' \in [Caller -> SUBSET Region]
    BY <1>1, <1>3, <1>4, <1>5
  <2>7. GivesBack(t)' /\ Back(t)' = {old}
    BY <2>4, <2>5 DEF GivesBack, Back
  <2>8. ~Reserves(t)' /\ Reserved(t)' = {}
    BY <2>4, <2>5 DEF Reserves, Reserved
  <2>9. Owned(t)' = Owned(t) \cup {addr}
    <3>1. \A a : a \in Owned(t)' <=> (a = old \/ \E q \in rest \cup {new} : a = q.addr)
      BY <2>6, <2>7 DEF Owned
    <3>2. \E q \in held[t] : old = q.addr
      BY <2>2
    <3> QED
      BY <1>3, <1>5, <1>7, <3>1, <3>2
  <2>10. /\ \A e \in Desc : ~HasDesc(t, e)'
         /\ \A to \in {"scan", "flip", "arena", "pop"} : ~Stands(t, to)'
    BY <2>4, <2>5 DEF HasDesc, Stands
  <2>11. \A r \in held'[t] : r.addr \notin Back(t)' /\ (r \in held[t] \/ r = new)
    <3>1. addr # old
      BY <2>3
    <3> QED
      BY <1>3, <1>5, <2>6, <2>7, <3>1
  <2>12. ASSUME \A a \in Owned(t) : Kept(a) PROVE BackFor(t)'
    <3> PICK p : p = PageOf(old)
      OBVIOUS
    <3>1. Kept(old)
      BY <2>3, <2>12
    <3>2. /\ IsBig(p) => IsBig(p)' /\ arena'[p].free_cnt = arena[p].free_cnt
          /\ IsArena(p) => IsArena(p)' /\ arena'[p].desc = arena[p].desc
      BY <3>1 DEF Kept
    <3>3. call'[t].page = p
      BY <2>4, <2>5
    <3>4. /\ c.kind = "big" => IsBig(p)' /\ arena'[p].free_cnt = c.cnt
          /\ c.kind = "block" => IsArena(p)' /\ arena'[p].desc = c.desc
      BY <2>4, <3>2
    <3> QED
      BY <2>5, <3>3, <3>4 DEF BackFor, IsBig, IsArena
  <2> QED
    BY <2>4, <2>5, <2>6, <2>7, <2>8, <2>9, <2>10, <2>11, <2>12 DEF Others, new
<1> QED
  BY <1>9, <1>10

\* What a returning call leaves true when nothing that is owned has been
\* touched and the new address is apart from it all.
LEMMA ReturnInv ==
  ASSUME HeapInv, NEW t \in Caller, ~NoCall(t), call[t].pc \in {"flip", "arena", "pop"},
         NEW addr \in Nat, NEW size \in Nat, Return(t, addr, size),
         \A u \in Caller : \A a \in Owned(u) : Kept(a),
         \A u \in Caller : addr \notin Owned(u),
         Granted(addr)', size = SizeAt(addr)',
         \A u \in Caller : \A a \in Owned(u) :
            Run(a) \cap Run(addr)' = {} \/ (PageOf(a) = PageOf(addr) /\ IsArena(PageOf(addr))')
  PROVE  CallsOK' /\ HeldOK' /\ OwnedOK' /\ BackOK'
<1> USE DEF HeapInv
<1> DEFINE new == [addr |-> addr, size |-> size, asked |-> call[t].asked]
<1>1. /\ Others(t)
      /\ Owned(t)' = Owned(t) \cup {addr}
      /\ ~NoCall(t)' => CallShape(call'[t]) /\ call'[t].old = 0
      /\ \A r \in held'[t] : r.addr \notin Back(t)' /\ (r \in held[t] \/ r = new)
      /\ GivesBack(t)' => BackFor(t)'
  BY ReturnFacts
<1>2. new.addr = addr /\ new.size = size
  OBVIOUS
<1> HIDE DEF new
<1>3. CallsOK'
  BY <1>1, CallsSame
<1>4. BackOK'
  BY <1>1, BackSame
<1>5. OwnedOK'
  <2> PICK at : at = {addr}
    OBVIOUS
  <2>1. \A u \in Caller : \A a \in Owned(u)' : (u = t /\ a \in at) \/ Kept(a)
    BY <1>1, OthersSame DEF Others
  <2>2. \A x \in at : /\ Granted(x)' /\ \A u \in Caller : x \notin Owned(u)
                      /\ \A y \in at : x = y
                      /\ \A u \in Caller : \A a \in Owned(u) :
                           Run(a) \cap Run(x)' = {} \/ (PageOf(a) = PageOf(x) /\ IsArena(PageOf(x))')
    OBVIOUS
  <2>3. OwnedOK /\ Owned(t)' \subseteq Owned(t) \cup at
    BY <1>1
  <2> HIDE DEF HeapInv
  <2> QED
    BY <1>1, <2>1, <2>2, <2>3, OwnedStep
<1>6. HeldOK'
  <2>1. \A r \in held[t] : r.addr # addr /\ r.size = SizeAt(r.addr)'
    <3> SUFFICES ASSUME NEW r \in held[t] PROVE r.addr # addr /\ r.size = SizeAt(r.addr)'
      OBVIOUS
    <3> PICK a : a = r.addr
      OBVIOUS
    <3>1. a \in Owned(t)
      BY DEF Owned
    <3>2. Kept(a)
      BY <3>1
    <3>3. r.size = SizeAt(a)
      BY DEF HeldOK
    <3>4. SizeAt(a)' = SizeAt(a)
      BY <3>2 DEF Kept
    <3> QED
      BY <3>1, <3>3, <3>4
  <2>2. \A r \in held'[t] :
           /\ r.size = SizeAt(r.addr)' /\ r.addr \notin Back(t)'
           /\ \A q \in held'[t] : q.addr = r.addr => q = r
    <3>1. \A r \in held[t], q \in held[t] : q.addr = r.addr => q = r
      BY DEF HeldOK
    <3> QED
      BY <1>1, <1>2, <2>1, <3>1
  <2>3. ASSUME NEW u \in Caller, u # t
        PROVE  \A r \in held'[u] :
                 /\ r.size = SizeAt(r.addr)' /\ r.addr \notin Back(u)'
                 /\ \A q \in held'[u] : q.addr = r.addr => q = r
    <3>1. held'[u] = held[u] /\ Back(u)' = Back(u)
      BY <1>1, <2>3, OthersSame DEF Others
    <3>2. \A r \in held[u] :
             /\ r.size = SizeAt(r.addr) /\ r.addr \notin Back(u)
             /\ \A q \in held[u] : q.addr = r.addr => q = r
      BY DEF HeldOK
    <3>3. \A r \in held[u] : Kept(r.addr)
      BY DEF Owned
    <3>4. \A r \in held[u] : SizeAt(r.addr)' = SizeAt(r.addr)
      BY <3>3 DEF Kept
    <3> QED
      BY <3>1, <3>2, <3>4
  <2> QED
    BY <2>2, <2>3 DEF HeldOK
<1> QED
  BY <1>3, <1>4, <1>5, <1>6

-----------------------------------------------------------------------------
(* Pages are marked, and get their headers *)

\* The pages that a call has found.
LEMMA ReservesFacts ==
  ASSUME HeapInv, NEW t \in Caller, Stands(t, "flip") \/ Stands(t, "arena")
  PROVE  LET p == call[t].page
         IN  /\ call[t] \in CallRecord /\ CallShape(call[t]) /\ Reserves(t)
             /\ p \in Page /\ p \in Nat /\ call[t].cnt \in Nat /\ call[t].cnt >= 1
             /\ p \in Reserved(t) /\ Reserved(t) = RunFrom(p, call[t].cnt) /\ Reserved(t) \subseteq Page
             /\ \A q \in Reserved(t) : arena[q] = None
             /\ \A u \in Caller : \A a \in Owned(u) : Run(a) \cap Reserved(t) = {} /\ PageOf(a) \notin Reserved(t)
             /\ Owned(t) = {r.addr : r \in held[t]} /\ ~GivesBack(t)
<1> USE DEF HeapInv
<1>1. ~NoCall(t) /\ call[t].pc \in {"flip", "arena"} /\ Reserves(t)
  BY DEF Stands, Reserves
<1>2. call[t] \in CallRecord /\ CallShape(call[t])
  BY <1>1, CallTypes DEF CallsOK
<1> PICK p : p = call[t].page
  OBVIOUS
<1>3. p \in Page /\ p \in Nat /\ call[t].cnt \in Nat /\ call[t].cnt >= 1
  BY <1>1, <1>2, CallTypes, HeapTypes DEF CallShape
<1>4. Reserved(t) = RunFrom(p, call[t].cnt)
  BY <1>1 DEF Reserved
<1>5. p \in Reserved(t)
  BY <1>3, <1>4 DEF RunFrom
<1>6. ReservedFor(t) /\ \A u \in Caller : \A a \in Owned(u) : Run(a) \cap Reserved(t) = {}
  BY <1>1 DEF ReservedOK
<1>7. Reserved(t) \subseteq Page /\ \A q \in Reserved(t) : arena[q] = None
  <2>1. CASE call[t].pc = "flip"
    BY <1>6, <2>1 DEF ReservedFor, PagesOK
  <2>2. CASE call[t].pc = "arena"
    BY <1>6, <2>2 DEF ReservedFor
  <2> QED
    BY <1>1, <2>1, <2>2
<1>8. \A u \in Caller : \A a \in Owned(u) : PageOf(a) \in Run(a)
  BY OwnsFacts, GrantedFacts
<1>9. \A u \in Caller : \A a \in Owned(u) : PageOf(a) \notin Reserved(t)
  BY <1>6, <1>8
<1>10. ~GivesBack(t) /\ Back(t) = {}
  BY <1>1 DEF GivesBack, Back
<1>11. Owned(t) = {r.addr : r \in held[t]}
  BY <1>10 DEF Owned
<1> QED
  BY <1>1, <1>2, <1>3, <1>4, <1>5, <1>6, <1>7, <1>9, <1>10, <1>11

\* More pages are marked, and what is owned does not change.
LEMMA KeptMarked ==
  ASSUME used_map \subseteq used_map', arena' = arena, free_list' = free_list, NEW a, Granted(a)
  PROVE  Kept(a)
<1>1. \A p : (IsBig(p)' <=> IsBig(p)) /\ (IsArena(p)' <=> IsArena(p))
  BY DEF IsBig, IsArena
<1>2. Run(a)' = Run(a) /\ SizeAt(a)' = SizeAt(a)
  BY <1>1 DEF Run, SizeAt
<1>3. Granted(a)'
  BY <1>1 DEF Granted
<1> QED
  BY <1>1, <1>2, <1>3 DEF Kept

LEMMA DropPoolFacts ==
  ASSUME LocksHeld, NEW t \in Caller, Others(t), Stands(t, "flip"), ~Stands(t, "flip")',
         desc_lock' = desc_lock, pool_lock' = None,
         \A e \in Desc : HasDesc(t, e)' <=> HasDesc(t, e)
  PROVE  LocksHeld'
<1>1. \A u \in Caller : u # t => ~Stands(u, "flip")
  BY DEF LocksHeld
<1>2. \A u \in Caller : u # t =>
        /\ \A e : HasDesc(u, e)' <=> HasDesc(u, e)
        /\ Stands(u, "flip")' <=> Stands(u, "flip")
  BY OthersLocks DEF Others
<1>3. \A e \in Desc, u \in Caller : HasDesc(u, e)' <=> HasDesc(u, e)
  BY <1>2
<1>4. \A u \in Caller : ~Stands(u, "flip")' /\ u # None
  BY <1>1, <1>2, NoneIsNothing
<1> QED
  BY <1>3, <1>4 DEF LocksHeld

LEMMA FlipInv ==
  ASSUME HeapInv, NEW t \in Caller, Flip(t)
  PROVE  HeapInv'
<1> USE DEF HeapInv
<1> PICK p : p = call[t].page
  OBVIOUS
<1> PICK pages : pages = Reserved(t)
  OBVIOUS
<1>1. Stands(t, "flip") /\ ~NoCall(t) /\ call[t].pc = "flip"
  BY DEF Flip, Stands
<1>2. /\ call[t] \in CallRecord /\ CallShape(call[t]) /\ Reserves(t)
      /\ p \in Page /\ p \in Nat /\ call[t].cnt \in Nat /\ call[t].cnt >= 1
      /\ p \in pages /\ pages = RunFrom(p, call[t].cnt) /\ pages \subseteq Page
      /\ \A q \in pages : arena[q] = None
      /\ \A u \in Caller : \A a \in Owned(u) : Run(a) \cap pages = {} /\ PageOf(a) \notin pages
      /\ Owned(t) = {r.addr : r \in held[t]} /\ ~GivesBack(t)
  BY <1>1, ReservesFacts
<1>3. /\ used_map' = used_map \cup pages /\ pool_lock' = None
      /\ arena' = arena /\ free_list' = free_list /\ desc_lock' = desc_lock
      /\ IF call[t].kind = "page" THEN Return(t, Start(p), PageSize)
         ELSE Go(t, "arena") /\ UNCHANGED held
  BY <1>2 DEF Flip, RunFrom
<1>4. pages \cap used_map = {} /\ \A u \in Caller : u # t => Reserved(u) \cap pages = {}
  BY <1>1, <1>2 DEF ReservedOK, ReservedFor
<1>5. \A u \in Caller : \A a \in Owned(u) : Kept(a)
  BY <1>3, KeptMarked DEF OwnedOK
<1>6. /\ \A q : (IsBig(q)' <=> IsBig(q)) /\ (IsArena(q)' <=> IsArena(q)) /\ FreeIn(q)' = FreeIn(q)
      /\ \A a : Run(a)' = Run(a)
  BY <1>3 DEF IsBig, IsArena, FreeIn, Run
<1>7. used_map' \subseteq Page
  BY <1>2, <1>3, HeapTypes
<1>8. PagesOK'
  BY <1>3, <1>6 DEF PagesOK
<1>9. FreeOK'
  BY <1>3, <1>6 DEF FreeOK
<1>10. CASE call[t].kind = "page"
  <2>1. Return(t, Start(p), PageSize) /\ call[t].cnt = 1 /\ pages = {p}
    <3>1. call[t].cnt = 1
      BY <1>2, <1>10 DEF CallShape
    <3> QED
      BY <1>2, <1>3, <1>10, <3>1 DEF RunFrom
  <2> PICK x \in Nat : x = Start(p)
    BY <1>2, StartIsNat
  <2>2. PageSize \in Nat /\ PageOf(x) = p /\ x % PageSize = 0
    <3>1. PageSize \in Nat /\ 0 < PageSize /\ x = x + 0 /\ 0 \in Nat
      BY HeapAssumption
    <3>2. PageOf(Start(p) + 0) = p /\ (Start(p) + 0) % PageSize = 0
      BY <1>2, <3>1, PageOfAt
    <3> QED
      BY <3>1, <3>2
  <2>3. \A u \in Caller : x \notin Owned(u)
    BY <1>2, <2>2
  <2>4. Granted(x)' /\ PageSize = SizeAt(x)' /\ Run(x)' = {p}
    <3>1. p \in used_map' /\ arena'[p] = None
      BY <1>2, <1>3
    <3>2. ~IsBig(p)'
      BY <3>1 DEF IsBig
    <3> QED
      BY <2>2, <3>1, <3>2 DEF Granted, SizeAt, Run
  <2>5. \A u \in Caller : \A a \in Owned(u) : Run(a) \cap Run(x)' = {}
    BY <1>2, <2>1, <2>4
  <2>6. CallsOK' /\ HeldOK' /\ OwnedOK' /\ BackOK'
    BY <1>1, <1>5, <2>1, <2>2, <2>3, <2>4, <2>5, ReturnInv
  <2>7. /\ Others(t)
        /\ call' \in [Caller -> CallRecord \cup {None}] /\ held' \in [Caller -> SUBSET Region]
        /\ Owned(t)' = Owned(t) \cup {x}
        /\ ~Reserves(t)' /\ Reserved(t)' = {}
        /\ \A e \in Desc : ~HasDesc(t, e)'
        /\ ~Stands(t, "flip")'
        /\ ~NoCall(t)' /\ call'[t].kind = "block" => call'[t].pc = "push"
    BY <1>1, <2>1, <2>2, <2>3, ReturnFacts
  <2>8. HeapTypeOK'
    BY <1>3, <1>7, <2>7 DEF HeapTypeOK
  <2>9. LocksHeld'
    <3>1. \A e \in Desc : ~HasDesc(t, e)
      BY <1>10 DEF HasDesc
    <3> QED
      BY <1>1, <1>3, <2>7, <3>1, DropPoolFacts
  <2>10. FreshOK'
    <3>1. ~NoCall(t)' /\ call'[t].kind = "block" => FreshFor(t)'
      BY <2>7 DEF FreshFor
    <3> QED
      BY <1>3, <2>7, <3>1, FreshSame
  <2>11. \A u \in Caller : u # t => Owned(u)' = Owned(u) /\ Reserved(u)' = Reserved(u)
    BY <2>7, OthersSame DEF Others
  <2>12. ReservedOK'
    <3>1. \A u, v \in Caller : \A a \in Owned(v)' : u # t =>
            (a \in Owned(v) /\ Run(a)' = Run(a)) \/ Run(a)' \cap Reserved(u) = {}
      BY <1>4, <1>6, <2>1, <2>4, <2>7, <2>11
    <3>2. \A u \in Caller : u # t /\ Reserves(u) => \A q \in Reserved(u) :
            /\ q \in used_map' <=> q \in used_map
            /\ arena'[q] = arena[q]
            /\ FreeIn(q) = {} /\ IsArena(q) => FreeIn(q)' = {}
      BY <1>3, <1>4, <1>6
    <3> QED
      BY <2>7, <3>1, <3>2, ReservedStep
  <2>13. UsedOK'
    <3> SUFFICES ASSUME NEW q \in used_map', ~IsArena(q)
                 PROVE  \E u \in Caller : q \in Reserved(u)' \/ \E a \in Owned(u)' : q \in Run(a)'
      BY <1>6 DEF UsedOK
    <3>1. CASE q \in pages
      BY <2>1, <2>4, <2>7, <3>1
    <3>2. CASE q \notin pages
      <4>1. PICK u \in Caller : q \in Reserved(u) \/ \E a \in Owned(u) : q \in Run(a)
        BY <1>3, <3>2 DEF UsedOK
      <4> QED
        BY <1>6, <2>7, <2>11, <3>2, <4>1
    <3> QED
      BY <3>1, <3>2
  <2>14. CountsOK'
    <3> SUFFICES ASSUME NEW q \in Page, IsArena(q)', ~GoneSoon(q)'
                 PROVE  CountsFor(q)'
      BY DEF CountsOK
    <3>1. \A b : (\E u \in Caller : b \in Owned(u)) => \E u \in Caller : b \in Owned(u)'
      BY <2>7, <2>11
    <3>2. ~Stands(t, "clear") /\ ~Stands(t, "pop")
      BY <1>1 DEF Stands
    <3> QED
      BY <1>3, <1>6, <2>7, <3>1, <3>2, CountsSame
  <2> QED
    BY <1>8, <1>9, <2>6, <2>8, <2>9, <2>10, <2>12, <2>13, <2>14
<1>11. CASE call[t].kind # "page"
  <2>1. Go(t, "arena") /\ held' = held
    BY <1>3, <1>11
  <2>2. /\ call' \in [Caller -> CallRecord \cup {None}]
        /\ call'[t] \in CallRecord /\ ~NoCall(t)' /\ call'[t].pc = "arena"
        /\ call'[t].kind = call[t].kind /\ call'[t].desc = call[t].desc
        /\ call'[t].cnt = call[t].cnt /\ call'[t].page = p
        /\ call'[t].old = call[t].old
        /\ \A u \in Caller : u # t => call'[u] = call[u]
    BY <1>1, <2>1, GoFacts
  <2>3. Others(t)
    BY <2>1, <2>2 DEF Others
  <2>4. ~GivesBack(t)' /\ Reserves(t)' /\ ~Stands(t, "pop")' /\ Reserved(t)' = pages
    BY <1>2, <2>2 DEF GivesBack, Reserves, Stands, Reserved
  <2>5. Back(t)' = {} /\ Back(t) = {} /\ Owned(t)' = Owned(t)
    BY <1>2, <2>1, <2>4 DEF Back, Owned
  <2>6. \A u \in Caller : Owned(u)' = Owned(u) /\ Reserved(u)' = Reserved(u) /\ Back(u)' = Back(u)
    BY <2>3, <2>4, <2>5, OthersSame DEF Others
  <2>7. HeapTypeOK'
    BY <1>3, <1>7, <2>1, <2>2 DEF HeapTypeOK
  <2>8. LocksHeld'
    <3>1. \A e \in Desc : HasDesc(t, e)' <=> HasDesc(t, e)
      BY <1>1, <2>2 DEF HasDesc
    <3>2. ~Stands(t, "flip")'
      BY <2>2 DEF Stands
    <3> QED
      BY <1>1, <1>3, <2>3, <3>1, <3>2, DropPoolFacts
  <2>9. CallsOK'
    <3>1. CallShape(call'[t])
      BY <1>1, <1>2, <1>11, <2>2 DEF CallShape
    <3>2. call[t].old # 0 => \E r \in held[t] : r.addr = call[t].old /\ ~IsPage(r)
      BY <1>1 DEF CallsOK
    <3> QED
      BY <2>1, <2>2, <2>3, <3>1, <3>2, CallsSame
  <2>10. HeldOK'
    <3>1. \A u \in Caller : \A r \in held[u] : r.addr \notin Back(u)
      BY DEF HeldOK
    <3>2. \A a : SizeAt(a)' = SizeAt(a)
      BY <1>3 DEF SizeAt
    <3>3. HeldOK /\ \A u \in Caller : \A r \in held'[u] :
            r \in held[u] /\ SizeAt(r.addr)' = SizeAt(r.addr) /\ r.addr \notin Back(u)'
      BY <2>1, <2>6, <3>1, <3>2
    <3> HIDE DEF HeapInv
    <3> QED
      BY <3>3, HeldSame
  <2>11. FreshOK'
    <3>1. call'[t].kind = "block" => FreshFor(t)'
      <4>1. call[t].kind = "block" => free_list[call[t].desc] = <<>>
        BY <1>1 DEF FreshOK, FreshFor
      <4> QED
        BY <1>3, <2>2, <4>1 DEF FreshFor
    <3> QED
      BY <1>3, <2>3, <3>1, FreshSame
  <2>12. OwnedOK'
    <3>1. OwnedOK /\ Owned(t)' \subseteq Owned(t) /\ \A u \in Caller : \A a \in Owned(u)' : Kept(a)
      BY <1>5, <2>6
    <3> HIDE DEF HeapInv
    <3> QED
      BY <2>3, <3>1, OwnedLess
  <2>13. BackOK'
    BY <1>5, <2>3, <2>4, BackSame
  <2>14. ReservedOK'
    <3>1. \A u \in Caller : u # t /\ Reserves(u) => \A q \in Reserved(u) :
            /\ q \in used_map' <=> q \in used_map
            /\ arena'[q] = arena[q]
            /\ FreeIn(q) = {} /\ IsArena(q) => FreeIn(q)' = {}
      BY <1>3, <1>4, <1>6
    <3>2. ReservedFor(t)'
      BY <1>2, <1>3, <2>2, <2>4 DEF ReservedFor
    <3>3. \A u \in Caller : \A a \in Owned(u)' : Run(a)' \cap Reserved(t)' = {}
      BY <1>2, <1>6, <2>4, <2>6
    <3> QED
      BY <1>4, <1>6, <2>3, <2>4, <2>6, <3>1, <3>2, <3>3, ReservedStep
  <2>15. UsedOK'
    <3> SUFFICES ASSUME NEW q \in used_map', ~IsArena(q)
                 PROVE  \E u \in Caller : q \in Reserved(u)' \/ \E a \in Owned(u)' : q \in Run(a)'
      BY <1>6 DEF UsedOK
    <3>1. CASE q \in pages
      BY <2>4, <3>1
    <3>2. CASE q \notin pages
      <4>1. PICK u \in Caller : q \in Reserved(u) \/ \E a \in Owned(u) : q \in Run(a)
        BY <1>3, <3>2 DEF UsedOK
      <4> QED
        BY <1>6, <2>6, <4>1
    <3> QED
      BY <3>1, <3>2
  <2>16. CountsOK'
    <3> SUFFICES ASSUME NEW q \in Page, IsArena(q)', ~GoneSoon(q)'
                 PROVE  CountsFor(q)'
      BY DEF CountsOK
    <3>1. \A b : (\E u \in Caller : b \in Owned(u)) => \E u \in Caller : b \in Owned(u)'
      BY <2>6
    <3>2. ~Stands(t, "clear") /\ ~Stands(t, "pop")
      BY <1>1 DEF Stands
    <3> QED
      BY <1>3, <1>6, <2>3, <3>1, <3>2, CountsSame
  <2> QED
    BY <1>8, <1>9, <2>7, <2>8, <2>9, <2>10, <2>11, <2>12, <2>13, <2>14, <2>15, <2>16
<1> QED
  BY <1>10, <1>11

\* What is owned does not change when its page does not.
LEMMA KeptPage ==
  ASSUME NEW a, Granted(a), PageOf(a) \in used_map', arena'[PageOf(a)] = arena[PageOf(a)],
         IsArena(PageOf(a)) => a \notin Range(free_list'[arena[PageOf(a)].desc])
  PROVE  Kept(a)
<1> PICK p : p = PageOf(a)
  OBVIOUS
<1>1. (IsBig(p)' <=> IsBig(p)) /\ (IsArena(p)' <=> IsArena(p))
  BY DEF IsBig, IsArena
<1>2. Run(a)' = Run(a)
  BY <1>1 DEF Run
<1>3. SizeAt(a)' = SizeAt(a)
  BY DEF SizeAt
<1>4. Granted(a)'
  BY <1>1 DEF Granted, IsArena
<1> QED
  BY <1>1, <1>2, <1>3, <1>4 DEF Kept

\* A big block has its owner.
LEMMA BigOwned ==
  ASSUME HeapInv, NEW q \in Page, IsBig(q)
  PROVE  \E u \in Caller : \E a \in Owned(u) : PageOf(a) = q /\ Run(a) = RunFrom(q, arena[q].free_cnt)
<1> USE DEF HeapInv
<1>1. q \in used_map /\ ~IsArena(q)
  BY DEF PagesOK, IsBig, IsArena
<1>2. \A u \in Caller : q \notin Reserved(u)
  <2> SUFFICES ASSUME NEW u \in Caller, q \in Reserved(u) PROVE FALSE
    OBVIOUS
  <2>1. Reserves(u)
    BY DEF Reserved
  <2>2. ReservedFor(u)
    BY <2>1 DEF ReservedOK
  <2>3. CASE call[u].pc \in {"flip", "arena"}
    BY <1>1, <2>2, <2>3 DEF ReservedFor, IsBig
  <2>4. CASE call[u].pc = "clear"
    <3>1. Reserved(u) = {call[u].page}
      BY <2>1, <2>4, ReservedUsed DEF Stands
    <3> QED
      BY <1>1, <2>2, <2>4, <3>1 DEF ReservedFor
  <2> QED
    BY <2>1, <2>3, <2>4 DEF Reserves
<1>3. PICK u \in Caller : \E a \in Owned(u) : q \in Run(a)
  BY <1>1, <1>2 DEF UsedOK
<1>4. PICK a \in Owned(u) : q \in Run(a)
  BY <1>3
<1> PICK p : p = PageOf(a)
  OBVIOUS
<1>5. p \in Page
  BY OwnsFacts, GrantedFacts
<1>6. q = p
  <2>1. CASE IsBig(p)
    <3>1. Run(a) = RunFrom(p, arena[p].free_cnt)
      BY <2>1 DEF Run
    <3>2. q # p => arena[q] = None
      BY <1>4, <1>5, <2>1, <3>1 DEF PagesOK
    <3> QED
      BY <3>2 DEF IsBig
  <2>2. CASE ~IsBig(p)
    BY <1>4, <2>2 DEF Run
  <2> QED
    BY <2>1, <2>2
<1>7. Run(a) = RunFrom(q, arena[q].free_cnt)
  BY <1>6 DEF Run
<1> QED
  BY <1>6, <1>7

LEMMA BigArenaInv ==
  ASSUME HeapInv, NEW t \in Caller, BigArena(t)
  PROVE  HeapInv'
<1> USE DEF HeapInv
<1> PICK p : p = call[t].page
  OBVIOUS
<1> PICK cnt : cnt = call[t].cnt
  OBVIOUS
<1> PICK pages : pages = Reserved(t)
  OBVIOUS
<1>1. Stands(t, "arena") /\ ~NoCall(t) /\ call[t].pc = "arena" /\ call[t].kind = "big"
  BY DEF BigArena, Stands
<1>2. /\ call[t] \in CallRecord /\ CallShape(call[t]) /\ Reserves(t)
      /\ p \in Page /\ p \in Nat /\ cnt \in Nat /\ cnt >= 1
      /\ p \in pages /\ pages = RunFrom(p, cnt) /\ pages \subseteq Page
      /\ \A q \in pages : arena[q] = None
      /\ \A u \in Caller : \A a \in Owned(u) : Run(a) \cap pages = {} /\ PageOf(a) \notin pages
      /\ Owned(t) = {r.addr : r \in held[t]} /\ ~GivesBack(t)
  BY <1>1, ReservesFacts
<1> DEFINE h == [desc |-> 0, free_cnt |-> cnt]
<1>3. /\ arena' = [arena EXCEPT ![p] = h]
      /\ Return(t, Start(p) + Header, cnt * PageSize - Header)
      /\ used_map' = used_map /\ free_list' = free_list
      /\ desc_lock' = desc_lock /\ pool_lock' = pool_lock
  BY DEF BigArena, lockVars
<1>4. arena \in [Page -> ArenaRecord \cup {None}]
  BY DEF HeapTypeOK
<1>5. h \in ArenaRecord /\ h # None /\ h.desc = 0 /\ h.free_cnt = cnt
  <2>1. h \in ArenaRecord
    BY <1>2 DEF ArenaRecord
  <2> QED
    BY <2>1, NoneIsNothing
<1> HIDE DEF h
<1>6. /\ arena'[p] = h /\ \A q \in Page : q # p => arena'[q] = arena[q]
      /\ arena' \in [Page -> ArenaRecord \cup {None}]
  BY <1>2, <1>3, <1>4, <1>5
<1>7. /\ IsBig(p)' /\ ~IsArena(p)' /\ ~IsBig(p) /\ ~IsArena(p)
      /\ \A q \in Page : q # p => (IsBig(q)' <=> IsBig(q)) /\ (IsArena(q)' <=> IsArena(q)) /\ FreeIn(q)' = FreeIn(q)
  BY <1>2, <1>3, <1>5, <1>6 DEF IsBig, IsArena, FreeIn
<1>8. pages \subseteq used_map /\ \A u \in Caller : u # t => Reserved(u) \cap pages = {}
  BY <1>1, <1>2 DEF ReservedOK, ReservedFor
<1>9. \A u \in Caller : \A a \in Owned(u) : Kept(a)
  <2> SUFFICES ASSUME NEW u \in Caller, NEW a \in Owned(u) PROVE Kept(a)
    OBVIOUS
  <2>1. a \in Nat /\ Granted(a)
    BY OwnsFacts
  <2>2. PageOf(a) \in used_map /\ PageOf(a) \in Page
    BY <2>1, GrantedFacts
  <2>3. PageOf(a) # p
    BY <1>2
  <2>4. arena'[PageOf(a)] = arena[PageOf(a)]
    BY <1>6, <2>2, <2>3
  <2>5. IsArena(PageOf(a)) => a \notin Range(free_list'[arena[PageOf(a)].desc])
    BY <1>3, <2>1 DEF Granted, IsArena, IsBig
  <2> QED
    BY <1>3, <2>1, <2>2, <2>4, <2>5, KeptPage
<1> PICK x : x = Start(p) + Header
  OBVIOUS
<1> PICK size : size = cnt * PageSize - Header
  OBVIOUS
<1>10. /\ PageSize \in Nat /\ Header \in Nat \ {0} /\ Header < PageSize
       /\ x \in Nat /\ PageOf(x) = p /\ x % PageSize = Header
  <2>1. PageSize \in Nat \ {0} /\ Header \in Nat \ {0} /\ Header < PageSize
    BY HeapAssumption
  <2> QED
    BY <1>2, <2>1, PageOfAt
<1>11. size \in Nat
  <2>1. 1 * PageSize <= cnt * PageSize /\ cnt * PageSize \in Nat
    BY <1>2, <1>10
  <2> QED
    BY <1>10, <2>1
<1>12. \A u \in Caller : x \notin Owned(u)
  BY <1>2, <1>10
<1>13. Granted(x)' /\ size = SizeAt(x)' /\ Run(x)' = pages
  <2>1. p \in used_map' /\ arena'[p] = h /\ IsBig(p)'
    BY <1>2, <1>3, <1>6, <1>7, <1>8
  <2>2. Granted(x)'
    BY <1>10, <2>1 DEF Granted
  <2>3. Run(x)' = pages
    BY <1>2, <1>5, <1>10, <2>1 DEF Run
  <2>4. size = SizeAt(x)'
    BY <1>5, <1>10, <2>1 DEF SizeAt
  <2> QED
    BY <2>2, <2>3, <2>4
<1>14. Return(t, x, size)
  BY <1>3
<1>15. CallsOK' /\ HeldOK' /\ OwnedOK' /\ BackOK'
  <2>1. \A u \in Caller : \A a \in Owned(u) : Run(a) \cap Run(x)' = {}
    BY <1>2, <1>13
  <2> QED
    BY <1>1, <1>9, <1>10, <1>11, <1>12, <1>13, <1>14, <2>1, ReturnInv
<1>16. /\ Others(t)
       /\ call' \in [Caller -> CallRecord \cup {None}] /\ held' \in [Caller -> SUBSET Region]
       /\ Owned(t)' = Owned(t) \cup {x}
       /\ ~Reserves(t)' /\ Reserved(t)' = {}
       /\ \A e \in Desc : ~HasDesc(t, e)'
       /\ ~Stands(t, "flip")'
       /\ ~NoCall(t)' /\ call'[t].kind = "block" => call'[t].pc = "push"
  BY <1>1, <1>10, <1>11, <1>12, <1>14, ReturnFacts
<1>17. HeapTypeOK'
  BY <1>3, <1>6, <1>16 DEF HeapTypeOK
<1>18. LocksHeld'
  <2>1. \A e \in Desc : ~HasDesc(t, e)
    BY <1>1 DEF HasDesc
  <2>2. ~Stands(t, "flip")
    BY <1>1 DEF Stands
  <2>3. UNCHANGED lockVars
    BY <1>3 DEF lockVars
  <2> QED
    BY <1>16, <2>1, <2>2, <2>3, LocksSame
<1>19. FreshOK'
  <2>1. ~NoCall(t)' /\ call'[t].kind = "block" => FreshFor(t)'
    BY <1>16 DEF FreshFor
  <2> QED
    BY <1>3, <1>16, <2>1, FreshSame
<1>20. \A u \in Caller : u # t => Owned(u)' = Owned(u) /\ Reserved(u)' = Reserved(u)
  BY <1>16, OthersSame DEF Others
<1>21. PagesOK'
  <2>1. \A q \in Page \ used_map' : arena'[q] = None
    BY <1>2, <1>3, <1>6, <1>8 DEF PagesOK
  <2>2. ASSUME NEW q \in Page, IsBig(q)'
        PROVE  /\ arena'[q].free_cnt >= 1 /\ RunFrom(q, arena'[q].free_cnt) \subseteq used_map'
               /\ \A r \in RunFrom(q, arena'[q].free_cnt) : r # q => arena'[r] = None
    <3>1. CASE q = p
      BY <1>2, <1>3, <1>5, <1>6, <1>8, <3>1
    <3>2. CASE q # p
      <4>1. IsBig(q) /\ arena'[q] = arena[q]
        BY <1>6, <1>7, <2>2, <3>2
      <4>2. /\ arena[q].free_cnt >= 1 /\ RunFrom(q, arena[q].free_cnt) \subseteq used_map
            /\ \A r \in RunFrom(q, arena[q].free_cnt) : r # q => arena[r] = None
        BY <4>1 DEF PagesOK
      <4>3. p \notin RunFrom(q, arena[q].free_cnt)
        <5>1. PICK u \in Caller : \E a \in Owned(u) : Run(a) = RunFrom(q, arena[q].free_cnt)
          BY <4>1, BigOwned
        <5> QED
          BY <1>2, <5>1
      <4>4. \A r \in RunFrom(q, arena[q].free_cnt) : r \in Page /\ r # p
        BY <4>2, <4>3, HeapTypes
      <4> QED
        BY <1>3, <1>6, <4>1, <4>2, <4>4
    <3> QED
      BY <3>1, <3>2
  <2> QED
    BY <2>1, <2>2 DEF PagesOK
<1>22. ReservedOK'
  <2>1. \A u, v \in Caller : \A a \in Owned(v)' : u # t =>
          (a \in Owned(v) /\ Run(a)' = Run(a)) \/ Run(a)' \cap Reserved(u) = {}
    <3>1. \A v \in Caller : \A a \in Owned(v) : Run(a)' = Run(a)
      BY <1>9 DEF Kept
    <3> QED
      BY <1>8, <1>13, <1>16, <1>20, <3>1
  <2>2. \A u \in Caller : u # t /\ Reserves(u) => \A q \in Reserved(u) :
          /\ q \in used_map' <=> q \in used_map
          /\ arena'[q] = arena[q]
          /\ FreeIn(q) = {} /\ IsArena(q) => FreeIn(q)' = {}
    <3> SUFFICES ASSUME NEW u \in Caller, u # t, Reserves(u), NEW q \in Reserved(u)
                 PROVE  arena'[q] = arena[q] /\ FreeIn(q)' = FreeIn(q)
      BY <1>3
    <3>1. Reserved(u) \subseteq Page
      BY DEF ReservedOK, ReservedFor
    <3> QED
      BY <1>2, <1>6, <1>7, <1>8, <3>1
  <2> QED
    BY <1>16, <2>1, <2>2, ReservedStep
<1>23. FreeOK'
  <2> SUFFICES ASSUME NEW d \in Desc
               PROVE  /\ IsInjective(free_list'[d])
                      /\ \A b \in Range(free_list'[d]) :
                           /\ PageOf(b) \in Page /\ IsArena(PageOf(b))' /\ arena'[PageOf(b)].desc = d
                           /\ b \in Blocks(PageOf(b), d)
    BY DEF FreeOK
  <2>1. /\ IsInjective(free_list[d])
        /\ \A b \in Range(free_list[d]) :
             /\ PageOf(b) \in Page /\ IsArena(PageOf(b)) /\ arena[PageOf(b)].desc = d
             /\ b \in Blocks(PageOf(b), d)
    BY DEF FreeOK
  <2>2. \A b \in Range(free_list[d]) : PageOf(b) # p
    BY <1>7, <2>1
  <2> QED
    BY <1>3, <1>6, <1>7, <2>1, <2>2
<1>24. UsedOK'
  <2> SUFFICES ASSUME NEW q \in used_map', ~IsArena(q)'
               PROVE  \E u \in Caller : q \in Reserved(u)' \/ \E a \in Owned(u)' : q \in Run(a)'
    BY DEF UsedOK
  <2>1. q \in Page
    BY <1>3, HeapTypes
  <2>2. CASE q \in pages
    BY <1>13, <1>16, <2>2
  <2>3. CASE q \notin pages
    <3>1. PICK u \in Caller : q \in Reserved(u) \/ \E a \in Owned(u) : q \in Run(a)
      BY <1>2, <1>3, <1>7, <2>1, <2>3 DEF UsedOK
    <3>2. \A v \in Caller : \A a \in Owned(v) : Run(a)' = Run(a)
      BY <1>9 DEF Kept
    <3> QED
      BY <1>16, <1>20, <2>3, <3>1, <3>2
  <2> QED
    BY <2>2, <2>3
<1>25. CountsOK'
  <2> SUFFICES ASSUME NEW q \in Page, IsArena(q)', ~GoneSoon(q)'
               PROVE  CountsFor(q)'
    BY DEF CountsOK
  <2>1. \A b : (\E u \in Caller : b \in Owned(u)) => \E u \in Caller : b \in Owned(u)'
    BY <1>16, <1>20
  <2>2. ~Stands(t, "clear") /\ ~Stands(t, "pop")
    BY <1>1 DEF Stands
  <2>3. q # p /\ arena'[q] = arena[q] /\ FreeIn(q)' = FreeIn(q)
    BY <1>6, <1>7
  <2> QED
    BY <1>16, <2>1, <2>2, <2>3, CountsSame
<1> QED
  BY <1>15, <1>17, <1>18, <1>19, <1>21, <1>22, <1>23, <1>24, <1>25

\* Only one thread is in the code that a descriptor's lock protects.
LEMMA OneHolder ==
  ASSUME LocksHeld, NEW t \in Caller, NEW u \in Caller, u # t, NEW d \in Desc, HasDesc(t, d)
  PROVE  ~HasDesc(u, d)
BY DEF LocksHeld

LEMMA ArenaInv ==
  ASSUME HeapInv, NEW t \in Caller, Arena(t)
  PROVE  HeapInv'
<1> USE DEF HeapInv
<1> PICK p : p = call[t].page
  OBVIOUS
<1> PICK d : d = call[t].desc
  OBVIOUS
<1> PICK n : n = BlocksPerArena(d)
  OBVIOUS
<1>1. Stands(t, "arena") /\ ~NoCall(t) /\ call[t].pc = "arena" /\ call[t].kind = "block"
  BY DEF Arena, Stands
<1>2. /\ call[t] \in CallRecord /\ CallShape(call[t]) /\ Reserves(t)
      /\ p \in Page /\ p \in Nat /\ p \in Reserved(t)
      /\ Reserved(t) = RunFrom(p, call[t].cnt)
      /\ \A u \in Caller : \A a \in Owned(u) : Run(a) \cap Reserved(t) = {} /\ PageOf(a) \notin Reserved(t)
      /\ ~GivesBack(t) /\ arena[p] = None
  BY <1>1, ReservesFacts
<1>3. d \in Desc /\ Reserved(t) = {p}
  <2>1. d \in Desc /\ call[t].cnt = 1
    BY <1>1, <1>2 DEF CallShape
  <2> QED
    BY <1>2, <2>1 DEF RunFrom
<1>4. \A u \in Caller : \A a \in Owned(u) : p \notin Run(a) /\ PageOf(a) # p
  BY <1>2, <1>3
<1> DEFINE h == [desc |-> d, free_cnt |-> n]
           new == [k \in 1 .. n |-> ArenaToBlock(p, d, k - 1)]
<1>5. /\ arena' = [arena EXCEPT ![p] = h]
      /\ free_list' = [free_list EXCEPT ![d] = free_list[d] \o new]
      /\ Go(t, "pop") /\ used_map' = used_map /\ desc_lock' = desc_lock /\ pool_lock' = pool_lock
      /\ held' = held
  BY DEF Arena, lockVars
<1>6. arena \in [Page -> ArenaRecord \cup {None}] /\ free_list \in [Desc -> Seq(Nat)]
  BY DEF HeapTypeOK
<1>7. n \in Nat /\ n = Cardinality(Blocks(p, d)) /\ d # 0
  BY <1>2, <1>3, ArenaSize, BlockCount, DescFacts
<1>8. h \in ArenaRecord /\ h # None /\ h.desc = d /\ h.free_cnt = n
  <2>1. h \in ArenaRecord
    BY <1>3, <1>7 DEF ArenaRecord
  <2> QED
    BY <2>1, NoneIsNothing
<1> HIDE DEF h
<1>9. /\ new \in Seq(Nat) /\ Range(new) = Blocks(p, d) /\ IsInjective(new) /\ <<>> \o new = new
  BY <1>2, <1>3, ArenaList
<1> HIDE DEF new
<1>10. free_list[d] = <<>>
  BY <1>1 DEF FreshOK, FreshFor
<1>11. /\ arena'[p] = h /\ \A q \in Page : q # p => arena'[q] = arena[q]
       /\ arena' \in [Page -> ArenaRecord \cup {None}]
  BY <1>2, <1>5, <1>6, <1>8
<1>12. /\ free_list'[d] = new /\ \A e \in Desc : e # d => free_list'[e] = free_list[e]
       /\ free_list' \in [Desc -> Seq(Nat)]
  BY <1>3, <1>5, <1>6, <1>9, <1>10
<1>13. /\ IsArena(p)' /\ ~IsBig(p)' /\ ~IsBig(p) /\ ~IsArena(p)
       /\ \A q \in Page : q # p => (IsBig(q)' <=> IsBig(q)) /\ (IsArena(q)' <=> IsArena(q))
  BY <1>2, <1>7, <1>8, <1>11 DEF IsBig, IsArena
<1>14. \A q \in Page : \A b : q # p /\ b \in Blocks(p, d) => b \notin Blocks(q, d)
  BY <1>2, <1>3, BlockFacts, HeapTypes
<1>15. \A q \in Page : q # p /\ IsArena(q) => FreeIn(q)' = FreeIn(q)
  <2> SUFFICES ASSUME NEW q \in Page, q # p, IsArena(q)
               PROVE  FreeIn(q)' = FreeIn(q)
    OBVIOUS
  <2> PICK e \in Desc : e = arena[q].desc
    BY HeapTypes
  <2>1. FreeIn(q) = Blocks(q, e) \cap Range(free_list[e]) /\ FreeIn(q)' = Blocks(q, e) \cap Range(free_list'[e])
    BY <1>11 DEF FreeIn
  <2>2. CASE e = d
    <3>1. Range(free_list[e]) = {}
      BY <1>10, <2>2 DEF Range
    <3>2. Blocks(q, e) \cap Range(free_list'[e]) = {}
      BY <1>9, <1>12, <1>14, <2>2
    <3> QED
      BY <2>1, <3>1, <3>2
  <2>3. CASE e # d
    BY <1>12, <2>1, <2>3
  <2> QED
    BY <2>2, <2>3
<1>16. \A u \in Caller : \A a \in Owned(u) : Kept(a)
  <2> SUFFICES ASSUME NEW u \in Caller, NEW a \in Owned(u) PROVE Kept(a)
    OBVIOUS
  <2> PICK q : q = PageOf(a)
    OBVIOUS
  <2>1. a \in Nat /\ Granted(a)
    BY OwnsFacts
  <2>2. q \in used_map /\ q \in Page /\ q \in Nat
    BY <2>1, GrantedFacts, HeapTypes
  <2>3. q # p
    BY <1>4
  <2>4. arena'[q] = arena[q]
    BY <1>11, <2>2, <2>3
  <2>5. IsArena(q) => a \notin Range(free_list'[arena[q].desc])
    <3> SUFFICES ASSUME IsArena(q) PROVE a \notin Range(free_list'[arena[q].desc])
      OBVIOUS
    <3>1. arena[q].desc \in Desc /\ a \notin Range(free_list[arena[q].desc]) /\ a \in Blocks(q, arena[q].desc)
      BY <2>1, <2>2, HeapTypes DEF Granted, IsArena, IsBig
    <3> QED
      BY <1>9, <1>12, <1>14, <2>2, <2>3, <3>1
  <2> QED
    BY <1>5, <2>1, <2>2, <2>4, <2>5, KeptPage
<1>17. /\ call' \in [Caller -> CallRecord \cup {None}]
       /\ call'[t] \in CallRecord /\ ~NoCall(t)' /\ call'[t].pc = "pop"
       /\ call'[t].kind = "block" /\ call'[t].desc = d
       /\ call'[t].cnt = call[t].cnt /\ call'[t].page = p
       /\ call'[t].old = call[t].old
       /\ \A u \in Caller : u # t => call'[u] = call[u]
  BY <1>1, <1>5, GoFacts
<1>18. Others(t)
  BY <1>5, <1>17 DEF Others
<1>19. ~GivesBack(t)' /\ ~Reserves(t)' /\ Reserved(t)' = {}
  BY <1>17 DEF GivesBack, Reserves, Reserved
<1>20. Back(t)' = {} /\ Back(t) = {} /\ Owned(t)' = Owned(t)
  BY <1>2, <1>5, <1>19 DEF Back, Owned
<1>21. /\ \A u \in Caller : Owned(u)' = Owned(u) /\ Back(u)' = Back(u)
       /\ \A u \in Caller : u # t => Reserved(u)' = Reserved(u) /\ p \notin Reserved(u)
  <2>1. \A u \in Caller : u # t => p \notin Reserved(u)
    BY <1>2 DEF ReservedOK
  <2> QED
    BY <1>18, <1>20, <2>1, OthersSame DEF Others
<1>22. HeapTypeOK'
  BY <1>5, <1>11, <1>12, <1>17 DEF HeapTypeOK
<1>23. LocksHeld'
  <2>1. \A e \in Desc : HasDesc(t, e)' <=> HasDesc(t, e)
    BY <1>1, <1>17 DEF HasDesc
  <2>2. ~Stands(t, "flip") /\ ~Stands(t, "flip")'
    BY <1>1, <1>17 DEF Stands
  <2>3. UNCHANGED lockVars
    BY <1>5 DEF lockVars
  <2> QED
    BY <1>18, <2>1, <2>2, <2>3, LocksSame
<1>24. CallsOK'
  <2>1. CallShape(call'[t])
    BY <1>1, <1>2, <1>3, <1>17 DEF CallShape
  <2>2. call[t].old # 0 => \E r \in held[t] : r.addr = call[t].old /\ ~IsPage(r)
    BY <1>1 DEF CallsOK
  <2> QED
    BY <1>5, <1>17, <1>18, <2>1, <2>2, CallsSame
<1>25. HeldOK'
  BY <1>5, <1>16, <1>21, HeldKept
<1>26. FreshOK'
  <2>1. HasDesc(t, d)
    BY <1>1 DEF HasDesc
  <2>2. \A u \in Caller : \A e \in Desc : u # t /\ HasDesc(u, e) => free_list'[e] = free_list[e]
    BY <1>3, <1>12, <2>1, OneHolder
  <2>3. FreshFor(t)'
    <3>1. \A b \in Range(free_list'[d]) : PageOf(b) = p
      BY <1>2, <1>3, <1>9, <1>12, BlockFacts
    <3> QED
      BY <1>17, <3>1 DEF FreshFor
  <2> QED
    BY <1>18, <2>2, <2>3, FreshSame
<1>27. OwnedOK'
  <2>1. OwnedOK /\ Owned(t)' \subseteq Owned(t)
        /\ \A u \in Caller : \A a \in Owned(u)' : Kept(a)
    BY <1>16, <1>21
  <2> HIDE DEF HeapInv
  <2> QED
    BY <1>18, <2>1, OwnedLess
<1>28. BackOK'
  BY <1>16, <1>18, <1>19, BackSame
<1>29. PagesOK'
  <2>1. p \in used_map
    BY <1>1, <1>2 DEF ReservedOK, ReservedFor
  <2>2. \A q \in Page \ used_map' : arena'[q] = None
    BY <1>5, <1>11, <2>1 DEF PagesOK
  <2>3. ASSUME NEW q \in Page, IsBig(q)'
        PROVE  /\ arena'[q].free_cnt >= 1 /\ RunFrom(q, arena'[q].free_cnt) \subseteq used_map'
               /\ \A r \in RunFrom(q, arena'[q].free_cnt) : r # q => arena'[r] = None
    <3>1. q # p /\ IsBig(q) /\ arena'[q] = arena[q]
      BY <1>11, <1>13, <2>3
    <3>2. /\ arena[q].free_cnt >= 1 /\ RunFrom(q, arena[q].free_cnt) \subseteq used_map
          /\ \A r \in RunFrom(q, arena[q].free_cnt) : r # q => arena[r] = None
      BY <3>1 DEF PagesOK
    <3>3. PICK u \in Caller : \E a \in Owned(u) : Run(a) = RunFrom(q, arena[q].free_cnt)
      BY <3>1, BigOwned
    <3>4. \A r \in RunFrom(q, arena[q].free_cnt) : r \in Page /\ r # p
      BY <1>4, <3>2, <3>3, HeapTypes
    <3> QED
      BY <1>5, <1>11, <3>1, <3>2, <3>4
  <2> QED
    BY <2>2, <2>3 DEF PagesOK
<1>30. ReservedOK'
  <2>1. \A v \in Caller : \A a \in Owned(v)' : a \in Owned(v) /\ Run(a)' = Run(a)
    BY <1>16, <1>21 DEF Kept
  <2>2. \A u \in Caller : u # t /\ Reserves(u) => \A q \in Reserved(u) :
          /\ q \in used_map' <=> q \in used_map
          /\ arena'[q] = arena[q]
          /\ FreeIn(q) = {} /\ IsArena(q) => FreeIn(q)' = {}
    <3> SUFFICES ASSUME NEW u \in Caller, u # t, Reserves(u), NEW q \in Reserved(u)
                 PROVE  arena'[q] = arena[q] /\ (IsArena(q) => FreeIn(q)' = FreeIn(q))
      BY <1>5
    <3>1. Reserved(u) \subseteq Page
      BY DEF ReservedOK, ReservedFor
    <3> QED
      BY <1>11, <1>15, <1>21, <3>1
  <2> QED
    BY <1>18, <1>19, <2>1, <2>2, ReservedStep
<1>31. FreeOK'
  <2> SUFFICES ASSUME NEW e \in Desc
               PROVE  /\ IsInjective(free_list'[e])
                      /\ \A b \in Range(free_list'[e]) :
                           /\ PageOf(b) \in Page /\ IsArena(PageOf(b))' /\ arena'[PageOf(b)].desc = e
                           /\ b \in Blocks(PageOf(b), e)
    BY DEF FreeOK
  <2>1. CASE e = d
    <3>1. \A b \in Blocks(p, d) : PageOf(b) = p
      BY <1>2, <1>3, BlockFacts
    <3> QED
      BY <1>2, <1>8, <1>9, <1>11, <1>12, <1>13, <2>1, <3>1
  <2>2. CASE e # d
    <3>1. /\ IsInjective(free_list[e])
          /\ \A b \in Range(free_list[e]) :
               /\ PageOf(b) \in Page /\ IsArena(PageOf(b)) /\ arena[PageOf(b)].desc = e
               /\ b \in Blocks(PageOf(b), e)
      BY DEF FreeOK
    <3>2. \A b \in Range(free_list[e]) : PageOf(b) # p
      BY <1>13, <3>1
    <3> QED
      BY <1>11, <1>12, <1>13, <2>2, <3>1, <3>2
  <2> QED
    BY <2>1, <2>2
<1>32. UsedOK'
  <2> SUFFICES ASSUME NEW q \in used_map', ~IsArena(q)'
               PROVE  \E u \in Caller : q \in Reserved(u)' \/ \E a \in Owned(u)' : q \in Run(a)'
    BY DEF UsedOK
  <2>1. q \in Page /\ q # p
    BY <1>5, <1>13, HeapTypes
  <2>2. PICK u \in Caller : q \in Reserved(u) \/ \E a \in Owned(u) : q \in Run(a)
    BY <1>5, <1>13, <2>1 DEF UsedOK
  <2>3. \A v \in Caller : \A a \in Owned(v) : Run(a)' = Run(a)
    BY <1>16 DEF Kept
  <2>4. q \notin Reserved(t)
    BY <1>3, <2>1
  <2> QED
    BY <1>21, <2>2, <2>3, <2>4
<1>33. CountsOK'
  <2> SUFFICES ASSUME NEW q \in Page, IsArena(q)', ~GoneSoon(q)'
               PROVE  CountsFor(q)'
    BY DEF CountsOK
  <2>1. CASE q = p
    <3>1. FreeIn(p)' = Blocks(p, d) /\ arena'[p].desc = d /\ arena'[p].free_cnt = n
      BY <1>8, <1>9, <1>11, <1>12 DEF FreeIn
    <3>2. Stands(t, "pop")' /\ call'[t].page = p /\ call'[t].desc = arena'[p].desc
      BY <1>17, <3>1 DEF Stands
    <3> QED
      BY <1>7, <2>1, <3>1, <3>2 DEF CountsFor
  <2>2. CASE q # p
    <3>1. \A b : (\E u \in Caller : b \in Owned(u)) => \E u \in Caller : b \in Owned(u)'
      BY <1>21
    <3>2. ~Stands(t, "clear") /\ ~Stands(t, "pop")
      BY <1>1 DEF Stands
    <3>3. arena'[q] = arena[q] /\ FreeIn(q)' = FreeIn(q)
      BY <1>11, <1>13, <1>15, <2>2
    <3> QED
      BY <1>18, <3>1, <3>2, <3>3, CountsSame
  <2> QED
    BY <2>1, <2>2
<1> QED
  BY <1>22, <1>23, <1>24, <1>25, <1>26, <1>27, <1>28, <1>29, <1>30, <1>31, <1>32, <1>33

-----------------------------------------------------------------------------
(* Blocks leave their lists, and come back *)

\* No run but that of its own blocks has an arena in it.
LEMMA ArenaAlone ==
  ASSUME HeapInv, NEW p \in Page, IsArena(p), NEW u \in Caller, NEW a \in Owned(u), PageOf(a) # p
  PROVE  p \notin Run(a)
<1> USE DEF HeapInv
<1> PICK q : q = PageOf(a)
  OBVIOUS
<1>1. q \in Page
  BY OwnsFacts, GrantedFacts
<1>2. CASE IsBig(q)
  <2>1. Run(a) = RunFrom(q, arena[q].free_cnt)
    BY <1>2 DEF Run
  <2>2. \A r \in RunFrom(q, arena[q].free_cnt) : r # q => arena[r] = None
    BY <1>1, <1>2 DEF PagesOK
  <2> QED
    BY <2>1, <2>2 DEF IsArena
<1>3. CASE ~IsBig(q)
  BY <1>3 DEF Run
<1> QED
  BY <1>2, <1>3

\* An arena is nobody's but his who has emptied it.
LEMMA ArenaReserved ==
  ASSUME HeapInv, NEW p \in Page, IsArena(p), NEW u \in Caller, p \in Reserved(u)
  PROVE  Stands(u, "clear") /\ call[u].kind = "block" /\ call[u].page = p /\ HasDesc(u, arena[p].desc)
<1> USE DEF HeapInv
<1>1. Reserves(u)
  BY DEF Reserved
<1>2. ReservedFor(u)
  BY <1>1 DEF ReservedOK
<1>3. p \in used_map
  BY DEF PagesOK, IsArena
<1>4. call[u].pc = "clear" /\ call[u].kind = "block" /\ ~NoCall(u)
  BY <1>1, <1>2, <1>3 DEF Reserves, ReservedFor, IsArena
<1>5. Reserved(u) = {call[u].page}
  BY <1>1, <1>4, ReservedUsed DEF Stands
<1>6. call[u].page = p /\ call[u].desc = arena[p].desc
  BY <1>2, <1>4, <1>5 DEF ReservedFor
<1> QED
  BY <1>4, <1>6 DEF Stands, HasDesc

\* An arena keeps its size whatever its count.
LEMMA KeptArena ==
  ASSUME NEW a, Granted(a), PageOf(a) \in used_map', IsArena(PageOf(a)), IsArena(PageOf(a))',
         arena'[PageOf(a)].desc = arena[PageOf(a)].desc,
         a \notin Range(free_list'[arena[PageOf(a)].desc])
  PROVE  Kept(a)
<1> PICK p : p = PageOf(a)
  OBVIOUS
<1>1. ~IsBig(p)' /\ ~IsBig(p) /\ arena[p] # None /\ arena[p].desc # 0 /\ arena'[p].desc # 0
  BY DEF IsBig, IsArena
<1>2. Run(a)' = Run(a)
  BY <1>1 DEF Run
<1>3. SizeAt(a)' = SizeAt(a)
  BY <1>1 DEF SizeAt
<1>4. a \in Blocks(p, arena[p].desc)
  BY <1>1 DEF Granted
<1>5. Granted(a)'
  BY <1>4 DEF Granted
<1> QED
  BY <1>1, <1>2, <1>3, <1>5 DEF Kept

LEMMA PopInv ==
  ASSUME HeapInv, NEW t \in Caller, Pop(t)
  PROVE  HeapInv'
<1> USE DEF HeapInv
<1> PICK d : d = call[t].desc
  OBVIOUS
<1> PICK b : b = Head(free_list[d])
  OBVIOUS
<1> PICK p : p = PageOf(b)
  OBVIOUS
<1>1. Stands(t, "pop") /\ ~NoCall(t) /\ call[t].pc = "pop" /\ free_list[d] # <<>>
  BY DEF Pop, Stands
<1>2. call[t] \in CallRecord /\ CallShape(call[t])
  BY <1>1, CallTypes DEF CallsOK
<1>3. call[t].kind = "block" /\ d \in Desc /\ d \in Nat /\ d # 0
  BY <1>1, <1>2, DescFacts DEF CallShape
<1>4. HasDesc(t, d) /\ \A u \in Caller : u # t => ~HasDesc(u, d)
  <2>1. HasDesc(t, d)
    BY <1>1, <1>3 DEF HasDesc
  <2> QED
    BY <1>3, <2>1, OneHolder
<1>5. arena \in [Page -> ArenaRecord \cup {None}] /\ free_list \in [Desc -> Seq(Nat)]
  BY DEF HeapTypeOK
<1>6. /\ b \in Nat /\ b \in Range(free_list[d]) /\ Tail(free_list[d]) \in Seq(Nat)
      /\ IsInjective(Tail(free_list[d])) /\ Range(Tail(free_list[d])) = Range(free_list[d]) \ {b}
  <2>1. IsInjective(free_list[d])
    BY <1>3 DEF FreeOK
  <2> QED
    BY <1>1, <1>3, <1>5, <2>1, PoppedFront
<1>7. p \in Page /\ p \in Nat /\ IsArena(p) /\ arena[p].desc = d /\ b \in Blocks(p, d) /\ p \in used_map
  <2>1. p \in Page /\ IsArena(p) /\ arena[p].desc = d /\ b \in Blocks(p, d)
    BY <1>3, <1>6 DEF FreeOK
  <2> QED
    BY <2>1, HeapTypes DEF PagesOK, IsArena
<1>8. arena[p] \in ArenaRecord /\ arena[p] # None /\ arena[p].free_cnt \in Nat
  BY <1>7, HeapTypes DEF IsArena
<1>9. \A u \in Caller : p \notin Reserved(u)
  <2> SUFFICES ASSUME NEW u \in Caller, p \in Reserved(u) PROVE FALSE
    OBVIOUS
  <2>1. Stands(u, "clear") /\ HasDesc(u, d)
    BY <1>7, ArenaReserved
  <2>2. u # t
    BY <1>1, <2>1 DEF Stands
  <2> QED
    BY <1>4, <2>1, <2>2
<1>10. ~GoneSoon(p)
  <2> SUFFICES ASSUME NEW u \in Caller, Stands(u, "clear"), call[u].kind = "block", call[u].page = p
               PROVE  FALSE
    BY DEF GoneSoon
  <2>1. Reserves(u)
    BY DEF Reserves, Stands
  <2>2. Reserved(u) = {p}
    BY <2>1, ReservedUsed DEF Stands
  <2> QED
    BY <1>9, <2>2
<1>11. /\ IsFiniteSet(FreeIn(p)) /\ b \in FreeIn(p) /\ arena[p].free_cnt = Cardinality(FreeIn(p))
       /\ arena[p].free_cnt - 1 = Cardinality(FreeIn(p) \ {b}) /\ arena[p].free_cnt - 1 \in Nat
  <2>1. IsFiniteSet(FreeIn(p)) /\ b \in FreeIn(p)
    <3>1. IsFiniteSet(Blocks(p, d))
      BY <1>3, <1>7, BlockCount
    <3>2. FreeIn(p) = Blocks(p, d) \cap Range(free_list[d])
      BY <1>7 DEF FreeIn
    <3>3. FreeIn(p) \in SUBSET Blocks(p, d)
      BY <3>2
    <3>4. IsFiniteSet(FreeIn(p))
      BY <3>1, <3>3, FS_Subset
    <3> QED
      BY <1>6, <1>7, <3>2, <3>4
  <2>2. arena[p].free_cnt = Cardinality(FreeIn(p))
    BY <1>7, <1>10 DEF CountsOK, CountsFor
  <2>3. /\ IsFiniteSet(FreeIn(p) \ {b}) /\ Cardinality(FreeIn(p) \ {b}) = Cardinality(FreeIn(p)) - 1
    BY <2>1, FS_RemoveElement
  <2>4. Cardinality(FreeIn(p) \ {b}) \in Nat
    BY <2>3, FS_CardinalityType
  <2> QED
    BY <2>1, <2>2, <2>3, <2>4
<1> DEFINE h == [arena[p] EXCEPT !.free_cnt = @ - 1]
<1>12. /\ free_list' = [free_list EXCEPT ![d] = Tail(free_list[d])]
       /\ arena' = [arena EXCEPT ![p] = h]
       /\ DropDesc(d) /\ Return(t, b, d) /\ used_map' = used_map /\ pool_lock' = pool_lock
  BY DEF Pop
<1>13. h \in ArenaRecord /\ h # None /\ h.desc = d /\ h.free_cnt = arena[p].free_cnt - 1
  <2>1. h \in ArenaRecord /\ h.desc = d /\ h.free_cnt = arena[p].free_cnt - 1
    BY <1>7, <1>8, <1>11 DEF ArenaRecord
  <2> QED
    BY <2>1, NoneIsNothing
<1> HIDE DEF h
<1>14. /\ arena'[p] = h /\ \A q \in Page : q # p => arena'[q] = arena[q]
       /\ arena' \in [Page -> ArenaRecord \cup {None}]
  BY <1>5, <1>7, <1>12, <1>13
<1>15. /\ free_list'[d] = Tail(free_list[d]) /\ \A e \in Desc : e # d => free_list'[e] = free_list[e]
       /\ free_list' \in [Desc -> Seq(Nat)]
  BY <1>3, <1>5, <1>6, <1>12
<1>16. /\ IsArena(p)' /\ ~IsBig(p)' /\ ~IsBig(p)
       /\ \A q \in Page : q # p => (IsBig(q)' <=> IsBig(q)) /\ (IsArena(q)' <=> IsArena(q))
  BY <1>3, <1>7, <1>13, <1>14 DEF IsBig, IsArena
<1>17. \A q \in Page : q # p => b \notin Blocks(q, d)
  BY <1>3, BlockFacts, HeapTypes
<1>18. FreeIn(p)' = FreeIn(p) \ {b}
  BY <1>6, <1>7, <1>13, <1>14, <1>15 DEF FreeIn
<1>19. \A q \in Page : q # p /\ IsArena(q) => FreeIn(q)' = FreeIn(q)
  <2> SUFFICES ASSUME NEW q \in Page, q # p, IsArena(q)
               PROVE  FreeIn(q)' = FreeIn(q)
    OBVIOUS
  <2> PICK e \in Desc : e = arena[q].desc
    BY HeapTypes
  <2>1. FreeIn(q) = Blocks(q, e) \cap Range(free_list[e]) /\ FreeIn(q)' = Blocks(q, e) \cap Range(free_list'[e])
    BY <1>14 DEF FreeIn
  <2>2. CASE e = d
    BY <1>6, <1>15, <1>17, <2>1, <2>2
  <2>3. CASE e # d
    BY <1>15, <2>1, <2>3
  <2> QED
    BY <2>2, <2>3
<1>20. \A e \in Desc : Range(free_list'[e]) \subseteq Range(free_list[e])
  BY <1>6, <1>15
<1>21. \A u \in Caller : \A a \in Owned(u) : Kept(a) /\ a # b /\ (PageOf(a) # p => p \notin Run(a))
  <2> SUFFICES ASSUME NEW u \in Caller, NEW a \in Owned(u)
               PROVE  Kept(a) /\ a # b /\ (PageOf(a) # p => p \notin Run(a))
    OBVIOUS
  <2> PICK q : q = PageOf(a)
    OBVIOUS
  <2>1. a \in Nat /\ Granted(a)
    BY OwnsFacts
  <2>2. q \in used_map /\ q \in Page
    BY <2>1, GrantedFacts
  <2>3. IsArena(q) => arena[q].desc \in Desc /\ a \notin Range(free_list[arena[q].desc])
    BY <2>1, <2>2, HeapTypes DEF Granted, IsArena, IsBig
  <2>4. IsArena(q) => a \notin Range(free_list'[arena[q].desc])
    BY <1>20, <2>3
  <2>5. CASE q = p
    <3>1. Kept(a)
      BY <1>7, <1>12, <1>13, <1>14, <1>16, <2>1, <2>4, <2>5, KeptArena
    <3> QED
      BY <1>6, <1>7, <2>3, <2>5, <3>1
  <2>6. CASE q # p
    <3>1. Kept(a)
      BY <1>12, <1>14, <2>1, <2>2, <2>4, <2>6, KeptPage
    <3>2. p \notin Run(a)
      BY <1>7, <2>6, ArenaAlone
    <3> QED
      BY <2>6, <3>1, <3>2
  <2> QED
    BY <2>5, <2>6
<1>22. Granted(b)' /\ d = SizeAt(b)' /\ Run(b)' = {p}
  <2>1. b \notin Range(free_list'[d]) /\ b % PageSize # 0
    BY <1>3, <1>6, <1>7, <1>15, BlockFacts
  <2>2. Granted(b)'
    BY <1>7, <1>12, <1>13, <1>14, <1>16, <2>1 DEF Granted
  <2>3. d = SizeAt(b)'
    BY <1>3, <1>13, <1>14, <2>1 DEF SizeAt
  <2>4. Run(b)' = {p}
    BY <1>16 DEF Run
  <2> QED
    BY <2>2, <2>3, <2>4
<1>23. \A u \in Caller : b \notin Owned(u)
  BY <1>21
<1>24. CallsOK' /\ HeldOK' /\ OwnedOK' /\ BackOK'
  <2>1. \A u \in Caller : \A a \in Owned(u) :
          Run(a) \cap Run(b)' = {} \/ (PageOf(a) = PageOf(b) /\ IsArena(PageOf(b))')
    BY <1>16, <1>21, <1>22
  <2>2. Return(t, b, d) /\ \A u \in Caller : \A a \in Owned(u) : Kept(a)
    BY <1>12, <1>21
  <2> HIDE DEF HeapInv
  <2> QED
    BY <1>1, <1>3, <1>6, <1>22, <1>23, <2>1, <2>2, ReturnInv
<1>25. /\ Others(t)
       /\ call' \in [Caller -> CallRecord \cup {None}] /\ held' \in [Caller -> SUBSET Region]
       /\ Owned(t)' = Owned(t) \cup {b}
       /\ ~Reserves(t)' /\ Reserved(t)' = {}
       /\ \A e \in Desc : ~HasDesc(t, e)'
       /\ ~Stands(t, "flip")' /\ ~Stands(t, "pop")'
       /\ ~NoCall(t)' /\ call'[t].kind = "block" => call'[t].pc = "push"
  BY <1>1, <1>3, <1>6, <1>12, <1>23, ReturnFacts
<1>26. LocksHeld' /\ desc_lock' \in [Desc -> Caller \cup {None}]
  <2>1. /\ \A e \in Desc : HasDesc(t, e) => e = d
        /\ Stands(t, "flip")' <=> Stands(t, "flip")
    BY <1>1, <1>25 DEF HasDesc, Stands
  <2>2. HeapTypeOK /\ LocksHeld
    OBVIOUS
  <2> HIDE DEF HeapInv
  <2> QED
    BY <1>3, <1>4, <1>12, <1>25, <2>1, <2>2, DropDescFacts
<1>27. HeapTypeOK'
  BY <1>12, <1>14, <1>15, <1>25, <1>26 DEF HeapTypeOK
<1>28. FreshOK'
  <2>1. \A u \in Caller : \A e \in Desc : u # t /\ HasDesc(u, e) => free_list'[e] = free_list[e]
    BY <1>4, <1>15
  <2>2. ~NoCall(t)' /\ call'[t].kind = "block" => FreshFor(t)'
    BY <1>25 DEF FreshFor
  <2> QED
    BY <1>25, <2>1, <2>2, FreshSame
<1>29. \A u \in Caller : u # t => Owned(u)' = Owned(u) /\ Reserved(u)' = Reserved(u)
  BY <1>25, OthersSame DEF Others
<1>30. PagesOK'
  <2>1. \A q \in Page \ used_map' : arena'[q] = None
    BY <1>7, <1>12, <1>14 DEF PagesOK
  <2>2. ASSUME NEW q \in Page, IsBig(q)'
        PROVE  /\ arena'[q].free_cnt >= 1 /\ RunFrom(q, arena'[q].free_cnt) \subseteq used_map'
               /\ \A r \in RunFrom(q, arena'[q].free_cnt) : r # q => arena'[r] = None
    <3>1. q # p /\ IsBig(q) /\ arena'[q] = arena[q]
      BY <1>14, <1>16, <2>2
    <3>2. /\ arena[q].free_cnt >= 1 /\ RunFrom(q, arena[q].free_cnt) \subseteq used_map
          /\ \A r \in RunFrom(q, arena[q].free_cnt) : r # q => arena[r] = None
      BY <3>1 DEF PagesOK
    <3>3. \A r \in RunFrom(q, arena[q].free_cnt) : r \in Page /\ (r # q => r # p)
      BY <1>8, <3>2, HeapTypes
    <3>4. \A r \in RunFrom(q, arena[q].free_cnt) : r # q => arena'[r] = None
      BY <1>14, <3>2, <3>3
    <3>5. arena[q].free_cnt >= 1 /\ RunFrom(q, arena[q].free_cnt) \subseteq used_map'
      BY <1>12, <3>2
    <3> QED
      BY <3>1, <3>4, <3>5
  <2> QED
    BY <2>1, <2>2 DEF PagesOK
<1>31. ReservedOK'
  <2>1. \A u, v \in Caller : \A a \in Owned(v)' : u # t =>
          (a \in Owned(v) /\ Run(a)' = Run(a)) \/ Run(a)' \cap Reserved(u) = {}
    <3>1. \A v \in Caller : \A a \in Owned(v) : Run(a)' = Run(a)
      BY <1>21 DEF Kept
    <3>2. \A v \in Caller : \A a \in Owned(v)' : a \in Owned(v) \/ a = b
      BY <1>25, <1>29
    <3>3. \A u \in Caller : Run(b)' \cap Reserved(u) = {}
      BY <1>9, <1>22
    <3> QED
      BY <3>1, <3>2, <3>3
  <2>2. \A u \in Caller : u # t /\ Reserves(u) => \A q \in Reserved(u) :
          /\ q \in used_map' <=> q \in used_map
          /\ arena'[q] = arena[q]
          /\ FreeIn(q) = {} /\ IsArena(q) => FreeIn(q)' = {}
    <3> SUFFICES ASSUME NEW u \in Caller, u # t, Reserves(u), NEW q \in Reserved(u)
                 PROVE  arena'[q] = arena[q] /\ (IsArena(q) => FreeIn(q)' = FreeIn(q))
      BY <1>12
    <3>1. Reserved(u) \subseteq Page
      BY DEF ReservedOK, ReservedFor
    <3> QED
      BY <1>9, <1>14, <1>19, <3>1
  <2> QED
    BY <1>25, <2>1, <2>2, ReservedStep
<1>32. FreeOK'
  <2> SUFFICES ASSUME NEW e \in Desc
               PROVE  /\ IsInjective(free_list'[e])
                      /\ \A x \in Range(free_list'[e]) :
                           /\ PageOf(x) \in Page /\ IsArena(PageOf(x))' /\ arena'[PageOf(x)].desc = e
                           /\ x \in Blocks(PageOf(x), e)
    BY DEF FreeOK
  <2>1. /\ IsInjective(free_list[e])
        /\ \A x \in Range(free_list[e]) :
             /\ PageOf(x) \in Page /\ IsArena(PageOf(x)) /\ arena[PageOf(x)].desc = e
             /\ x \in Blocks(PageOf(x), e)
    BY DEF FreeOK
  <2>2. IsInjective(free_list'[e])
    BY <1>6, <1>15, <2>1
  <2>3. \A q \in Page : IsArena(q) => IsArena(q)' /\ arena'[q].desc = arena[q].desc
    BY <1>7, <1>13, <1>14, <1>16
  <2> QED
    BY <1>20, <2>1, <2>2, <2>3
<1>33. UsedOK'
  <2> SUFFICES ASSUME NEW q \in used_map', ~IsArena(q)'
               PROVE  \E u \in Caller : q \in Reserved(u)' \/ \E a \in Owned(u)' : q \in Run(a)'
    BY DEF UsedOK
  <2>1. q \in Page /\ q # p
    BY <1>12, <1>16, HeapTypes
  <2>2. PICK u \in Caller : q \in Reserved(u) \/ \E a \in Owned(u) : q \in Run(a)
    BY <1>12, <1>16, <2>1 DEF UsedOK
  <2>3. \A v \in Caller : \A a \in Owned(v) : Run(a)' = Run(a)
    BY <1>21 DEF Kept
  <2>4. Reserved(t) = {}
    BY <1>1 DEF Reserved, Reserves
  <2> QED
    BY <1>25, <1>29, <2>2, <2>3, <2>4
<1>34. CountsOK'
  <2> SUFFICES ASSUME NEW q \in Page, IsArena(q)', ~GoneSoon(q)'
               PROVE  CountsFor(q)'
    BY DEF CountsOK
  <2>1. \A x : (\E u \in Caller : x \in Owned(u)) => \E u \in Caller : x \in Owned(u)'
    BY <1>25, <1>29
  <2>2. CASE q = p
    <3>1. arena'[p].desc = d /\ arena'[p].free_cnt = Cardinality(FreeIn(p)')
      BY <1>11, <1>13, <1>14, <1>18
    <3>2. \A x \in Blocks(p, d) \ FreeIn(p) : \E u \in Caller : x \in Owned(u)
      BY <1>7, <1>10 DEF CountsOK, CountsFor
    <3>3. \A x \in Blocks(p, d) \ FreeIn(p)' : \E u \in Caller : x \in Owned(u)'
      BY <1>18, <1>25, <2>1, <3>2
    <3>4. Blocks(p, d) \ FreeIn(p)' # {}
      BY <1>7, <1>18
    <3> QED
      BY <2>2, <3>1, <3>3, <3>4 DEF CountsFor
  <2>3. CASE q # p
    <3>1. ~(Stands(t, "pop") /\ call[t].page = q /\ call[t].desc = arena[q].desc)
      <4>1. call[t].page # 0 => call[t].page = p
        BY <1>1, <1>3, <1>6 DEF FreshOK, FreshFor
      <4>2. q # 0
        BY HeapTypes
      <4> QED
        BY <2>3, <4>1, <4>2
    <3>2. ~Stands(t, "clear")
      BY <1>1 DEF Stands
    <3>3. arena'[q] = arena[q] /\ FreeIn(q)' = FreeIn(q)
      BY <1>14, <1>16, <1>19, <2>3
    <3> QED
      BY <1>25, <2>1, <3>1, <3>2, <3>3, CountsSame
  <2> QED
    BY <2>2, <2>3
<1> QED
  BY <1>24, <1>26, <1>27, <1>28, <1>30, <1>31, <1>32, <1>33, <1>34

\* A call that ends without a region.
LEMMA EndFacts ==
  ASSUME HeapTypeOK, NEW t \in Caller, call' = [call EXCEPT ![t] = None], held' = held
  PROVE  /\ Others(t) /\ NoCall(t)' /\ call' \in [Caller -> CallRecord \cup {None}]
         /\ ~GivesBack(t)' /\ Back(t)' = {} /\ Owned(t)' = {r.addr : r \in held[t]}
         /\ ~Reserves(t)' /\ Reserved(t)' = {}
         /\ \A e \in Desc : ~HasDesc(t, e)'
         /\ \A to : ~Stands(t, to)'
<1>1. call \in [Caller -> CallRecord \cup {None}]
  BY DEF HeapTypeOK
<1>2. call' \in [Caller -> CallRecord \cup {None}] /\ call'[t] = None
      /\ \A u \in Caller : u # t => call'[u] = call[u]
  BY <1>1
<1>3. NoCall(t)'
  BY <1>2 DEF NoCall
<1>4. ~GivesBack(t)' /\ ~Reserves(t)'
  BY <1>3 DEF GivesBack, Reserves
<1>5. Back(t)' = {} /\ Reserved(t)' = {}
  BY <1>4 DEF Back, Reserved
<1>6. Owned(t)' = {r.addr : r \in held[t]}
  BY <1>5 DEF Owned
<1>7. /\ \A e \in Desc : ~HasDesc(t, e)'
      /\ \A to : ~Stands(t, to)'
  BY <1>3 DEF HasDesc, Stands
<1> QED
  BY <1>2, <1>3, <1>4, <1>5, <1>6, <1>7 DEF Others

\* What free() gives back is no longer owned.
LEMMA GivenBack ==
  ASSUME HeldOK, NEW t \in Caller, GivesBack(t)
  PROVE  {r.addr : r \in held[t]} = Owned(t) \ {call[t].addr}
<1>1. Back(t) = {call[t].addr}
  BY DEF Back
<1>2. \A r \in held[t] : r.addr # call[t].addr
  BY <1>1 DEF HeldOK
<1> QED
  BY <1>1, <1>2 DEF Owned

LEMMA HeldLess ==
  ASSUME HeldOK, held' = held, \A u \in Caller : Back(u)' \subseteq Back(u),
         \A u \in Caller : \A r \in held[u] : Kept(r.addr)
  PROVE  HeldOK'
<1>1. \A u \in Caller : \A r \in held[u] : SizeAt(r.addr)' = SizeAt(r.addr)
  BY DEF Kept
<1>2. \A u \in Caller : \A r \in held[u] : r.addr \notin Back(u)
  BY DEF HeldOK
<1>3. \A u \in Caller : \A r \in held'[u] :
        r \in held[u] /\ SizeAt(r.addr)' = SizeAt(r.addr) /\ r.addr \notin Back(u)'
  BY <1>1, <1>2
<1> QED
  BY <1>3, HeldSame

\* An arena is not emptied while its descriptor is not locked.
LEMMA NotEmptied ==
  ASSUME HeapInv, NEW p \in Page, IsArena(p), \A u \in Caller : ~HasDesc(u, arena[p].desc)
  PROVE  ~GoneSoon(p) /\ \A u \in Caller : p \notin Reserved(u)
<1> USE DEF HeapInv
<1>1. \A u \in Caller : p \notin Reserved(u)
  BY ArenaReserved
<1>2. ~GoneSoon(p)
  <2> SUFFICES ASSUME NEW u \in Caller, Stands(u, "clear"), call[u].kind = "block", call[u].page = p
               PROVE  FALSE
    BY DEF GoneSoon
  <2>1. Reserves(u)
    BY DEF Reserves, Stands
  <2>2. Reserved(u) = {p}
    BY <2>1, ReservedUsed DEF Stands
  <2> QED
    BY <1>1, <2>2
<1> QED
  BY <1>1, <1>2

\* What a thread finds that comes with a small block.
LEMMA PushFacts ==
  ASSUME HeapInv, NEW t \in Caller, Stands(t, "push"), desc_lock[call[t].desc] = None
  PROVE  LET p == call[t].page
             d == call[t].desc
             x == call[t].addr
         IN  /\ call[t] \in CallRecord /\ CallShape(call[t]) /\ call[t].kind = "block"
             /\ d \in Desc /\ p \in Page /\ p \in Nat /\ x \in Nat /\ x \in Blocks(p, d)
             /\ GivesBack(t) /\ x \in Owned(t) /\ PageOf(x) = p /\ Run(x) = {p}
             /\ IsArena(p) /\ arena[p].desc = d /\ p \in used_map
             /\ x \notin Range(free_list[d])
             /\ \A u \in Caller : ~HasDesc(u, d) /\ p \notin Reserved(u)
             /\ ~GoneSoon(p) /\ ~Reserves(t) /\ Reserved(t) = {}
<1> USE DEF HeapInv
<1> PICK p : p = call[t].page
  OBVIOUS
<1> PICK d : d = call[t].desc
  OBVIOUS
<1> PICK x : x = call[t].addr
  OBVIOUS
<1>1. ~NoCall(t) /\ call[t].pc = "push"
  BY DEF Stands
<1>2. call[t] \in CallRecord /\ CallShape(call[t])
  BY <1>1, CallTypes DEF CallsOK
<1>3. call[t].kind = "block"
  BY <1>1, <1>2 DEF CallShape
<1>4. d \in Desc /\ p \in Page /\ p \in Nat /\ x \in Nat /\ x \in Blocks(p, d)
  BY <1>1, <1>2, <1>3, CallTypes, HeapTypes DEF CallShape
<1>5. GivesBack(t) /\ ~Reserves(t)
  BY <1>1 DEF GivesBack, Reserves
<1>6. x \in Owned(t) /\ PageOf(x) = p
  BY <1>5, BackPage
<1>7. IsArena(p) /\ arena[p].desc = d
  BY <1>3, <1>5 DEF BackOK, BackFor
<1>8. ~IsBig(p)
  BY <1>7 DEF IsArena, IsBig
<1>9. Granted(x) /\ p \in used_map
  BY <1>6, OwnsFacts DEF Granted
<1>10. x \notin Range(free_list[d])
  BY <1>6, <1>7, <1>8, <1>9 DEF Granted, IsArena
<1>11. Run(x) = {p}
  BY <1>6, <1>8 DEF Run
<1>12. \A u \in Caller : ~HasDesc(u, d)
  <2>1. \A u \in Caller : desc_lock[d] # u
    BY NoneIsNothing
  <2> QED
    BY <1>4, <2>1 DEF LocksHeld
<1>13. ~GoneSoon(p) /\ \A u \in Caller : p \notin Reserved(u)
  BY <1>4, <1>7, <1>12, NotEmptied
<1>14. Reserved(t) = {}
  BY <1>5 DEF Reserved
<1> QED
  BY <1>2, <1>3, <1>4, <1>5, <1>6, <1>7, <1>9, <1>10, <1>11, <1>12, <1>13, <1>14

LEMMA PushInv ==
  ASSUME HeapInv, NEW t \in Caller, Push(t)
  PROVE  HeapInv'
<1> USE DEF HeapInv
<1> PICK d : d = call[t].desc
  OBVIOUS
<1> PICK p : p = call[t].page
  OBVIOUS
<1> PICK x : x = call[t].addr
  OBVIOUS
<1>1. /\ Stands(t, "push") /\ desc_lock[d] = None /\ ~ArenaDone(p)
      /\ free_list' = [free_list EXCEPT ![d] = <<x>> \o free_list[d]]
      /\ arena' = [arena EXCEPT ![p] = [arena[p] EXCEPT !.free_cnt = @ + 1]]
      /\ call' = [call EXCEPT ![t] = None]
      /\ used_map' = used_map /\ held' = held /\ UNCHANGED lockVars
  BY DEF Push
<1>2. /\ d \in Desc /\ d # 0 /\ p \in Page /\ p \in Nat /\ x \in Nat /\ x \in Blocks(p, d)
      /\ GivesBack(t) /\ x \in Owned(t) /\ PageOf(x) = p /\ Run(x) = {p}
      /\ IsArena(p) /\ arena[p].desc = d /\ p \in used_map
      /\ x \notin Range(free_list[d])
      /\ \A u \in Caller : ~HasDesc(u, d) /\ p \notin Reserved(u)
      /\ ~GoneSoon(p) /\ ~Reserves(t) /\ Reserved(t) = {}
  BY <1>1, PushFacts, DescFacts
<1>3. /\ Others(t) /\ NoCall(t)' /\ call' \in [Caller -> CallRecord \cup {None}]
      /\ ~GivesBack(t)' /\ Back(t)' = {} /\ Owned(t)' = Owned(t) \ {x}
      /\ ~Reserves(t)' /\ Reserved(t)' = {}
      /\ \A e \in Desc : ~HasDesc(t, e)'
      /\ \A to : ~Stands(t, to)'
  BY <1>1, <1>2, EndFacts, GivenBack
<1>4. \A u \in Caller : u # t => Owned(u)' = Owned(u) /\ Reserved(u)' = Reserved(u) /\ x \notin Owned(u)
  BY <1>2, <1>3, OthersSame DEF Others, OwnedOK
<1>5. arena \in [Page -> ArenaRecord \cup {None}] /\ free_list \in [Desc -> Seq(Nat)]
  BY DEF HeapTypeOK
<1>6. /\ <<x>> \o free_list[d] \in Seq(Nat) /\ IsInjective(<<x>> \o free_list[d])
      /\ Range(<<x>> \o free_list[d]) = Range(free_list[d]) \cup {x}
  <2>1. IsInjective(free_list[d])
    BY <1>2 DEF FreeOK
  <2> QED
    BY <1>2, <1>5, <2>1, PushedFront
<1>7. arena[p] \in ArenaRecord /\ arena[p] # None /\ arena[p].free_cnt \in Nat
  BY <1>2, HeapTypes DEF IsArena
<1> DEFINE h == [arena[p] EXCEPT !.free_cnt = @ + 1]
<1>8. h \in ArenaRecord /\ h # None /\ h.desc = d /\ h.free_cnt = arena[p].free_cnt + 1
  <2>1. h \in ArenaRecord /\ h.desc = d /\ h.free_cnt = arena[p].free_cnt + 1
    BY <1>2, <1>7 DEF ArenaRecord
  <2> QED
    BY <2>1, NoneIsNothing
<1>9. arena' = [arena EXCEPT ![p] = h]
  BY <1>1
<1> HIDE DEF h
<1>10. /\ arena'[p] = h /\ \A q \in Page : q # p => arena'[q] = arena[q]
       /\ arena' \in [Page -> ArenaRecord \cup {None}]
  BY <1>2, <1>5, <1>8, <1>9
<1>11. /\ free_list'[d] = <<x>> \o free_list[d] /\ \A e \in Desc : e # d => free_list'[e] = free_list[e]
       /\ free_list' \in [Desc -> Seq(Nat)]
  BY <1>1, <1>2, <1>5, <1>6
<1>12. /\ IsArena(p)' /\ ~IsBig(p)' /\ ~IsBig(p)
       /\ \A q \in Page : q # p => (IsBig(q)' <=> IsBig(q)) /\ (IsArena(q)' <=> IsArena(q))
  BY <1>2, <1>8, <1>10 DEF IsBig, IsArena
<1>13. \A q \in Page : q # p => x \notin Blocks(q, d)
  BY <1>2, BlockFacts, HeapTypes
<1>14. FreeIn(p)' = FreeIn(p) \cup {x} /\ x \notin FreeIn(p)
  BY <1>2, <1>6, <1>8, <1>10, <1>11 DEF FreeIn
<1>15. \A q \in Page : q # p /\ IsArena(q) => FreeIn(q)' = FreeIn(q)
  <2> SUFFICES ASSUME NEW q \in Page, q # p, IsArena(q)
               PROVE  FreeIn(q)' = FreeIn(q)
    OBVIOUS
  <2> PICK e \in Desc : e = arena[q].desc
    BY HeapTypes
  <2>1. FreeIn(q) = Blocks(q, e) \cap Range(free_list[e]) /\ FreeIn(q)' = Blocks(q, e) \cap Range(free_list'[e])
    BY <1>10 DEF FreeIn
  <2>2. CASE e = d
    <3>1. Range(free_list'[e]) = Range(free_list[e]) \cup {x} /\ x \notin Blocks(q, e)
      BY <1>6, <1>11, <1>13, <2>2
    <3> QED
      BY <2>1, <3>1
  <2>3. CASE e # d
    BY <1>11, <2>1, <2>3
  <2> QED
    BY <2>2, <2>3
<1>16. arena'[p].free_cnt = Cardinality(FreeIn(p)') /\ Blocks(p, d) \ FreeIn(p)' # {}
  <2>1. IsFiniteSet(Blocks(p, d)) /\ Cardinality(Blocks(p, d)) = BlocksPerArena(d)
    BY <1>2, BlockCount
  <2>2. FreeIn(p) \in SUBSET Blocks(p, d)
    BY <1>2 DEF FreeIn
  <2>3. IsFiniteSet(FreeIn(p))
    BY <2>1, <2>2, FS_Subset
  <2>4. arena[p].free_cnt = Cardinality(FreeIn(p))
    BY <1>2 DEF CountsOK, CountsFor
  <2>5. Cardinality(FreeIn(p) \cup {x}) = Cardinality(FreeIn(p)) + 1
    BY <1>14, <2>3, FS_AddElement
  <2>6. arena'[p].free_cnt = Cardinality(FreeIn(p)')
    BY <1>8, <1>10, <1>14, <2>4, <2>5
  <2>7. Cardinality(FreeIn(p)') # Cardinality(Blocks(p, d))
    <3>1. ~(arena[p].free_cnt + 1 >= BlocksPerArena(d))
      BY <1>1, <1>2 DEF ArenaDone
    <3>2. BlocksPerArena(d) \in Nat
      BY <1>2, ArenaSize
    <3> QED
      BY <1>7, <1>14, <2>1, <2>4, <2>5, <3>1, <3>2
  <2>8. FreeIn(p)' \subseteq Blocks(p, d)
    BY <1>2, <1>14, <2>2
  <2> QED
    BY <2>6, <2>7, <2>8
<1>17. ASSUME NEW u \in Caller, NEW a \in Owned(u), a # x
       PROVE  Kept(a) /\ (PageOf(a) # p => p \notin Run(a))
  <2> PICK q : q = PageOf(a)
    OBVIOUS
  <2>1. a \in Nat /\ Granted(a)
    BY <1>17, OwnsFacts
  <2>2. q \in used_map /\ q \in Page
    BY <2>1, GrantedFacts
  <2>3. IsArena(q) => arena[q].desc \in Desc /\ a \notin Range(free_list[arena[q].desc])
    BY <2>1, <2>2, HeapTypes DEF Granted, IsArena, IsBig
  <2>4. IsArena(q) => a \notin Range(free_list'[arena[q].desc])
    BY <1>6, <1>11, <1>17, <2>3
  <2>5. CASE q = p
    BY <1>1, <1>2, <1>8, <1>10, <1>12, <2>1, <2>4, <2>5, KeptArena
  <2>6. CASE q # p
    <3>1. Kept(a)
      BY <1>1, <1>10, <2>1, <2>2, <2>4, <2>6, KeptPage
    <3>2. p \notin Run(a)
      BY <1>2, <1>17, <2>6, ArenaAlone
    <3> QED
      BY <2>6, <3>1, <3>2
  <2> QED
    BY <2>5, <2>6
<1>18. \A u \in Caller : \A a \in Owned(u)' : a \in Owned(u) /\ a # x /\ Kept(a)
  BY <1>3, <1>4, <1>17
<1>19. HeapTypeOK'
  BY <1>1, <1>3, <1>10, <1>11 DEF HeapTypeOK, lockVars
<1>20. LocksHeld'
  <2>1. \A e \in Desc : ~HasDesc(t, e)
    BY <1>1 DEF HasDesc, Stands
  <2>2. ~Stands(t, "flip")
    BY <1>1 DEF Stands
  <2> QED
    BY <1>1, <1>3, <2>1, <2>2, LocksSame
<1>21. CallsOK'
  BY <1>3, CallsSame
<1>22. HeldOK'
  <2>1. \A u \in Caller : Back(u)' \subseteq Back(u)
    BY <1>3, OthersSame DEF Others
  <2>2. \A u \in Caller : \A r \in held[u] : r.addr \in Owned(u)'
    BY <1>1 DEF Owned
  <2>3. \A u \in Caller : \A r \in held[u] : Kept(r.addr)
    BY <1>18, <2>2
  <2>4. HeldOK
    OBVIOUS
  <2> HIDE DEF HeapInv
  <2> QED
    BY <1>1, <2>1, <2>3, <2>4, HeldLess
<1>23. OwnedOK'
  <2>1. \A u \in Caller : \A a \in Owned(u)' : Kept(a)
    BY <1>18
  <2>2. OwnedOK /\ Owned(t)' \subseteq Owned(t)
    BY <1>3
  <2> HIDE DEF HeapInv
  <2> QED
    BY <1>3, <2>1, <2>2, OwnedLess
<1>24. BackOK'
  <2>1. \A u \in Caller : u # t => \A a \in Owned(u) : Kept(a)
    BY <1>4, <1>17
  <2> QED
    BY <1>3, <2>1, BackSame
<1>25. PagesOK'
  <2>1. \A q \in Page \ used_map' : arena'[q] = None
    BY <1>1, <1>2, <1>10 DEF PagesOK
  <2>2. ASSUME NEW q \in Page, IsBig(q)'
        PROVE  /\ arena'[q].free_cnt >= 1 /\ RunFrom(q, arena'[q].free_cnt) \subseteq used_map'
               /\ \A r \in RunFrom(q, arena'[q].free_cnt) : r # q => arena'[r] = None
    <3>1. q # p /\ IsBig(q) /\ arena'[q] = arena[q]
      BY <1>10, <1>12, <2>2
    <3>2. /\ arena[q].free_cnt >= 1 /\ RunFrom(q, arena[q].free_cnt) \subseteq used_map
          /\ \A r \in RunFrom(q, arena[q].free_cnt) : r # q => arena[r] = None
      BY <3>1 DEF PagesOK
    <3>3. \A r \in RunFrom(q, arena[q].free_cnt) : r \in Page /\ (r # q => r # p)
      BY <1>7, <3>2, HeapTypes
    <3>4. \A r \in RunFrom(q, arena[q].free_cnt) : r # q => arena'[r] = None
      BY <1>10, <3>2, <3>3
    <3>5. arena[q].free_cnt >= 1 /\ RunFrom(q, arena[q].free_cnt) \subseteq used_map'
      BY <1>1, <3>2
    <3> QED
      BY <3>1, <3>4, <3>5
  <2> QED
    BY <2>1, <2>2 DEF PagesOK
<1>26. ReservedOK'
  <2>1. \A u, v \in Caller : \A a \in Owned(v)' : u # t =>
          (a \in Owned(v) /\ Run(a)' = Run(a)) \/ Run(a)' \cap Reserved(u) = {}
    BY <1>18 DEF Kept
  <2>2. \A u \in Caller : u # t /\ Reserves(u) => \A q \in Reserved(u) :
          /\ q \in used_map' <=> q \in used_map
          /\ arena'[q] = arena[q]
          /\ FreeIn(q) = {} /\ IsArena(q) => FreeIn(q)' = {}
    <3> SUFFICES ASSUME NEW u \in Caller, u # t, Reserves(u), NEW q \in Reserved(u)
                 PROVE  arena'[q] = arena[q] /\ (IsArena(q) => FreeIn(q)' = FreeIn(q))
      BY <1>1
    <3>1. Reserved(u) \subseteq Page
      BY DEF ReservedOK, ReservedFor
    <3> QED
      BY <1>2, <1>10, <1>15, <3>1
  <2> QED
    BY <1>3, <2>1, <2>2, ReservedStep
<1>27. FreeOK'
  <2> SUFFICES ASSUME NEW e \in Desc
               PROVE  /\ IsInjective(free_list'[e])
                      /\ \A y \in Range(free_list'[e]) :
                           /\ PageOf(y) \in Page /\ IsArena(PageOf(y))' /\ arena'[PageOf(y)].desc = e
                           /\ y \in Blocks(PageOf(y), e)
    BY DEF FreeOK
  <2>1. /\ IsInjective(free_list[e])
        /\ \A y \in Range(free_list[e]) :
             /\ PageOf(y) \in Page /\ IsArena(PageOf(y)) /\ arena[PageOf(y)].desc = e
             /\ y \in Blocks(PageOf(y), e)
    BY DEF FreeOK
  <2>2. \A q \in Page : IsArena(q) => IsArena(q)' /\ arena'[q].desc = arena[q].desc
    BY <1>2, <1>8, <1>10, <1>12
  <2>3. CASE e # d
    BY <1>11, <2>1, <2>2, <2>3
  <2>4. CASE e = d
    <3>1. \A y \in Range(free_list'[d]) : y \in Range(free_list[d]) \/ y = x
      BY <1>6, <1>11
    <3> QED
      BY <1>2, <1>6, <1>11, <2>1, <2>2, <2>4, <3>1
  <2> QED
    BY <2>3, <2>4
<1>28. FreshOK'
  <2>1. \A u \in Caller : \A e \in Desc : u # t /\ HasDesc(u, e) => free_list'[e] = free_list[e]
    BY <1>2, <1>11
  <2> QED
    BY <1>3, <2>1, FreshSame
<1>29. UsedOK'
  <2> SUFFICES ASSUME NEW q \in used_map', ~IsArena(q)'
               PROVE  \E u \in Caller : q \in Reserved(u)' \/ \E a \in Owned(u)' : q \in Run(a)'
    BY DEF UsedOK
  <2>1. q \in Page /\ q # p
    BY <1>1, <1>12, HeapTypes
  <2>2. PICK u \in Caller : q \in Reserved(u) \/ \E a \in Owned(u) : q \in Run(a)
    BY <1>1, <1>12, <2>1 DEF UsedOK
  <2>3. CASE q \in Reserved(u)
    BY <1>2, <1>4, <2>3
  <2>4. CASE \E a \in Owned(u) : q \in Run(a)
    <3>1. PICK a \in Owned(u) : q \in Run(a)
      BY <2>4
    <3>2. a # x
      BY <1>2, <2>1, <3>1
    <3>3. a \in Owned(u)' /\ Run(a)' = Run(a)
      BY <1>3, <1>4, <1>17, <3>2 DEF Kept
    <3> QED
      BY <3>1, <3>3
  <2> QED
    BY <2>2, <2>3, <2>4
<1>30. CountsOK'
  <2> SUFFICES ASSUME NEW q \in Page, IsArena(q)', ~GoneSoon(q)'
               PROVE  CountsFor(q)'
    BY DEF CountsOK
  <2>1. \A y : y # x /\ (\E u \in Caller : y \in Owned(u)) => \E u \in Caller : y \in Owned(u)'
    BY <1>3, <1>4
  <2>2. CASE q = p
    <3>1. \A y \in Blocks(p, d) \ FreeIn(p) : \E u \in Caller : y \in Owned(u)
      BY <1>2 DEF CountsOK, CountsFor
    <3>2. \A y \in Blocks(p, d) \ FreeIn(p)' : \E u \in Caller : y \in Owned(u)'
      BY <1>14, <2>1, <3>1
    <3>3. arena'[p].desc = d
      BY <1>8, <1>10
    <3> QED
      BY <1>16, <2>2, <3>2, <3>3 DEF CountsFor
  <2>3. CASE q # p
    <3>1. ~Stands(t, "clear") /\ ~Stands(t, "pop")
      BY <1>1 DEF Stands
    <3>2. arena'[q] = arena[q] /\ FreeIn(q)' = FreeIn(q)
      BY <1>10, <1>12, <1>15, <2>3
    <3>3. x \notin Blocks(q, arena[q].desc)
      <4>1. IsArena(q) /\ arena[q].desc \in Desc /\ q \in Nat
        BY <1>12, <2>3, HeapTypes
      <4> QED
        BY <1>2, <2>3, <4>1, BlockFacts
    <3>4. \A y \in Blocks(q, arena[q].desc) :
            (\E u \in Caller : y \in Owned(u)) => \E u \in Caller : y \in Owned(u)'
      BY <2>1, <3>3
    <3> QED
      BY <1>3, <3>1, <3>2, <3>4, CountsSame
  <2> QED
    BY <2>2, <2>3
<1> QED
  BY <1>19, <1>20, <1>21, <1>22, <1>23, <1>24, <1>25, <1>26, <1>27, <1>28, <1>29, <1>30

LEMMA PushLastInv ==
  ASSUME HeapInv, NEW t \in Caller, PushLast(t)
  PROVE  HeapInv'
<1> USE DEF HeapInv
<1> PICK d : d = call[t].desc
  OBVIOUS
<1> PICK p : p = call[t].page
  OBVIOUS
<1> PICK x : x = call[t].addr
  OBVIOUS
<1>1. /\ Stands(t, "push") /\ ArenaDone(p) /\ TakeDesc(d, t) /\ desc_lock[d] = None
      /\ free_list' = [free_list EXCEPT ![d] = ListRemove(free_list[d], Blocks(p, d))]
      /\ Go(t, "clear") /\ ~NoCall(t)
      /\ used_map' = used_map /\ arena' = arena /\ pool_lock' = pool_lock /\ held' = held
  BY DEF PushLast, TakeDesc, Stands
<1>2. /\ d \in Desc /\ d # 0 /\ p \in Page /\ p \in Nat /\ x \in Nat /\ x \in Blocks(p, d)
      /\ GivesBack(t) /\ x \in Owned(t) /\ PageOf(x) = p /\ Run(x) = {p}
      /\ IsArena(p) /\ arena[p].desc = d /\ p \in used_map
      /\ x \notin Range(free_list[d])
      /\ \A u \in Caller : ~HasDesc(u, d) /\ p \notin Reserved(u)
      /\ ~GoneSoon(p) /\ ~Reserves(t) /\ Reserved(t) = {}
  BY <1>1, PushFacts, DescFacts
<1>3. call[t] \in CallRecord /\ CallShape(call[t]) /\ call[t].kind = "block" /\ call[t].pc = "push"
  BY <1>1, PushFacts DEF Stands
<1>4. call[t].cnt = 1 /\ call[t].old = 0
  BY <1>3 DEF CallShape
<1>5. /\ call' \in [Caller -> CallRecord \cup {None}] /\ call'[t] \in CallRecord
      /\ ~NoCall(t)' /\ call'[t].pc = "clear" /\ call'[t].kind = "block"
      /\ call'[t].desc = d /\ call'[t].cnt = 1 /\ call'[t].page = p /\ call'[t].old = 0
      /\ \A u \in Caller : u # t => call'[u] = call[u]
  BY <1>1, <1>3, <1>4, GoFacts
<1>6. Others(t)
  BY <1>1, <1>5 DEF Others
<1>7. /\ ~GivesBack(t)' /\ Back(t)' = {} /\ Reserves(t)' /\ Reserved(t)' = {p}
      /\ Owned(t)' = Owned(t) \ {x}
  <2>1. ~GivesBack(t)' /\ Reserves(t)'
    BY <1>5 DEF GivesBack, Reserves
  <2>2. Back(t)' = {} /\ Reserved(t)' = RunFrom(p, 1)
    BY <1>5, <2>1 DEF Back, Reserved
  <2>3. RunFrom(p, 1) = {p}
    BY <1>2 DEF RunFrom
  <2>4. Owned(t)' = {r.addr : r \in held[t]}
    BY <1>1, <2>2 DEF Owned
  <2> QED
    BY <1>2, <2>1, <2>2, <2>3, <2>4, GivenBack
<1>8. \A u \in Caller : u # t => Owned(u)' = Owned(u) /\ Reserved(u)' = Reserved(u) /\ x \notin Owned(u)
  BY <1>2, <1>6, OthersSame DEF Others, OwnedOK
<1>9. arena \in [Page -> ArenaRecord \cup {None}] /\ free_list \in [Desc -> Seq(Nat)]
  BY DEF HeapTypeOK
<1> DEFINE l == ListRemove(free_list[d], Blocks(p, d))
<1>10. l \in Seq(Nat) /\ IsInjective(l) /\ Range(l) = Range(free_list[d]) \ Blocks(p, d)
  <2>1. IsInjective(free_list[d])
    BY <1>2 DEF FreeOK
  <2> QED
    BY <1>2, <1>9, <2>1, ListRemoveFacts
<1>11. free_list' = [free_list EXCEPT ![d] = l]
  BY <1>1
<1> HIDE DEF l
<1>12. /\ free_list'[d] = l /\ \A e \in Desc : e # d => free_list'[e] = free_list[e]
       /\ free_list' \in [Desc -> Seq(Nat)]
  BY <1>2, <1>9, <1>10, <1>11
<1>13. \A e \in Desc : Range(free_list'[e]) \subseteq Range(free_list[e])
  BY <1>10, <1>12
<1>14. \A q : (IsBig(q)' <=> IsBig(q)) /\ (IsArena(q)' <=> IsArena(q))
  BY <1>1 DEF IsBig, IsArena
<1>15. FreeIn(p)' = {}
  BY <1>1, <1>2, <1>10, <1>12 DEF FreeIn
<1>16. \A q \in Page : q # p /\ IsArena(q) => FreeIn(q)' = FreeIn(q)
  <2> SUFFICES ASSUME NEW q \in Page, q # p, IsArena(q)
               PROVE  FreeIn(q)' = FreeIn(q)
    OBVIOUS
  <2> PICK e \in Desc : e = arena[q].desc
    BY HeapTypes
  <2>1. FreeIn(q) = Blocks(q, e) \cap Range(free_list[e]) /\ FreeIn(q)' = Blocks(q, e) \cap Range(free_list'[e])
    BY <1>1 DEF FreeIn
  <2>2. CASE e = d
    <3>1. \A y \in Blocks(q, e) : y \notin Blocks(p, d)
      BY <1>2, HeapTypes, BlockFacts
    <3> QED
      BY <1>10, <1>12, <2>1, <2>2, <3>1
  <2>3. CASE e # d
    BY <1>12, <2>1, <2>3
  <2> QED
    BY <2>2, <2>3
\* Nobody has another block of the arena.
<1>17. \A u \in Caller : \A a \in Owned(u) : a # x => PageOf(a) # p
  <2> SUFFICES ASSUME NEW u \in Caller, NEW a \in Owned(u), a # x, PageOf(a) = p
               PROVE  FALSE
    OBVIOUS
  <2>1. Granted(a)
    BY OwnsFacts
  <2>2. a \in Blocks(p, d) /\ a \notin Range(free_list[d])
    BY <1>2, <2>1 DEF Granted, IsArena, IsBig
  <2>3. IsFiniteSet(Blocks(p, d)) /\ Cardinality(Blocks(p, d)) = BlocksPerArena(d)
    BY <1>2, BlockCount
  <2>4. FreeIn(p) = Blocks(p, d) \cap Range(free_list[d])
    BY <1>2 DEF FreeIn
  <2>5. IsFiniteSet(FreeIn(p)) /\ x \notin FreeIn(p)
    <3>1. FreeIn(p) \in SUBSET Blocks(p, d)
      BY <2>4
    <3>2. IsFiniteSet(FreeIn(p))
      BY <2>3, <3>1, FS_Subset
    <3> QED
      BY <1>2, <2>4, <3>2
  <2>6. Cardinality(FreeIn(p) \cup {x}) = arena[p].free_cnt + 1
    <3>1. arena[p].free_cnt = Cardinality(FreeIn(p))
      BY <1>2 DEF CountsOK, CountsFor
    <3> QED
      BY <2>5, <3>1, FS_AddElement
  <2>7. FreeIn(p) \cup {x} \in SUBSET Blocks(p, d)
    BY <1>2, <2>4
  <2>8. Cardinality(FreeIn(p) \cup {x}) = Cardinality(Blocks(p, d))
    <3>1. arena[p].free_cnt + 1 >= BlocksPerArena(d)
      BY <1>1, <1>2 DEF ArenaDone
    <3>2. Cardinality(FreeIn(p) \cup {x}) <= Cardinality(Blocks(p, d))
      BY <2>3, <2>7, FS_Subset
    <3>3. arena[p].free_cnt \in Nat /\ BlocksPerArena(d) \in Nat
      BY <1>2, HeapTypes, ArenaSize
    <3> QED
      BY <2>3, <2>6, <3>1, <3>2, <3>3
  <2>9. FreeIn(p) \cup {x} = Blocks(p, d)
    BY <2>3, <2>7, <2>8, FS_Subset
  <2> QED
    BY <2>2, <2>4, <2>9
<1>18. ASSUME NEW u \in Caller, NEW a \in Owned(u), a # x
       PROVE  Kept(a) /\ p \notin Run(a)
  <2> PICK q : q = PageOf(a)
    OBVIOUS
  <2>1. a \in Nat /\ Granted(a)
    BY <1>18, OwnsFacts
  <2>2. q \in used_map /\ q \in Page
    BY <2>1, GrantedFacts
  <2>3. IsArena(q) => arena[q].desc \in Desc /\ a \notin Range(free_list[arena[q].desc])
    BY <2>1, <2>2, HeapTypes DEF Granted, IsArena, IsBig
  <2>4. IsArena(q) => a \notin Range(free_list'[arena[q].desc])
    BY <1>13, <2>3
  <2>5. Kept(a)
    BY <1>1, <2>1, <2>2, <2>4, KeptPage
  <2>6. p \notin Run(a)
    BY <1>2, <1>17, <1>18, ArenaAlone
  <2> QED
    BY <2>5, <2>6
<1>19. \A u \in Caller : \A a \in Owned(u)' : a \in Owned(u) /\ a # x /\ Kept(a) /\ p \notin Run(a)
  BY <1>7, <1>8, <1>18
<1>20. LocksHeld' /\ desc_lock' \in [Desc -> Caller \cup {None}]
  <2>1. \A e \in Desc : ~HasDesc(t, e)
    BY <1>3 DEF HasDesc
  <2>2. HasDesc(t, d)' /\ \A e \in Desc : e # d => ~HasDesc(t, e)'
    BY <1>5 DEF HasDesc
  <2>3. ~Stands(t, "flip") /\ ~Stands(t, "flip")'
    BY <1>3, <1>5 DEF Stands
  <2>4. HeapTypeOK /\ LocksHeld
    OBVIOUS
  <2> HIDE DEF HeapInv
  <2> QED
    BY <1>1, <1>2, <1>6, <2>1, <2>2, <2>3, <2>4, TakeDescFacts
<1>21. HeapTypeOK'
  BY <1>1, <1>5, <1>12, <1>20 DEF HeapTypeOK
<1>22. CallsOK'
  <2>1. CallShape(call'[t])
    BY <1>2, <1>5 DEF CallShape
  <2> QED
    BY <1>5, <1>6, <2>1, CallsSame
<1>23. HeldOK'
  <2>1. \A u \in Caller : Back(u)' \subseteq Back(u)
    BY <1>6, <1>7, OthersSame DEF Others
  <2>2. \A u \in Caller : \A r \in held[u] : r.addr \in Owned(u)'
    BY <1>1 DEF Owned
  <2>3. \A u \in Caller : \A r \in held[u] : Kept(r.addr)
    BY <1>19, <2>2
  <2>4. HeldOK
    OBVIOUS
  <2> HIDE DEF HeapInv
  <2> QED
    BY <1>1, <2>1, <2>3, <2>4, HeldLess
<1>24. OwnedOK'
  <2>1. \A u \in Caller : \A a \in Owned(u)' : Kept(a)
    BY <1>19
  <2>2. OwnedOK /\ Owned(t)' \subseteq Owned(t)
    BY <1>7
  <2> HIDE DEF HeapInv
  <2> QED
    BY <1>6, <2>1, <2>2, OwnedLess
<1>25. BackOK'
  <2>1. \A u \in Caller : u # t => \A a \in Owned(u) : Kept(a)
    BY <1>8, <1>18
  <2> QED
    BY <1>6, <1>7, <2>1, BackSame
<1>26. PagesOK'
  BY <1>1, <1>14 DEF PagesOK
<1>27. ReservedOK'
  <2>1. \A u, v \in Caller : \A a \in Owned(v)' : u # t =>
          (a \in Owned(v) /\ Run(a)' = Run(a)) \/ Run(a)' \cap Reserved(u) = {}
    BY <1>19 DEF Kept
  <2>2. \A u \in Caller : u # t /\ Reserves(u) => \A q \in Reserved(u) :
          /\ q \in used_map' <=> q \in used_map
          /\ arena'[q] = arena[q]
          /\ FreeIn(q) = {} /\ IsArena(q) => FreeIn(q)' = {}
    <3> SUFFICES ASSUME NEW u \in Caller, u # t, Reserves(u), NEW q \in Reserved(u)
                 PROVE  IsArena(q) => FreeIn(q)' = FreeIn(q)
      BY <1>1
    <3>1. Reserved(u) \subseteq Page
      BY DEF ReservedOK, ReservedFor
    <3> QED
      BY <1>2, <1>16, <3>1
  <2>3. \A u \in Caller : u # t => Reserved(t)' \cap Reserved(u) = {}
    BY <1>2, <1>7
  <2>4. ReservedFor(t)'
    <3>1. IsArena(p)' /\ arena'[p].desc = d /\ p \in used_map'
      BY <1>1, <1>2, <1>14
    <3> QED
      BY <1>2, <1>5, <1>7, <1>15, <3>1 DEF ReservedFor, IsArena, FreeIn
  <2>5. \A u \in Caller : \A a \in Owned(u)' : Run(a)' \cap Reserved(t)' = {}
    BY <1>7, <1>19 DEF Kept
  <2> QED
    BY <1>6, <2>1, <2>2, <2>3, <2>4, <2>5, ReservedStep
<1>28. FreeOK'
  <2> SUFFICES ASSUME NEW e \in Desc
               PROVE  /\ IsInjective(free_list'[e])
                      /\ \A y \in Range(free_list'[e]) :
                           /\ PageOf(y) \in Page /\ IsArena(PageOf(y))' /\ arena'[PageOf(y)].desc = e
                           /\ y \in Blocks(PageOf(y), e)
    BY DEF FreeOK
  <2>1. /\ IsInjective(free_list[e])
        /\ \A y \in Range(free_list[e]) :
             /\ PageOf(y) \in Page /\ IsArena(PageOf(y)) /\ arena[PageOf(y)].desc = e
             /\ y \in Blocks(PageOf(y), e)
    BY DEF FreeOK
  <2>2. IsInjective(free_list'[e])
    BY <1>10, <1>12, <2>1
  <2> QED
    BY <1>1, <1>13, <1>14, <2>1, <2>2
<1>29. FreshOK'
  <2>1. \A u \in Caller : \A e \in Desc : u # t /\ HasDesc(u, e) => free_list'[e] = free_list[e]
    BY <1>2, <1>12
  <2>2. FreshFor(t)'
    BY <1>5 DEF FreshFor
  <2> QED
    BY <1>6, <2>1, <2>2, FreshSame
<1>30. UsedOK'
  <2> SUFFICES ASSUME NEW q \in used_map', ~IsArena(q)'
               PROVE  \E u \in Caller : q \in Reserved(u)' \/ \E a \in Owned(u)' : q \in Run(a)'
    BY DEF UsedOK
  <2>1. q # p /\ ~IsArena(q)
    BY <1>2, <1>14
  <2>2. PICK u \in Caller : q \in Reserved(u) \/ \E a \in Owned(u) : q \in Run(a)
    BY <1>1, <2>1 DEF UsedOK
  <2>3. CASE q \in Reserved(u)
    BY <1>2, <1>8, <2>3
  <2>4. CASE \E a \in Owned(u) : q \in Run(a)
    <3>1. PICK a \in Owned(u) : q \in Run(a)
      BY <2>4
    <3>2. a # x
      BY <1>2, <2>1, <3>1
    <3>3. a \in Owned(u)' /\ Run(a)' = Run(a)
      BY <1>7, <1>8, <1>18, <3>2 DEF Kept
    <3> QED
      BY <3>1, <3>3
  <2> QED
    BY <2>2, <2>3, <2>4
<1>31. CountsOK'
  <2> SUFFICES ASSUME NEW q \in Page, IsArena(q)', ~GoneSoon(q)'
               PROVE  CountsFor(q)'
    BY DEF CountsOK
  <2>1. \A y : y # x /\ (\E u \in Caller : y \in Owned(u)) => \E u \in Caller : y \in Owned(u)'
    BY <1>7, <1>8
  <2>2. q # p
    BY <1>5 DEF GoneSoon, Stands
  <2>3. ~Stands(t, "clear") /\ ~Stands(t, "pop")
    BY <1>3 DEF Stands
  <2>4. arena'[q] = arena[q] /\ FreeIn(q)' = FreeIn(q)
    BY <1>1, <1>14, <1>16, <2>2
  <2>5. x \notin Blocks(q, arena[q].desc)
    <3>1. IsArena(q) /\ arena[q].desc \in Desc /\ q \in Nat
      BY <1>14, HeapTypes
    <3> QED
      BY <1>2, <2>2, <3>1, BlockFacts
  <2>6. \A y \in Blocks(q, arena[q].desc) :
          (\E u \in Caller : y \in Owned(u)) => \E u \in Caller : y \in Owned(u)'
    BY <2>1, <2>5
  <2> QED
    BY <1>6, <2>3, <2>4, <2>6, CountsSame
<1> QED
  BY <1>20, <1>21, <1>22, <1>23, <1>24, <1>25, <1>26, <1>27, <1>28, <1>29, <1>30, <1>31

\* The pages that a call gives back are in use, and nobody else's.
LEMMA ClearFacts ==
  ASSUME HeapInv, NEW t \in Caller, Stands(t, "clear")
  PROVE  LET p == call[t].page
             pages == p .. p + call[t].cnt - 1
             rest == {r.addr : r \in held[t]}
         IN  /\ call[t] \in CallRecord /\ call[t].desc \in Desc \cup {0}
             /\ p \in Page /\ p \in pages /\ pages \subseteq used_map
             /\ rest \subseteq Owned(t) /\ Reserved(t) \subseteq pages
             /\ \A a \in rest : Run(a) \cap pages = {}
             /\ \A a \in Owned(t) : a \in rest \/ (Run(a) = pages /\ PageOf(a) = p /\ ~IsArena(p))
             /\ \A u \in Caller : u # t => /\ Reserved(u) \cap pages = {}
                                           /\ \A a \in Owned(u) : Run(a) \cap pages = {}
             /\ \A q \in pages : IsArena(q) => FreeIn(q) = {}
             /\ \A e \in Desc : HasDesc(t, e) <=> e = call[t].desc
<1> USE DEF HeapInv
<1> PICK p : p = call[t].page
  OBVIOUS
<1> PICK d : d = call[t].desc
  OBVIOUS
<1> DEFINE pages == p .. p + call[t].cnt - 1
           rest == {r.addr : r \in held[t]}
<1>1. ~NoCall(t) /\ call[t].pc = "clear"
  BY DEF Stands
<1>2. call[t] \in CallRecord /\ CallShape(call[t])
  BY <1>1, CallTypes DEF CallsOK
<1>3. p \in Page /\ p \in Nat /\ call[t].cnt \in Nat /\ call[t].cnt >= 1 /\ d \in Desc \cup {0}
  BY <1>1, <1>2, CallTypes, HeapTypes DEF CallShape
<1>4. p \in pages /\ pages = RunFrom(p, call[t].cnt)
  BY <1>3 DEF RunFrom
<1> HIDE DEF pages
<1>5. \A e \in Desc : e # 0
  BY DescFacts
<1>6. rest \subseteq Owned(t)
  BY DEF Owned
<1>7. CASE call[t].kind = "block"
  <2>1. Reserves(t) /\ ~GivesBack(t)
    BY <1>1, <1>7 DEF Reserves, GivesBack
  <2>2. Reserved(t) = pages
    BY <1>4, <2>1 DEF Reserved
  <2>3. pages = {p}
    BY <1>1, <2>1, <2>2, ReservedUsed DEF Stands
  <2>4. ReservedFor(t) /\ (\A u \in Caller : \A a \in Owned(u) : Run(a) \cap pages = {})
        /\ \A u \in Caller : u # t => Reserved(u) \cap pages = {}
    BY <2>1, <2>2 DEF ReservedOK, ReservedFor
  <2>5. pages \subseteq used_map /\ FreeIn(p) = {}
    BY <1>1, <2>3, <2>4 DEF ReservedFor
  <2>6. Owned(t) = rest
    BY <2>1 DEF Owned, Back
  <2>7. d \in Desc
    BY <1>2, <1>7 DEF CallShape
  <2>8. \A e \in Desc : HasDesc(t, e) <=> e = d
    BY <1>1, <1>7 DEF HasDesc
  <2> QED
    BY <1>2, <1>3, <1>4, <1>6, <2>2, <2>3, <2>4, <2>5, <2>6, <2>8 DEF pages
<1>8. CASE call[t].kind # "block"
  <2>1. GivesBack(t) /\ ~Reserves(t)
    BY <1>1, <1>8 DEF Reserves, GivesBack
  <2> PICK x : x = call[t].addr
    OBVIOUS
  <2>2. x \in Owned(t) /\ PageOf(x) = p
    BY <2>1, BackPage
  <2>3. x \in Nat /\ Granted(x)
    BY <2>2, OwnsFacts
  <2>4. Run(x) = pages /\ ~IsArena(p)
    <3>1. CASE call[t].kind = "big"
      <4>1. IsBig(p) /\ arena[p].free_cnt = call[t].cnt
        BY <2>1, <3>1 DEF BackOK, BackFor
      <4>2. Run(x) = RunFrom(p, arena[p].free_cnt)
        BY <2>2, <4>1 DEF Run
      <4> QED
        BY <1>4, <4>1, <4>2 DEF IsArena, IsBig
    <3>2. CASE call[t].kind = "page"
      <4>1. x = Start(p) /\ call[t].cnt = 1
        BY <1>1, <1>2, <3>2 DEF CallShape
      <4>2. x % PageSize = 0
        <5>1. PageSize \in Nat /\ 0 \in Nat /\ 0 < PageSize
          BY HeapAssumption
        <5>2. (Start(p) + 0) % PageSize = 0 /\ Start(p) \in Nat
          BY <1>3, <5>1, PageOfAt
        <5> QED
          BY <4>1, <5>2
      <4>3. arena[p] = None
        BY <2>2, <2>3, <4>2, GrantedFacts
      <4>4. ~IsBig(p) /\ ~IsArena(p)
        BY <4>3 DEF IsBig, IsArena
      <4>5. Run(x) = {p}
        BY <2>2, <4>4 DEF Run
      <4>6. RunFrom(p, 1) = {p}
        BY <1>3 DEF RunFrom
      <4> QED
        BY <1>4, <4>1, <4>4, <4>5, <4>6
    <3> QED
      BY <1>2, <1>8, <3>1, <3>2, CallTypes
  <2>5. pages \subseteq used_map
    BY <2>3, <2>4, GrantedFacts
  <2>6. rest = Owned(t) \ {x}
    BY <2>1, GivenBack
  <2>7. \A u \in Caller : \A a \in Owned(u) : a # x => Run(a) \cap pages = {}
    <3> SUFFICES ASSUME NEW u \in Caller, NEW a \in Owned(u), a # x
                 PROVE  Run(x) \cap Run(a) = {}
      BY <2>4
    <3>1. Run(x) \cap Run(a) = {} \/ (PageOf(x) = PageOf(a) /\ IsArena(PageOf(x)))
      BY <2>2 DEF OwnedOK
    <3> QED
      BY <2>2, <2>4, <3>1
  <2>8. \A u \in Caller : u # t => x \notin Owned(u)
    BY <2>2 DEF OwnedOK
  <2>9. \A u \in Caller : Reserved(u) \cap pages = {}
    <3> SUFFICES ASSUME NEW u \in Caller, Reserves(u)
                 PROVE  Reserved(u) \cap pages = {}
      BY DEF Reserved
    <3>1. Run(x) \cap Reserved(u) = {}
      BY <2>2 DEF ReservedOK
    <3> QED
      BY <2>4, <3>1
  <2>10. \A q \in pages : ~IsArena(q)
    <3> SUFFICES ASSUME NEW q \in pages, q # p, IsArena(q)
                 PROVE  FALSE
      BY <2>4
    <3>1. q \in Page
      BY <2>5, HeapTypes
    <3>2. q \notin Run(x)
      BY <2>2, <3>1, ArenaAlone
    <3> QED
      BY <2>4, <3>2
  <2>11. d = 0 /\ Reserved(t) = {}
    BY <1>2, <1>8, <2>1 DEF CallShape, Reserved
  <2>12. \A e \in Desc : HasDesc(t, e) <=> e = d
    BY <1>5, <1>8, <2>11 DEF HasDesc
  <2>13. \A u \in Caller : u # t => /\ Reserved(u) \cap pages = {}
                                    /\ \A a \in Owned(u) : Run(a) \cap pages = {}
    BY <2>7, <2>8, <2>9
  <2>14. /\ \A a \in rest : Run(a) \cap pages = {}
         /\ \A a \in Owned(t) : a \in rest \/ (Run(a) = pages /\ PageOf(a) = p /\ ~IsArena(p))
    BY <2>2, <2>4, <2>6, <2>7
  <2> QED
    BY <1>2, <1>3, <1>4, <1>6, <2>5, <2>10, <2>11, <2>12, <2>13, <2>14 DEF pages
<1> QED
  BY <1>7, <1>8

LEMMA ClearInv ==
  ASSUME HeapInv, NEW t \in Caller, Clear(t)
  PROVE  HeapInv'
<1> USE DEF HeapInv
<1> PICK d : d = call[t].desc
  OBVIOUS
<1> PICK p : p = call[t].page
  OBVIOUS
<1> PICK pages : pages = p .. p + call[t].cnt - 1
  OBVIOUS
<1> PICK rest : rest = {r.addr : r \in held[t]}
  OBVIOUS
<1>1. /\ Stands(t, "clear") /\ used_map' = used_map \ pages
      /\ arena' = [q \in Page |-> IF q \in pages THEN None ELSE arena[q]]
      /\ DropDesc(d) /\ call' = [call EXCEPT ![t] = None]
      /\ free_list' = free_list /\ pool_lock' = pool_lock /\ held' = held
  BY DEF Clear
<1>2. /\ call[t] \in CallRecord /\ d \in Desc \cup {0}
      /\ p \in Page /\ p \in pages /\ pages \subseteq used_map
      /\ rest \subseteq Owned(t) /\ Reserved(t) \subseteq pages
      /\ \A a \in rest : Run(a) \cap pages = {}
      /\ \A a \in Owned(t) : a \in rest \/ (Run(a) = pages /\ PageOf(a) = p /\ ~IsArena(p))
      /\ \A u \in Caller : u # t => /\ Reserved(u) \cap pages = {}
                                    /\ \A a \in Owned(u) : Run(a) \cap pages = {}
      /\ \A q \in pages : IsArena(q) => FreeIn(q) = {}
      /\ \A e \in Desc : HasDesc(t, e) <=> e = d
  BY <1>1, ClearFacts
<1>3. /\ Others(t) /\ NoCall(t)' /\ call' \in [Caller -> CallRecord \cup {None}]
      /\ ~GivesBack(t)' /\ Back(t)' = {} /\ Owned(t)' = rest
      /\ ~Reserves(t)' /\ Reserved(t)' = {}
      /\ \A e \in Desc : ~HasDesc(t, e)'
      /\ \A to : ~Stands(t, to)'
  BY <1>1, EndFacts
<1>4. \A u \in Caller : u # t => Owned(u)' = Owned(u) /\ Reserved(u)' = Reserved(u)
  BY <1>3, OthersSame DEF Others
<1>5. \A u \in Caller : \A a \in Owned(u)' : a \in Owned(u) /\ Run(a) \cap pages = {}
  BY <1>2, <1>3, <1>4
<1>6. \A u \in Caller : \A a \in Owned(u) :
        a \in Owned(u)' \/ (Run(a) = pages /\ PageOf(a) = p /\ ~IsArena(p))
  BY <1>2, <1>3, <1>4
<1>7. /\ \A q \in Page : q \notin pages => arena'[q] = arena[q]
      /\ \A q \in Page : q \in pages => arena'[q] = None
      /\ arena' \in [Page -> ArenaRecord \cup {None}]
  BY <1>1 DEF HeapTypeOK
<1>8. /\ \A q \in Page : IsArena(q)' => IsArena(q) /\ q \notin pages
      /\ \A q \in Page : IsBig(q)' => IsBig(q) /\ q \notin pages
      /\ \A q \in Page : q \notin pages => (IsArena(q)' <=> IsArena(q))
  BY <1>7 DEF IsArena, IsBig
<1>9. \A q \in Page : q \notin pages => FreeIn(q)' = FreeIn(q)
  BY <1>1, <1>7 DEF FreeIn
<1>10. ASSUME NEW u \in Caller, NEW a \in Owned(u)'
       PROVE  Kept(a)
  <2> PICK q : q = PageOf(a)
    OBVIOUS
  <2>1. a \in Owned(u) /\ Run(a) \cap pages = {}
    BY <1>5, <1>10
  <2>2. a \in Nat /\ Granted(a)
    BY <2>1, OwnsFacts
  <2>3. q \in used_map /\ q \in Page /\ q \in Run(a)
    BY <2>2, GrantedFacts
  <2>4. q \in used_map' /\ arena'[q] = arena[q]
    BY <1>1, <1>7, <2>1, <2>3
  <2>5. IsArena(q) => a \notin Range(free_list'[arena[q].desc])
    BY <1>1, <2>2 DEF Granted, IsArena, IsBig
  <2> QED
    BY <2>2, <2>4, <2>5, KeptPage
<1>11. LocksHeld' /\ desc_lock' \in [Desc -> Caller \cup {None}]
  <2>1. Stands(t, "flip")' <=> Stands(t, "flip")
    BY <1>1, <1>3 DEF Stands
  <2>2. d # 0 => HasDesc(t, d)
    BY <1>2
  <2>3. HeapTypeOK /\ LocksHeld /\ \A e \in Desc : HasDesc(t, e) => e = d
    BY <1>2
  <2> HIDE DEF HeapInv
  <2> QED
    BY <1>1, <1>2, <1>3, <2>1, <2>2, <2>3, DropDescFacts
<1>12. HeapTypeOK'
  BY <1>1, <1>3, <1>7, <1>11 DEF HeapTypeOK
<1>13. CallsOK'
  BY <1>3, CallsSame
<1>14. HeldOK'
  <2>1. \A u \in Caller : Back(u)' \subseteq Back(u)
    BY <1>3, OthersSame DEF Others
  <2>2. \A u \in Caller : \A r \in held[u] : r.addr \in Owned(u)'
    BY <1>1 DEF Owned
  <2>3. \A u \in Caller : \A r \in held[u] : Kept(r.addr)
    BY <1>10, <2>2
  <2>4. HeldOK
    OBVIOUS
  <2> HIDE DEF HeapInv
  <2> QED
    BY <1>1, <2>1, <2>3, <2>4, HeldLess
<1>15. OwnedOK'
  <2>1. \A u \in Caller : \A a \in Owned(u)' : Kept(a)
    BY <1>10
  <2>2. OwnedOK /\ Owned(t)' \subseteq Owned(t)
    BY <1>2, <1>3
  <2> HIDE DEF HeapInv
  <2> QED
    BY <1>3, <2>1, <2>2, OwnedLess
<1>16. BackOK'
  <2>1. \A u \in Caller : u # t => \A a \in Owned(u) : Kept(a)
    BY <1>4, <1>10
  <2> QED
    BY <1>3, <2>1, BackSame
<1>17. PagesOK'
  <2>1. \A q \in Page \ used_map' : arena'[q] = None
    BY <1>1, <1>7 DEF PagesOK
  <2>2. ASSUME NEW q \in Page, IsBig(q)'
        PROVE  /\ arena'[q].free_cnt >= 1 /\ RunFrom(q, arena'[q].free_cnt) \subseteq used_map'
               /\ \A r \in RunFrom(q, arena'[q].free_cnt) : r # q => arena'[r] = None
    <3>1. q \notin pages /\ IsBig(q) /\ arena'[q] = arena[q]
      BY <1>7, <1>8, <2>2
    <3>2. /\ arena[q].free_cnt >= 1 /\ RunFrom(q, arena[q].free_cnt) \subseteq used_map
          /\ \A r \in RunFrom(q, arena[q].free_cnt) : r # q => arena[r] = None
      BY <3>1 DEF PagesOK
    <3>3. PICK u \in Caller : \E a \in Owned(u) : PageOf(a) = q /\ Run(a) = RunFrom(q, arena[q].free_cnt)
      BY <3>1, BigOwned
    <3>4. PICK a \in Owned(u) : PageOf(a) = q /\ Run(a) = RunFrom(q, arena[q].free_cnt)
      BY <3>3
    <3>5. RunFrom(q, arena[q].free_cnt) \cap pages = {}
      BY <1>2, <1>5, <1>6, <3>1, <3>4
    <3>6. \A r \in RunFrom(q, arena[q].free_cnt) : r \in Page /\ r \notin pages
      BY <3>2, <3>5, HeapTypes
    <3> QED
      BY <1>1, <1>7, <3>1, <3>2, <3>6
  <2> QED
    BY <2>1, <2>2 DEF PagesOK
<1>18. ReservedOK'
  <2>1. \A u, v \in Caller : \A a \in Owned(v)' : u # t =>
          (a \in Owned(v) /\ Run(a)' = Run(a)) \/ Run(a)' \cap Reserved(u) = {}
    BY <1>5, <1>10 DEF Kept
  <2>2. \A u \in Caller : u # t /\ Reserves(u) => \A q \in Reserved(u) :
          /\ q \in used_map' <=> q \in used_map
          /\ arena'[q] = arena[q]
          /\ FreeIn(q) = {} /\ IsArena(q) => FreeIn(q)' = {}
    <3> SUFFICES ASSUME NEW u \in Caller, u # t, Reserves(u), NEW q \in Reserved(u)
                 PROVE  /\ q \in used_map' <=> q \in used_map
                        /\ arena'[q] = arena[q] /\ FreeIn(q)' = FreeIn(q)
      OBVIOUS
    <3>1. Reserved(u) \subseteq Page
      BY DEF ReservedOK, ReservedFor
    <3>2. q \notin pages
      BY <1>2
    <3> QED
      BY <1>1, <1>7, <1>9, <3>1, <3>2
  <2> QED
    BY <1>3, <2>1, <2>2, ReservedStep
<1>19. FreeOK'
  <2> SUFFICES ASSUME NEW e \in Desc
               PROVE  /\ IsInjective(free_list'[e])
                      /\ \A y \in Range(free_list'[e]) :
                           /\ PageOf(y) \in Page /\ IsArena(PageOf(y))' /\ arena'[PageOf(y)].desc = e
                           /\ y \in Blocks(PageOf(y), e)
    BY DEF FreeOK
  <2>1. /\ IsInjective(free_list[e])
        /\ \A y \in Range(free_list[e]) :
             /\ PageOf(y) \in Page /\ IsArena(PageOf(y)) /\ arena[PageOf(y)].desc = e
             /\ y \in Blocks(PageOf(y), e)
    BY DEF FreeOK
  <2>2. \A y \in Range(free_list[e]) : y \in FreeIn(PageOf(y))
    BY <2>1 DEF FreeIn
  <2>3. \A y \in Range(free_list[e]) : PageOf(y) \notin pages
    BY <1>2, <2>1, <2>2
  <2> QED
    BY <1>1, <1>7, <1>8, <2>1, <2>3
<1>20. FreshOK'
  BY <1>1, <1>3, FreshSame
<1>21. UsedOK'
  <2> SUFFICES ASSUME NEW q \in used_map', ~IsArena(q)'
               PROVE  \E u \in Caller : q \in Reserved(u)' \/ \E a \in Owned(u)' : q \in Run(a)'
    BY DEF UsedOK
  <2>1. q \in Page /\ q \notin pages /\ q \in used_map /\ ~IsArena(q)
    BY <1>1, <1>8, HeapTypes
  <2>2. PICK u \in Caller : q \in Reserved(u) \/ \E a \in Owned(u) : q \in Run(a)
    BY <2>1 DEF UsedOK
  <2>3. CASE q \in Reserved(u)
    BY <1>2, <1>4, <2>1, <2>3
  <2>4. CASE \E a \in Owned(u) : q \in Run(a)
    <3>1. PICK a \in Owned(u) : q \in Run(a)
      BY <2>4
    <3>2. a \in Owned(u)'
      BY <1>6, <2>1, <3>1
    <3>3. Run(a)' = Run(a)
      BY <1>10, <3>2 DEF Kept
    <3> QED
      BY <3>1, <3>2, <3>3
  <2> QED
    BY <2>2, <2>3, <2>4
<1>22. CountsOK'
  <2> SUFFICES ASSUME NEW q \in Page, IsArena(q)', ~GoneSoon(q)'
               PROVE  CountsFor(q)'
    BY DEF CountsOK
  <2>1. q \notin pages /\ IsArena(q) /\ q # p
    BY <1>2, <1>8
  <2>2. call[t].page # q /\ ~Stands(t, "pop")
    BY <1>1, <2>1 DEF Stands
  <2>3. arena'[q] = arena[q] /\ FreeIn(q)' = FreeIn(q)
    BY <1>7, <1>9, <2>1
  <2>4. \A y \in Blocks(q, arena[q].desc) : PageOf(y) # p
    <3>1. arena[q].desc \in Desc /\ q \in Nat
      BY <2>1, HeapTypes
    <3> QED
      BY <2>1, <3>1, BlockFacts
  <2>5. \A y \in Blocks(q, arena[q].desc) :
          (\E u \in Caller : y \in Owned(u)) => \E u \in Caller : y \in Owned(u)'
    BY <1>6, <2>4
  <2> QED
    BY <1>3, <2>2, <2>3, <2>5, CountsSame
<1> QED
  BY <1>11, <1>12, <1>13, <1>14, <1>15, <1>16, <1>17, <1>18, <1>19, <1>20, <1>21, <1>22

-----------------------------------------------------------------------------
(* The invariant *)

LEMMA HeapStutter ==
  ASSUME HeapInv, UNCHANGED heapVars
  PROVE  HeapInv'
<1> USE DEF HeapInv
<1>1. /\ used_map' = used_map /\ arena' = arena /\ free_list' = free_list
      /\ desc_lock' = desc_lock /\ pool_lock' = pool_lock
      /\ call' = call /\ held' = held /\ UNCHANGED memVars
  BY DEF heapVars, memVars, lockVars
<1>2. /\ \A p : (IsBig(p)' <=> IsBig(p)) /\ (IsArena(p)' <=> IsArena(p)) /\ FreeIn(p)' = FreeIn(p)
      /\ \A a : (Granted(a)' <=> Granted(a)) /\ Run(a)' = Run(a) /\ SizeAt(a)' = SizeAt(a)
  BY <1>1, MemorySame
<1>3. \A u \in Caller :
        /\ NoCall(u)' <=> NoCall(u)
        /\ GivesBack(u)' <=> GivesBack(u)
        /\ Back(u)' = Back(u) /\ Owned(u)' = Owned(u)
        /\ Reserves(u)' <=> Reserves(u)
        /\ Reserved(u)' = Reserved(u)
  BY <1>1, OthersSame
<1>4. \A u \in Caller : /\ \A d : HasDesc(u, d)' <=> HasDesc(u, d)
                        /\ \A to : Stands(u, to)' <=> Stands(u, to)
  BY <1>1, OthersLocks
<1>5. HeapTypeOK'
  BY <1>1 DEF HeapTypeOK
<1>6. LocksHeld'
  BY <1>1, <1>4 DEF LocksHeld
<1>7. CallsOK'
  BY <1>1, <1>3 DEF CallsOK
<1>8. HeldOK'
  BY <1>1, <1>2, <1>3 DEF HeldOK
<1>9. OwnedOK'
  BY <1>2, <1>3 DEF OwnedOK
<1>10. BackOK'
  <2>1. \A u \in Caller : BackFor(u)' <=> BackFor(u)
    BY <1>1 DEF BackFor, IsBig, IsArena
  <2> QED
    BY <1>3, <2>1 DEF BackOK
<1>11. PagesOK'
  BY <1>1, <1>2 DEF PagesOK
<1>12. ReservedOK'
  <2>1. \A u \in Caller : ReservedFor(u)' <=> ReservedFor(u)
    BY <1>1, <1>3 DEF ReservedFor, IsArena, FreeIn
  <2> QED
    BY <1>2, <1>3, <2>1 DEF ReservedOK
<1>13. FreeOK'
  BY <1>1, <1>2 DEF FreeOK
<1>14. FreshOK'
  <2>1. \A u \in Caller : FreshFor(u)' <=> FreshFor(u)
    BY <1>1 DEF FreshFor
  <2> QED
    BY <1>1, <1>3, <2>1 DEF FreshOK
<1>15. CountsOK'
  <2>1. \A p : GoneSoon(p)' <=> GoneSoon(p)
    BY <1>1, <1>4 DEF GoneSoon
  <2>2. \A p : CountsFor(p) => CountsFor(p)'
    BY <1>1, <1>2, <1>3, <1>4 DEF CountsFor
  <2> QED
    BY <1>2, <2>1, <2>2 DEF CountsOK
<1>16. UsedOK'
  BY <1>1, <1>2, <1>3 DEF UsedOK
<1> QED
  BY <1>5, <1>6, <1>7, <1>8, <1>9, <1>10, <1>11, <1>12, <1>13, <1>14, <1>15, <1>16

\* Every operation and every step of a call preserves the invariant.
LEMMA HeapNextInv ==
  ASSUME HeapInv, HeapNext
  PROVE  HeapInv'
<1>1. PICK t \in Caller :
        \/ \E size \in Sizes : Malloc(t, size)
        \/ \E a, b \in Counts : Calloc(t, a, b)
        \/ GetPage(t)
        \/ \E r \in held[t] : Free(t, r) \/ \E size \in Sizes : Realloc(t, r, size)
        \/ Step(t)
  BY DEF HeapNext
<1>2. CASE \E size \in Sizes : Malloc(t, size)
  BY <1>2, MallocInv
<1>3. CASE \E a, b \in Counts : Calloc(t, a, b)
  BY <1>3, CallocInv
<1>4. CASE GetPage(t)
  BY <1>4, GetPageInv
<1>5. CASE \E r \in held[t] : Free(t, r)
  BY <1>5, FreeInv
<1>6. CASE \E r \in held[t] : \E size \in Sizes : Realloc(t, r, size)
  BY <1>6, ReallocInv
<1>7. CASE Step(t)
  <2>1. CASE Lock(t)
    BY <2>1, LockInv
  <2>2. CASE NoPages(t)
    BY <2>2, NoPagesInv
  <2>3. CASE Scan(t)
    BY <2>3, ScanInv
  <2>4. CASE Flip(t)
    BY <2>4, FlipInv
  <2>5. CASE BigArena(t)
    BY <2>5, BigArenaInv
  <2>6. CASE Arena(t)
    BY <2>6, ArenaInv
  <2>7. CASE Pop(t)
    BY <2>7, PopInv
  <2>8. CASE Push(t)
    BY <2>8, PushInv
  <2>9. CASE PushLast(t)
    BY <2>9, PushLastInv
  <2>10. CASE Clear(t)
    BY <2>10, ClearInv
  <2> QED
    BY <1>7, <2>1, <2>2, <2>3, <2>4, <2>5, <2>6, <2>7, <2>8, <2>9, <2>10 DEF Step
<1> QED
  BY <1>1, <1>2, <1>3, <1>4, <1>5, <1>6, <1>7

\* The allocators' invariant holds in every state, however the threads' calls
\* interleave (malloc(), free(), palloc_get_multiple(), palloc_free_multiple()).
THEOREM HeapInvariant == HeapSpec => []HeapInv
<1>1. HeapInit => HeapInv
  BY InitHeap
<1>2. HeapInv /\ [HeapNext]_heapVars => HeapInv'
  BY HeapNextInv, HeapStutter
<1> QED
  BY <1>1, <1>2, PTL DEF HeapSpec

-----------------------------------------------------------------------------
(* What the invariant says of the memory that is allocated *)

\* The cells of what is owned are in its run of pages.
LEMMA CellFacts ==
  ASSUME HeapInv, NEW t \in Caller, NEW r \in held[t], NEW c \in Cells(r)
  PROVE  LET a == r.addr
             p == PageOf(r.addr)
         IN  /\ a \in Owned(t) /\ a \in Nat /\ Granted(a) /\ p \in Page /\ p \in Nat /\ r.size = SizeAt(a)
             /\ c \in Nat /\ c >= a /\ c < a + r.size
             /\ PageOf(c) \in Run(a) /\ PageOf(c) \in used_map
             /\ IsArena(p) => /\ a \in Blocks(p, arena[p].desc) /\ r.size = arena[p].desc
                              /\ a \notin Range(free_list[arena[p].desc]) /\ Run(a) = {p}
             /\ IsBig(p) => a = Start(p) + Header
             /\ ~IsArena(p) /\ ~IsBig(p) => arena[p] = None /\ Run(a) = {p}
<1> USE DEF HeapInv
<1> PICK a : a = r.addr
  OBVIOUS
<1> PICK p : p = PageOf(a)
  OBVIOUS
<1>1. a \in Owned(t)
  BY DEF Owned
<1>2. a \in Nat /\ Granted(a)
  BY <1>1, OwnsFacts
<1>3. /\ p \in Page /\ p \in used_map /\ p \in Nat /\ Run(a) \subseteq used_map
      /\ a % PageSize = 0 => a = Start(p) /\ arena[p] = None
      /\ a % PageSize # 0 => \/ a = Start(p) + Header /\ IsBig(p)
                             \/ IsArena(p) /\ a \in Blocks(p, arena[p].desc)
  BY <1>2, GrantedFacts, HeapTypes
<1>4. r.size = SizeAt(a) /\ r.size \in Nat
  BY CallTypes DEF HeldOK
<1>5. c \in Nat /\ c >= a /\ c < a + r.size
  BY <1>2, <1>4 DEF Cells
<1>6. /\ PageSize \in Nat \ {0} /\ Header \in Nat \ {0} /\ Start(p) \in Nat
  BY <1>3, HeapAssumption, StartIsNat
<1>7. CASE a % PageSize = 0
  <2>1. a = Start(p) /\ arena[p] = None /\ ~IsArena(p) /\ ~IsBig(p)
    BY <1>3, <1>7 DEF IsArena, IsBig
  <2>2. Run(a) = {p} /\ r.size = PageSize
    BY <1>4, <1>7, <2>1 DEF Run, SizeAt
  <2>3. c < Start(p) + 1 * PageSize /\ 1 \in Nat \ {0}
    BY <1>5, <1>6, <2>1, <2>2
  <2>4. PageOf(c) \in RunFrom(p, 1)
    BY <1>3, <1>5, <2>1, <2>3, CellsOfPages
  <2>5. PageOf(c) = p
    BY <1>3, <2>4 DEF RunFrom
  <2> QED
    BY <1>1, <1>2, <1>3, <1>4, <1>5, <2>1, <2>2, <2>5
<1>8. CASE a % PageSize # 0 /\ IsBig(p)
  <2>1. a = Start(p) + Header /\ ~IsArena(p) /\ arena[p].desc = 0 /\ arena[p].free_cnt \in Nat
        /\ arena[p].free_cnt >= 1
    BY <1>3, <1>8, HeapTypes DEF IsArena, IsBig, PagesOK
  <2> PICK n \in Nat \ {0} : n = arena[p].free_cnt
    BY <2>1
  <2>2. Run(a) = RunFrom(p, n) /\ r.size = n * PageSize - Header
    BY <1>4, <1>8, <2>1 DEF Run, SizeAt
  <2>3. Start(p) <= c /\ c < Start(p) + n * PageSize
    <3>1. PICK m \in Nat : m = n * PageSize
      BY <1>6
    <3> PICK s \in Nat : s = Start(p)
      BY <1>6
    <3>2. c < (s + Header) + (m - Header) /\ c >= s + Header
      BY <1>5, <2>1, <2>2, <3>1
    <3>3. s <= c /\ c < s + m
      BY <1>5, <1>6, <3>2
    <3> QED
      BY <3>1, <3>3
  <2>4. PageOf(c) \in RunFrom(p, n)
    BY <1>3, <1>5, <2>3, CellsOfPages
  <2> QED
    BY <1>1, <1>2, <1>3, <1>4, <1>5, <1>8, <2>1, <2>2, <2>4
<1>9. CASE a % PageSize # 0 /\ ~IsBig(p)
  <2>1. IsArena(p) /\ a \in Blocks(p, arena[p].desc) /\ arena[p].desc \in Desc
    BY <1>3, <1>9, HeapTypes
  <2> PICK d \in Desc : d = arena[p].desc
    BY <2>1
  <2>2. a \notin Range(free_list[d])
    BY <1>2, <1>3, <2>1, <1>9 DEF Granted, IsArena
  <2>3. Run(a) = {p} /\ r.size = d
    BY <1>4, <1>9, <2>1, DescFacts DEF Run, SizeAt
  <2>4. Start(p) + Header <= a /\ a + d <= Start(p) + PageSize /\ d \in Nat
    BY <1>3, <2>1, BlockFacts, DescFacts
  <2>5. Start(p) <= c /\ c < Start(p) + 1 * PageSize /\ 1 \in Nat \ {0}
    BY <1>2, <1>5, <1>6, <2>3, <2>4
  <2>6. PageOf(c) \in RunFrom(p, 1)
    BY <1>3, <1>5, <2>5, CellsOfPages
  <2>7. PageOf(c) = p
    BY <1>3, <2>6 DEF RunFrom
  <2> QED
    BY <1>1, <1>2, <1>3, <1>4, <1>5, <1>9, <2>1, <2>2, <2>3, <2>7
<1> QED
  BY <1>7, <1>8, <1>9

\* Two blocks of an arena have no cell in common.
LEMMA BlockCells ==
  ASSUME NEW p \in Nat, NEW d \in Desc, NEW b \in Blocks(p, d), NEW e \in Blocks(p, d), b # e,
         NEW c \in Nat, c >= b, c < b + d
  PROVE  ~(c >= e /\ c < e + d)
<1>1. b + d <= e \/ e + d <= b
  BY BlocksApart
<1>2. b \in Nat /\ e \in Nat /\ d \in Nat
  BY BlockFacts, DescFacts
<1> QED
  BY <1>1, <1>2

LEMMA HeapDisjoint ==
  ASSUME HeapInv
  PROVE  Disjoint
<1> SUFFICES ASSUME NEW t \in Caller, NEW u \in Caller, NEW r \in held[t], NEW q \in held[u],
                    <<t, r>> # <<u, q>>, NEW c \in Cells(r), c \in Cells(q)
             PROVE  FALSE
  BY DEF Disjoint
<1> USE DEF HeapInv
<1> PICK a : a = r.addr
  OBVIOUS
<1> PICK b : b = q.addr
  OBVIOUS
<1> PICK p : p = PageOf(a)
  OBVIOUS
<1>1. /\ a \in Owned(t) /\ p \in Page /\ p \in Nat
      /\ c \in Nat /\ c >= a /\ c < a + r.size /\ PageOf(c) \in Run(a)
      /\ IsArena(p) => a \in Blocks(p, arena[p].desc) /\ r.size = arena[p].desc
  BY CellFacts
<1>2. /\ b \in Owned(u)
      /\ c >= b /\ c < b + q.size /\ PageOf(c) \in Run(b)
      /\ IsArena(PageOf(b)) => /\ b \in Blocks(PageOf(b), arena[PageOf(b)].desc)
                               /\ q.size = arena[PageOf(b)].desc
  BY CellFacts
<1>3. a # b
  <2>1. CASE t = u
    BY <2>1 DEF HeldOK
  <2>2. CASE t # u
    BY <1>1, <1>2, <2>2 DEF OwnedOK
  <2> QED
    BY <2>1, <2>2
<1>4. PageOf(b) = p /\ IsArena(p)
  <2>1. Run(a) \cap Run(b) = {} \/ (PageOf(a) = PageOf(b) /\ IsArena(PageOf(a)))
    BY <1>1, <1>2, <1>3 DEF OwnedOK
  <2> QED
    BY <1>1, <1>2, <2>1
<1> PICK d \in Desc : d = arena[p].desc
  BY <1>1, <1>4, HeapTypes
<1>5. a \in Blocks(p, d) /\ b \in Blocks(p, d) /\ r.size = d /\ q.size = d
  BY <1>1, <1>2, <1>4
<1> QED
  BY <1>1, <1>2, <1>3, <1>5, BlockCells

LEMMA HeapSheltered ==
  ASSUME HeapInv
  PROVE  Sheltered
<1> SUFFICES ASSUME NEW t \in Caller, NEW r \in held[t], NEW c \in Cells(r)
             PROVE  /\ PageOf(c) \in used_map
                    /\ \A d \in Desc : c \notin FreeCells(d)
                    /\ \A p \in Page : arena[p] # None => c \notin Start(p) .. Start(p) + Header - 1
  BY DEF Sheltered, HeldNow
<1> USE DEF HeapInv
<1> PICK a : a = r.addr
  OBVIOUS
<1> PICK p : p = PageOf(a)
  OBVIOUS
<1>1. /\ a \in Owned(t) /\ a \in Nat /\ p \in Page /\ p \in Nat
      /\ c \in Nat /\ c >= a /\ c < a + r.size
      /\ PageOf(c) \in Run(a) /\ PageOf(c) \in used_map
      /\ IsArena(p) => /\ a \in Blocks(p, arena[p].desc) /\ r.size = arena[p].desc
                       /\ a \notin Range(free_list[arena[p].desc]) /\ Run(a) = {p}
      /\ IsBig(p) => a = Start(p) + Header
      /\ ~IsArena(p) /\ ~IsBig(p) => arena[p] = None /\ Run(a) = {p}
  BY CellFacts
<1>2. PageSize \in Nat \ {0} /\ Header \in Nat \ {0} /\ Header < PageSize
  BY HeapAssumption
<1>3. ASSUME NEW d \in Desc, c \in FreeCells(d) PROVE FALSE
  <2>1. PICK b \in Range(free_list[d]), k \in 0 .. d - 1 : c = b + k
    BY <1>3 DEF FreeCells
  <2> PICK q : q = PageOf(b)
    OBVIOUS
  <2>2. q \in Page /\ IsArena(q) /\ arena[q].desc = d /\ b \in Blocks(q, d) /\ q \in Nat
    BY <2>1, HeapTypes DEF FreeOK
  <2>3. b \in Nat /\ Start(q) + Header <= b /\ b + d <= Start(q) + PageSize /\ d \in Nat /\ Start(q) \in Nat
    BY <2>2, BlockFacts, DescFacts, StartIsNat
  <2>4. Start(q) <= c /\ c < Start(q) + 1 * PageSize /\ c >= b /\ c < b + d /\ 1 \in Nat \ {0}
    BY <1>2, <2>1, <2>3
  <2>5. PageOf(c) \in RunFrom(q, 1)
    BY <1>1, <2>2, <2>4, CellsOfPages
  <2>6. PageOf(c) = q
    BY <2>2, <2>5 DEF RunFrom
  <2>7. q = p
    BY <1>1, <2>2, <2>6, ArenaAlone
  <2>8. a \in Blocks(q, d) /\ r.size = d /\ a # b
    BY <1>1, <2>1, <2>2, <2>7
  <2> QED
    BY <1>1, <2>2, <2>4, <2>8, BlockCells
<1>4. ASSUME NEW q \in Page, arena[q] # None, c \in Start(q) .. Start(q) + Header - 1
      PROVE  FALSE
  <2>1. q \in Nat /\ Start(q) \in Nat
    BY HeapTypes, StartIsNat
  <2>2. Start(q) <= c /\ c < Start(q) + 1 * PageSize /\ c < Start(q) + Header /\ 1 \in Nat \ {0}
    BY <1>1, <1>2, <1>4, <2>1
  <2>3. PageOf(c) \in RunFrom(q, 1)
    BY <1>1, <2>1, <2>2, CellsOfPages
  <2>4. PageOf(c) = q
    BY <2>1, <2>3 DEF RunFrom
  <2>5. CASE IsBig(p)
    <3>1. q # p
      BY <1>1, <2>2, <2>5
    <3>2. q \in RunFrom(p, arena[p].free_cnt)
      BY <1>1, <2>4, <2>5 DEF Run
    <3> QED
      BY <1>1, <1>4, <2>5, <3>1, <3>2 DEF PagesOK
  <2>6. CASE IsArena(p)
    <3>1. q = p
      BY <1>1, <2>4, <2>6
    <3>2. Start(q) + Header <= a
      BY <1>1, <2>6, <3>1, BlockFacts, HeapTypes
    <3>3. Start(q) + Header \in Nat
      BY <1>2, <2>1
    <3> QED
      BY <1>1, <2>2, <3>2, <3>3
  <2>7. CASE ~IsBig(p) /\ ~IsArena(p)
    BY <1>1, <1>4, <2>4, <2>7
  <2> QED
    BY <2>5, <2>6, <2>7
<1> QED
  BY <1>1, <1>3, <1>4

\* However the threads' calls interleave, no two allocated regions overlap, and
\* none overlaps a free block or an arena's header or leaves the marked pages
\* (malloc(), free(), palloc_get_multiple(), palloc_free_multiple()).
THEOREM HeldDisjoint == HeapSpec => [](HeapTypeOK /\ Disjoint /\ Sheltered)
<1>1. HeapInv => HeapTypeOK /\ Disjoint /\ Sheltered
  BY HeapDisjoint, HeapSheltered DEF HeapInv
<1> QED
  BY <1>1, HeapInvariant, PTL

-----------------------------------------------------------------------------
(* What it says of the pages and the free lists *)

\* What free() is about is in the pages of its call.
LEMMA BackRun ==
  ASSUME HeapInv, NEW t \in Caller, GivesBack(t)
  PROVE  LET c == call[t]
         IN  /\ c.page \in Page /\ PageOf(c.addr) = c.page
             /\ Run(c.addr) \subseteq c.page .. c.page + c.cnt - 1
             /\ c.page \in c.page .. c.page + c.cnt - 1
             /\ IsArena(c.page) => Stands(t, "push")
<1> USE DEF HeapInv
<1> PICK x : x = call[t].addr
  OBVIOUS
<1> PICK p : p = call[t].page
  OBVIOUS
<1>1. x \in Owned(t) /\ PageOf(x) = p /\ p \in Page /\ p \in Nat
  BY BackPage, HeapTypes
<1>2. ~NoCall(t) /\ call[t] \in CallRecord /\ CallShape(call[t]) /\ call[t].pc \in {"push", "clear"}
  BY CallTypes DEF CallsOK, GivesBack
<1>3. call[t].cnt \in Nat /\ call[t].cnt >= 1
  BY <1>2, CallTypes DEF CallShape
<1>4. p \in p .. p + call[t].cnt - 1
  BY <1>1, <1>3
<1>5. CASE call[t].pc = "push"
  <2>1. Stands(t, "push") /\ IsArena(p)
    <3>1. call[t].kind = "block"
      BY <1>2, <1>5 DEF CallShape
    <3> QED
      BY <1>2, <1>5, <3>1 DEF BackOK, BackFor, Stands
  <2>2. Run(x) = {p}
    BY <1>1, <2>1 DEF Run, IsArena, IsBig
  <2> QED
    BY <1>1, <1>4, <2>1, <2>2
<1>6. CASE call[t].pc = "clear"
  <2>1. Stands(t, "clear")
    BY <1>2, <1>6 DEF Stands
  <2>2. call[t].kind # "block"
    BY <1>6 DEF GivesBack
  <2>3. \A r \in held[t] : r.addr # x
    BY DEF HeldOK, Back
  <2>4. Run(x) = p .. p + call[t].cnt - 1 /\ ~IsArena(p)
    BY <1>1, <2>1, <2>3, ClearFacts
  <2> QED
    BY <1>1, <1>4, <2>4
<1> QED
  BY <1>2, <1>5, <1>6

\* The pages of an allocated region are those of its cells and of its header.
LEMMA HeldRun ==
  ASSUME HeapInv, NEW t \in Caller, NEW r \in held[t], NEW q \in Run(r.addr)
  PROVE  q \in {PageOf(c) : c \in Cells(r) \cup {r.addr - Header}}
<1> USE DEF HeapInv
<1> PICK a : a = r.addr
  OBVIOUS
<1> PICK p : p = PageOf(a)
  OBVIOUS
<1>1. a \in Owned(t) /\ a \in Nat /\ Granted(a) /\ r.size = SizeAt(a) /\ r.size \in Nat
  BY OwnsFacts, CallTypes DEF Owned, HeldOK
<1>2. /\ p \in Page /\ p \in Nat
      /\ a % PageSize = 0 => a = Start(p) /\ arena[p] = None
      /\ a % PageSize # 0 => \/ a = Start(p) + Header /\ IsBig(p)
                             \/ IsArena(p) /\ a \in Blocks(p, arena[p].desc)
  BY <1>1, GrantedFacts, HeapTypes
<1>3. /\ PageSize \in Nat \ {0} /\ Header \in Nat \ {0} /\ Header < PageSize /\ Start(p) \in Nat
  BY <1>2, HeapAssumption, StartIsNat
<1>4. CASE ~IsBig(p)
  <2>1. q = p
    BY <1>4 DEF Run
  <2>2. r.size \in Nat \ {0}
    <3>1. CASE a % PageSize = 0
      BY <1>1, <1>3, <3>1 DEF SizeAt
    <3>2. CASE a % PageSize # 0
      <4>1. IsArena(p) /\ arena[p].desc \in Desc
        BY <1>2, <1>4, <3>2, HeapTypes
      <4>2. r.size = arena[p].desc
        BY <1>1, <3>2, <4>1 DEF SizeAt, IsArena
      <4> QED
        BY <4>1, <4>2, DescFacts
    <3> QED
      BY <3>1, <3>2
  <2>3. a \in Cells(r)
    BY <1>1, <2>2 DEF Cells
  <2> QED
    BY <2>1, <2>3
<1>5. CASE IsBig(p)
  <2>1. arena[p] # None /\ arena[p].desc = 0 /\ arena[p].free_cnt \in Nat
    BY <1>2, <1>5, HeapTypes DEF IsBig
  <2> PICK n \in Nat : n = arena[p].free_cnt
    BY <2>1
  <2>2. a % PageSize # 0 /\ a = Start(p) + Header
    BY <1>2, <1>5, <2>1 DEF IsArena
  <2>3. r.size = n * PageSize - Header /\ q \in RunFrom(p, n)
    BY <1>1, <1>5, <2>1, <2>2 DEF SizeAt, Run
  <2>4. q \in Nat /\ q >= p /\ q < p + n
    BY <1>2, <2>3 DEF RunFrom
  <2>5. CASE q = p
    <3>1. a - Header = Start(p) + 0 /\ 0 \in Nat /\ 0 < PageSize
      BY <1>3, <2>2
    <3>2. PageOf(a - Header) = p
      BY <1>2, <3>1, PageOfAt
    <3> QED
      BY <2>5, <3>2
  <2>6. CASE q # p
    <3>1. Start(p) + PageSize <= Start(q) /\ Start(q) \in Nat
      BY <1>2, <2>4, <2>6, StartsApart
    <3>2. Start(q) + PageSize <= Start(p) + n * PageSize
      <4>1. q + 1 <= p + n /\ q + 1 \in Nat /\ p + n \in Nat
        BY <1>2, <2>4
      <4>2. (q + 1) * PageSize <= (p + n) * PageSize
        BY <1>3, <4>1
      <4>3. (q + 1) * PageSize = q * PageSize + PageSize /\ (p + n) * PageSize = p * PageSize + n * PageSize
        BY <1>2, <1>3, <2>4
      <4> QED
        BY <4>2, <4>3 DEF Start
    <3>3. PICK m \in Nat : m = n * PageSize
      BY <1>3
    <3> PICK s \in Nat : s = Start(p)
      BY <1>3
    <3> PICK z \in Nat : z = Start(q)
      BY <3>1
    <3>4. z >= s + Header /\ z < (s + Header) + (m - Header)
      BY <1>3, <3>1, <3>2, <3>3
    <3>5. z \in Cells(r)
      <4>1. Cells(r) = s + Header .. (s + Header) + (m - Header) - 1
        BY <2>2, <2>3, <3>3 DEF Cells
      <4> QED
        BY <1>3, <3>4, <4>1
    <3>6. PageOf(Start(q) + 0) = q /\ Start(q) + 0 = z
      BY <1>3, <2>4, PageOfAt
    <3> QED
      BY <3>5, <3>6
  <2> QED
    BY <2>5, <2>6
<1> QED
  BY <1>4, <1>5

\* An owned address is a region that is allocated, or a call is about it.
LEMMA OwnedRun ==
  ASSUME HeapInv, NEW t \in Caller, NEW a \in Owned(t), NEW q \in Run(a)
  PROVE  \/ \E r \in HeldNow : q \in {PageOf(c) : c \in Cells(r) \cup {r.addr - Header}}
         \/ ~NoCall(t) /\ q \in call[t].page .. call[t].page + call[t].cnt - 1
<1>1. CASE \E r \in held[t] : a = r.addr
  BY <1>1, HeldRun DEF HeldNow
<1>2. CASE a \in Back(t)
  <2>1. GivesBack(t) /\ a = call[t].addr
    BY <1>2 DEF Back
  <2> QED
    BY <2>1, BackRun DEF GivesBack
<1> QED
  BY <1>1, <1>2 DEF Owned

LEMMA HeapNoPageLost ==
  ASSUME HeapInv
  PROVE  NoPageLost
<1> USE DEF HeapInv
<1>1. ASSUME NEW p \in used_map
      PROVE  \/ \E r \in HeldNow : p \in {PageOf(c) : c \in Cells(r) \cup {r.addr - Header}}
             \/ \E t \in Caller : ~NoCall(t) /\ p \in call[t].page .. call[t].page + call[t].cnt - 1
             \/ \E t \in Caller : Stands(t, "pop") /\ arena[p] # None /\ arena[p].desc = call[t].desc
  <2>1. p \in Page /\ p \in Nat
    BY HeapTypes
  <2>2. CASE \E t \in Caller : p \in Reserved(t)
    <3>1. PICK t \in Caller : p \in Reserved(t)
      BY <2>2
    <3>2. ~NoCall(t) /\ p \in call[t].page .. call[t].page + call[t].cnt - 1
      BY <3>1 DEF Reserved, Reserves, RunFrom
    <3> QED
      BY <3>2
  <2>3. CASE \E t \in Caller : \E a \in Owned(t) : p \in Run(a)
    BY <2>3, OwnedRun
  <2>4. CASE IsArena(p) /\ GoneSoon(p)
    <3>1. PICK t \in Caller : Stands(t, "clear") /\ call[t].kind = "block" /\ call[t].page = p
      BY <2>4 DEF GoneSoon
    <3>2. p \in Reserved(t)
      BY <3>1, ReservedUsed DEF Reserves, Stands
    <3> QED
      BY <2>2, <3>2
  <2>5. CASE IsArena(p) /\ ~GoneSoon(p)
    <3>1. CountsFor(p)
      BY <2>1, <2>5 DEF CountsOK
    <3>2. CASE Blocks(p, arena[p].desc) \ FreeIn(p) = {}
      BY <2>5, <3>1, <3>2 DEF CountsFor, IsArena
    <3>3. CASE Blocks(p, arena[p].desc) \ FreeIn(p) # {}
      <4>1. PICK b \in Blocks(p, arena[p].desc), t \in Caller : b \in Owned(t)
        BY <3>1, <3>3 DEF CountsFor
      <4>2. PageOf(b) = p
        BY <2>1, <2>5, HeapTypes, BlockFacts
      <4>3. p \in Run(b)
        BY <4>1, <4>2, OwnsFacts, GrantedFacts
      <4> QED
        BY <2>3, <4>1, <4>3
    <3> QED
      BY <3>2, <3>3
  <2> QED
    BY <2>2, <2>3, <2>4, <2>5 DEF UsedOK
<1>2. ASSUME NEW d \in Desc, NEW b \in Range(free_list[d])
      PROVE  PageOf(b) \in used_map /\ arena[PageOf(b)] # None
  <2>1. PageOf(b) \in Page /\ IsArena(PageOf(b))
    BY DEF FreeOK
  <2> QED
    BY <2>1 DEF PagesOK, IsArena
<1> QED
  BY <1>1, <1>2 DEF NoPageLost

LEMMA HeapCounts ==
  ASSUME HeapInv
  PROVE  ArenaCounts
<1> USE DEF HeapInv
<1>1. ASSUME NEW p \in Page, arena[p] # None, arena[p].desc # 0, NEW d, d = arena[p].desc,
             NEW out, out = Blocks(p, d) \ Range(free_list[d]), desc_lock[d] = None
      PROVE  /\ arena[p].free_cnt = Cardinality(Blocks(p, d) \cap Range(free_list[d]))
             /\ out # {}
             /\ \A b \in out : (\E r \in HeldNow : r.addr = b)
                  \/ \E t \in Caller : Stands(t, "push") /\ call[t].addr = b
  <2>1. IsArena(p) /\ d \in Desc /\ p \in Nat
    BY <1>1, HeapTypes DEF IsArena
  <2>2. \A u \in Caller : ~HasDesc(u, d)
    <3>1. \A u \in Caller : desc_lock[d] # u
      BY <1>1, NoneIsNothing
    <3> QED
      BY <2>1, <3>1 DEF LocksHeld
  <2>3. ~GoneSoon(p)
    BY <1>1, <2>1, <2>2, NotEmptied
  <2>4. CountsFor(p) /\ FreeIn(p) = Blocks(p, d) \cap Range(free_list[d])
    BY <1>1, <2>1, <2>3 DEF CountsOK, FreeIn
  <2>5. out = Blocks(p, d) \ FreeIn(p)
    BY <1>1, <2>4
  <2>6. out # {}
    <3> SUFFICES ASSUME out = {} PROVE FALSE
      OBVIOUS
    <3>1. PICK t \in Caller : Stands(t, "pop") /\ call[t].page = p /\ call[t].desc = d
      BY <1>1, <2>4, <2>5 DEF CountsFor
    <3>2. ~NoCall(t) /\ call[t].pc = "pop" /\ CallShape(call[t])
      BY <3>1 DEF Stands, CallsOK
    <3>3. HasDesc(t, d)
      BY <3>1, <3>2 DEF CallShape, HasDesc
    <3> QED
      BY <2>2, <3>3
  <2>7. ASSUME NEW b \in out
        PROVE  (\E r \in HeldNow : r.addr = b) \/ \E t \in Caller : Stands(t, "push") /\ call[t].addr = b
    <3>1. PICK t \in Caller : b \in Owned(t)
      BY <1>1, <2>4, <2>5 DEF CountsFor
    <3>2. CASE \E r \in held[t] : b = r.addr
      BY <3>2 DEF HeldNow
    <3>3. CASE b \in Back(t)
      <4>1. GivesBack(t) /\ b = call[t].addr
        BY <3>3 DEF Back
      <4>2. PageOf(b) = p
        BY <1>1, <2>1, BlockFacts
      <4>3. Stands(t, "push")
        BY <2>1, <4>1, <4>2, BackRun
      <4> QED
        BY <4>1, <4>3
    <3> QED
      BY <3>1, <3>2, <3>3 DEF Owned
  <2> QED
    BY <1>1, <2>4, <2>6, <2>7 DEF CountsFor
<1>2. NoPageLost
  BY HeapNoPageLost
<1> HIDE DEF HeapInv
<1>3. ASSUME NEW p \in Page, arena[p] # None /\ arena[p].desc # 0
      PROVE  LET d == arena[p].desc
                 out == Blocks(p, d) \ Range(free_list[d])
             IN  desc_lock[d] # None \/
                   /\ arena[p].free_cnt = Cardinality(Blocks(p, d) \cap Range(free_list[d]))
                   /\ out # {}
                   /\ \A b \in out : (\E r \in HeldNow : r.addr = b)
                        \/ \E t \in Caller : Stands(t, "push") /\ call[t].addr = b
  <2> PICK d : d = arena[p].desc
    OBVIOUS
  <2> PICK out : out = Blocks(p, d) \ Range(free_list[d])
    OBVIOUS
  <2> QED
    BY <1>1, <1>3
<1> QED
  BY <1>2, <1>3 DEF ArenaCounts

\* An arena whose descriptor is not locked counts its free blocks, all others
\* are allocated or coming back, one at least, and no page is lost (malloc(),
\* free()).
THEOREM ArenasCounted == HeapSpec => []ArenaCounts
<1>1. HeapInv => ArenaCounts
  BY HeapCounts
<1> QED
  BY <1>1, HeapInvariant, PTL

-----------------------------------------------------------------------------
(* The bytes that were asked for *)

\* No request is so large that its size with a header wraps around.
NoWrap ==
  /\ \A size \in Sizes : size + Header <= Word
  /\ \A a, b \in Counts : a * b + Header <= Word

\* A call that allocates will have the bytes it was asked for; for 0 pages there
\* is nothing to be had.
AskedFor(t) ==
  call[t].pc \notin {"push", "clear"} =>
    /\ call[t].kind = "block" => call[t].asked <= call[t].desc
    /\ call[t].kind = "big" /\ call[t].cnt # 0 =>
         call[t].asked + Header <= call[t].cnt * PageSize
    /\ call[t].kind = "page" => call[t].asked = PageSize
AskedOK ==
  \A t \in Caller : /\ ~NoCall(t) => AskedFor(t)
                    /\ \A r \in held[t] : r.size >= r.asked

\* A number below the modulus is its own remainder.
LEMMA SmallRemainder ==
  ASSUME NEW m \in Nat, NEW w \in Nat \ {0}, m < w
  PROVE  m % w = m
OBVIOUS

\* A remainder loses the modulus at least, if the number is not below it.
LEMMA Wrapped ==
  ASSUME NEW m \in Nat, NEW w \in Nat \ {0}, m >= w
  PROVE  m % w \in Nat /\ m % w <= m - w
OBVIOUS

\* The pages for a big block have room for it and its header; if rounding up to
\* pages wraps around, there are none.
LEMMA BigEnough ==
  ASSUME NEW size \in Nat, size + Header <= Word, PageCnt(size) # 0
  PROVE  size + Header <= PageCnt(size) * PageSize
<1>1. PageSize \in Nat \ {0} /\ Header \in Nat \ {0} /\ Word \in Nat \ {0}
  BY HeapAssumption
<1> DEFINE n == size + Header
           k == (n % Word) + PageSize - 1
           m == k % Word
<1>2. n \in Nat /\ n % Word \in Nat /\ n <= Word
  BY <1>1
<1>3. k \in Nat /\ m \in Nat /\ m = k % Word
  BY <1>1, <1>2
<1>4. PageCnt(size) = m \div PageSize
  BY DEF PageCnt
<1> HIDE DEF k, m
<1>5. PICK q \in Nat, r \in Nat : r < PageSize /\ m = q * PageSize + r /\ q = m \div PageSize
  BY <1>1, <1>3, Division
<1>6. ~(m < PageSize)
  <2> SUFFICES ASSUME m < PageSize PROVE FALSE
    OBVIOUS
  <2>1. m \div PageSize = 0
    BY <1>1, <1>3
  <2> QED
    BY <1>4, <2>1
<1>7. n < Word
  <2> SUFFICES ASSUME n = Word PROVE FALSE
    BY <1>1, <1>2
  <2>1. n % Word = 0
    BY <1>1
  <2>2. k = PageSize - 1
    BY <1>1, <2>1 DEF k
  <2>3. CASE k < Word
    BY <1>1, <1>3, <1>6, <2>2, <2>3, SmallRemainder
  <2>4. CASE k >= Word
    BY <1>1, <1>3, <1>6, <2>2, <2>4, Wrapped
  <2> QED
    BY <1>1, <1>3, <2>3, <2>4
<1>8. k = n + PageSize - 1
  BY <1>1, <1>2, <1>7, SmallRemainder DEF k
<1>9. k < Word
  <2> SUFFICES ASSUME k >= Word PROVE FALSE
    BY <1>1, <1>3
  <2>1. m <= k - Word
    BY <1>1, <1>3, Wrapped
  <2> QED
    BY <1>1, <1>2, <1>3, <1>6, <1>7, <1>8, <2>1
<1>10. m = n + PageSize - 1
  BY <1>1, <1>3, <1>8, <1>9, SmallRemainder
<1> HIDE DEF n
<1>11. PICK z \in Nat : z = q * PageSize
  BY <1>1, <1>5
<1>12. m = z + r
  BY <1>5, <1>11
<1>13. n <= z
  BY <1>1, <1>2, <1>5, <1>10, <1>11, <1>12
<1> QED
  BY <1>4, <1>5, <1>11, <1>13 DEF n

LEMMA AskedStep ==
  ASSUME AskedOK, NEW t \in Caller, Others(t), ~NoCall(t)' => AskedFor(t)',
         \A r \in held'[t] : r \in held[t] \/ r.size >= r.asked
  PROVE  AskedOK'
<1> SUFFICES ASSUME NEW u \in Caller, u # t
             PROVE  /\ ~NoCall(u)' => AskedFor(u)'
                    /\ \A r \in held'[u] : r.size >= r.asked
  BY DEF AskedOK
<1>1. call'[u] = call[u] /\ held'[u] = held[u]
  BY DEF Others
<1> QED
  BY <1>1 DEF AskedOK, AskedFor, NoCall

\* A request asks for what its caller did.
LEMMA AskedRequest ==
  ASSUME HeapInv, AskedOK, NEW t \in Caller, NEW size \in Nat, NEW old \in Nat,
         size + Header <= Word,
         call' = [call EXCEPT ![t] = Request(size, size, old)], held' = held
  PROVE  AskedOK'
<1> DEFINE c == Request(size, size, old)
<1>1. /\ c \in CallRecord /\ c.asked = size
      /\ \/ c.pc = "lock" /\ c.kind = "block" /\ c.desc \in Desc /\ c.desc >= size
         \/ c.pc = "scan" /\ c.kind = "big" /\ c.cnt = PageCnt(size)
  BY RequestFacts
<1> HIDE DEF c
<1>2. call'[t] = c /\ Others(t)
  <2>1. call \in [Caller -> CallRecord \cup {None}] /\ call' = [call EXCEPT ![t] = c]
    BY DEF HeapInv, HeapTypeOK, c
  <2> QED
    BY <2>1 DEF Others
<1>3. AskedFor(t)'
  <2>1. PageCnt(size) # 0 => size + Header <= PageCnt(size) * PageSize
    BY BigEnough
  <2> QED
    BY <1>1, <1>2, <2>1 DEF AskedFor
<1> QED
  BY <1>2, <1>3, AskedStep

\* A call goes on, and asks for the same.
LEMMA AskedGo ==
  ASSUME HeapInv, AskedOK, NEW t \in Caller, ~NoCall(t), call[t].pc # "clear", NEW to, Go(t, to),
         to \in {"lock", "scan", "flip", "arena", "pop", "push", "clear"},
         call[t].pc = "push" => to = "clear", held' = held
  PROVE  AskedOK'
<1>1. /\ call'[t].pc = to
      /\ call'[t].kind = call[t].kind /\ call'[t].desc = call[t].desc
      /\ call'[t].cnt = call[t].cnt /\ call'[t].asked = call[t].asked
      /\ \A u \in Caller : u # t => call'[u] = call[u]
  BY GoFacts DEF HeapInv
<1>2. AskedFor(t)'
  BY <1>1 DEF AskedFor, AskedOK
<1> QED
  BY <1>1, <1>2, AskedStep DEF Others

LEMMA AskedFreeing ==
  ASSUME NEW a
  PROVE  Freeing(a).pc \in {"push", "clear"}
BY DEF Freeing

\* A call returns a region that is large enough.
LEMMA AskedReturn ==
  ASSUME HeapInv, AskedOK, NEW t \in Caller, NEW addr, NEW size, Return(t, addr, size),
         size >= call[t].asked
  PROVE  AskedOK'
<1> PICK c : c = IF call[t].old = 0 THEN None ELSE Freeing(call[t].old)
  OBVIOUS
<1> PICK new : new = [addr |-> addr, size |-> size, asked |-> call[t].asked]
  OBVIOUS
<1>1. /\ call' = [call EXCEPT ![t] = c]
      /\ held' = [held EXCEPT ![t] = Without(t, call[t].old) \cup {new}]
  BY DEF Return
<1>2. /\ call \in [Caller -> CallRecord \cup {None}] /\ held \in [Caller -> SUBSET Region]
  BY DEF HeapInv, HeapTypeOK
<1>3. Others(t) /\ call'[t] = c /\ held'[t] = Without(t, call[t].old) \cup {new}
  BY <1>1, <1>2 DEF Others
<1>4. ~NoCall(t)' => AskedFor(t)'
  <2>1. c = None \/ c.pc \in {"push", "clear"}
    BY AskedFreeing
  <2> QED
    BY <1>3, <2>1 DEF AskedFor, NoCall
<1>5. new.size >= new.asked
  OBVIOUS
<1>6. \A r \in held'[t] : r \in held[t] \/ r.size >= r.asked
  BY <1>3, <1>5 DEF Without
<1> QED
  BY <1>3, <1>4, <1>6, AskedStep

\* A call ends without a region.
LEMMA AskedEnd ==
  ASSUME HeapInv, AskedOK, NEW t \in Caller, call' = [call EXCEPT ![t] = None], held' = held
  PROVE  AskedOK'
<1>1. Others(t) /\ NoCall(t)'
  BY EndFacts DEF HeapInv
<1> QED
  BY <1>1, AskedStep

LEMMA AskedCalls ==
  ASSUME NoWrap, HeapInv, AskedOK, NEW t \in Caller,
         \/ \E size \in Sizes : Malloc(t, size)
         \/ \E a, b \in Counts : Calloc(t, a, b)
         \/ GetPage(t)
         \/ \E r \in held[t] : Free(t, r) \/ \E size \in Sizes : Realloc(t, r, size)
  PROVE  AskedOK'
<1>1. CASE \E size \in Sizes : Malloc(t, size)
  <2>1. PICK size \in Sizes : Malloc(t, size)
    BY <1>1
  <2>2. size \in Nat /\ 0 \in Nat /\ size + Header <= Word
    BY HeapAssumption DEF NoWrap
  <2>3. call' = [call EXCEPT ![t] = Request(size, size, 0)] /\ held' = held
    BY <2>1 DEF Malloc
  <2> QED
    BY <2>2, <2>3, AskedRequest
<1>2. CASE \E a, b \in Counts : Calloc(t, a, b)
  <2>1. PICK a \in Counts, b \in Counts : Calloc(t, a, b)
    BY <1>2
  <2>2. a * b \in Nat /\ 0 \in Nat /\ a * b + Header <= Word
    <3>1. a \in Nat /\ b \in Nat
      BY HeapAssumption
    <3> QED
      BY <3>1 DEF NoWrap
  <2> PICK size \in Nat : size = a * b
    BY <2>2
  <2>3. (a * b) % Word = size
    <3>1. Word \in Nat \ {0} /\ size < Word
      BY <2>2, HeapAssumption
    <3> QED
      BY <3>1, SmallRemainder
  <2>4. call' = [call EXCEPT ![t] = Request(size, size, 0)] /\ held' = held
    BY <2>1, <2>3 DEF Calloc
  <2> QED
    BY <2>2, <2>4, AskedRequest
<1>3. CASE GetPage(t)
  <2> PICK c : c = [pc |-> "scan", kind |-> "page", desc |-> 0, cnt |-> 1,
                    asked |-> PageSize, page |-> 0, addr |-> 0, old |-> 0]
    OBVIOUS
  <2>1. call' = [call EXCEPT ![t] = c] /\ held' = held /\ call \in [Caller -> CallRecord \cup {None}]
    BY <1>3 DEF GetPage, HeapInv, HeapTypeOK
  <2>2. call'[t] = c /\ Others(t)
    BY <2>1 DEF Others
  <2>3. AskedFor(t)'
    BY <2>2 DEF AskedFor
  <2> QED
    BY <2>1, <2>2, <2>3, AskedStep
<1>4. CASE \E r \in held[t] : Free(t, r)
  <2>1. PICK r \in held[t] : Free(t, r)
    BY <1>4
  <2> PICK c : c = IF IsPage(r)
                   THEN [pc |-> "clear", kind |-> "page", desc |-> 0, cnt |-> 1, asked |-> 0,
                         page |-> PageOf(r.addr), addr |-> r.addr, old |-> 0]
                   ELSE Freeing(r.addr)
    OBVIOUS
  <2>2. /\ call' = [call EXCEPT ![t] = c] /\ held' = [held EXCEPT ![t] = Without(t, r.addr)]
        /\ call \in [Caller -> CallRecord \cup {None}] /\ held \in [Caller -> SUBSET Region]
    BY <2>1 DEF Free, HeapInv, HeapTypeOK
  <2>3. call'[t] = c /\ held'[t] \subseteq held[t] /\ Others(t)
    BY <2>2 DEF Others, Without
  <2>4. c.pc \in {"push", "clear"}
    BY AskedFreeing
  <2>5. AskedFor(t)'
    BY <2>3, <2>4 DEF AskedFor
  <2> QED
    BY <2>3, <2>5, AskedStep
<1>5. CASE \E r \in held[t] : \E size \in Sizes : Realloc(t, r, size)
  <2>1. PICK r \in held[t], size \in Sizes : Realloc(t, r, size)
    BY <1>5
  <2>2. size \in Nat /\ r.addr \in Nat /\ size + Header <= Word
    BY HeapAssumption, CallTypes DEF NoWrap, HeapInv
  <2>3. call' = [call EXCEPT ![t] = Request(size, size, r.addr)] /\ held' = held
    BY <2>1 DEF Realloc
  <2> QED
    BY <2>2, <2>3, AskedRequest
<1> QED
  BY <1>1, <1>2, <1>3, <1>4, <1>5

LEMMA AskedSteps ==
  ASSUME HeapInv, AskedOK, NEW t \in Caller, Step(t)
  PROVE  AskedOK'
<1>1. \A to : Stands(t, to) => ~NoCall(t) /\ call[t].pc = to
  BY DEF Stands
<1>2. ~NoCall(t) => call[t] \in CallRecord /\ CallShape(call[t]) /\ AskedFor(t)
  BY CallTypes DEF HeapInv, CallsOK, AskedOK
<1>3. CASE Lock(t)
  <2> PICK to : to = IF free_list[call[t].desc] = <<>> THEN "scan" ELSE "pop"
    OBVIOUS
  <2>1. Go(t, to) /\ held' = held /\ to \in {"scan", "pop"} /\ Stands(t, "lock")
    BY <1>3 DEF Lock
  <2> QED
    BY <1>1, <2>1, AskedGo
<1>4. CASE NoPages(t) \/ Push(t) \/ Clear(t)
  BY <1>4, AskedEnd DEF NoPages, Push, Clear
<1>5. CASE Scan(t)
  <2> PICK p : p = Min(Gaps(call[t].cnt))
    OBVIOUS
  <2>1. /\ Stands(t, "scan") /\ held' = held
        /\ call' = [call EXCEPT ![t] = [call[t] EXCEPT !.pc = "flip", !.page = p]]
    BY <1>5 DEF Scan
  <2>2. call \in [Caller -> CallRecord \cup {None}]
    BY DEF HeapInv, HeapTypeOK
  <2> PICK c : c = [call[t] EXCEPT !.pc = "flip", !.page = p]
    OBVIOUS
  <2>3. c.pc = "flip" /\ c.kind = call[t].kind /\ c.desc = call[t].desc /\ c.cnt = call[t].cnt
        /\ c.asked = call[t].asked
    BY <1>1, <1>2, <2>1 DEF CallRecord
  <2>4. call'[t] = c /\ Others(t)
    BY <2>1, <2>2 DEF Others
  <2>5. AskedFor(t)'
    BY <1>1, <1>2, <2>1, <2>3, <2>4 DEF AskedFor
  <2> QED
    BY <2>1, <2>4, <2>5, AskedStep
<1>6. CASE Flip(t)
  <2>1. Stands(t, "flip")
    BY <1>6 DEF Flip
  <2>2. CASE call[t].kind = "page"
    <3>1. Return(t, Start(call[t].page), PageSize)
      BY <1>6, <2>2 DEF Flip
    <3>2. PageSize >= call[t].asked
      <4>1. call[t].asked = PageSize
        BY <1>1, <1>2, <2>1, <2>2 DEF AskedFor
      <4> QED
        BY <4>1, HeapAssumption
    <3> QED
      BY <3>1, <3>2, AskedReturn
  <2>3. CASE call[t].kind # "page"
    <3>1. Go(t, "arena") /\ held' = held
      BY <1>6, <2>3 DEF Flip
    <3> QED
      BY <1>1, <2>1, <3>1, AskedGo
  <2> QED
    BY <2>2, <2>3
<1>7. CASE BigArena(t)
  <2>1. /\ Stands(t, "arena") /\ call[t].kind = "big"
        /\ Return(t, Start(call[t].page) + Header, call[t].cnt * PageSize - Header)
    BY <1>7 DEF BigArena
  <2>2. call[t].asked + Header <= call[t].cnt * PageSize
    BY <1>1, <1>2, <2>1 DEF AskedFor, CallShape
  <2>3. call[t].cnt * PageSize - Header >= call[t].asked
    <3>1. call[t].cnt \in Nat /\ call[t].asked \in Nat
      BY <1>1, <1>2, <2>1, CallTypes DEF HeapInv
    <3>2. PICK m \in Nat : m = call[t].cnt * PageSize
      BY <3>1, HeapAssumption
    <3> QED
      BY <2>2, <3>1, <3>2, HeapAssumption
  <2> QED
    BY <2>1, <2>3, AskedReturn
<1>8. CASE Arena(t)
  <2>1. Go(t, "pop") /\ held' = held /\ Stands(t, "arena")
    BY <1>8 DEF Arena
  <2> QED
    BY <1>1, <2>1, AskedGo
<1>9. CASE Pop(t)
  <2>1. Stands(t, "pop") /\ Return(t, Head(free_list[call[t].desc]), call[t].desc)
    BY <1>9 DEF Pop
  <2>2. call[t].kind = "block"
    BY <1>1, <1>2, <2>1 DEF CallShape
  <2>3. call[t].asked <= call[t].desc
    BY <1>1, <1>2, <2>1, <2>2 DEF AskedFor
  <2>4. call[t].asked \in Nat /\ call[t].desc \in Nat
    BY <1>1, <1>2, <2>1, <2>2, CallTypes, DescFacts DEF HeapInv, CallShape
  <2> QED
    BY <2>1, <2>3, <2>4, AskedReturn
<1>10. CASE PushLast(t)
  <2>1. Go(t, "clear") /\ held' = held /\ Stands(t, "push")
    BY <1>10 DEF PushLast
  <2> QED
    BY <1>1, <2>1, AskedGo
<1> QED
  BY <1>3, <1>4, <1>5, <1>6, <1>7, <1>8, <1>9, <1>10 DEF Step

\* Unless a size wraps around size_t, what is allocated has the bytes that were
\* asked for, and is apart from everything else (malloc(), calloc(), realloc(),
\* palloc_get_multiple()).
THEOREM HeldIsApart ==
  ASSUME NoWrap
  PROVE  HeapSpec => []HeldApart
<1>1. HeapInit => AskedOK
  BY DEF HeapInit, AskedOK, NoCall
<1>2. HeapInv /\ AskedOK /\ [HeapNext]_heapVars => AskedOK'
  <2> SUFFICES ASSUME HeapInv, AskedOK, [HeapNext]_heapVars PROVE AskedOK'
    OBVIOUS
  <2>1. CASE UNCHANGED heapVars
    <3>1. call' = call /\ held' = held
      BY <2>1 DEF heapVars
    <3> QED
      BY <3>1 DEF AskedOK, AskedFor, NoCall
  <2>2. CASE HeapNext
    BY <2>2, AskedCalls, AskedSteps DEF HeapNext
  <2> QED
    BY <2>1, <2>2
<1>3. HeapInv /\ AskedOK => HeldApart
  <2> SUFFICES ASSUME HeapInv, AskedOK PROVE HeldApart
    OBVIOUS
  <2>1. Enough
    BY DEF AskedOK, Enough, HeldNow
  <2> QED
    BY <2>1, HeapDisjoint, HeapSheltered DEF HeapInv, HeldApart
<1> QED
  BY <1>1, <1>2, <1>3, HeapInvariant, PTL DEF HeapSpec
-----------------------------------------------------------------------------
(* The threads do not wait for one another in a circle *)

\* Nothing in the way of the next step of a call: a lock that it needs is free,
\* and malloc() finds a block where it takes one.
CanStep(t) ==
  /\ ~NoCall(t)
  /\ call[t].pc \in {"lock", "push"} => desc_lock[call[t].desc] = None
  /\ call[t].pc = "scan" /\ call[t].cnt # 0 => pool_lock = None
  /\ call[t].pc = "arena" => call[t].kind \in {"big", "block"}
  /\ call[t].pc = "pop" => free_list[call[t].desc] # <<>>

SomebodyMoves == (\E t \in Caller : ~NoCall(t)) => \E t \in Caller : CanStep(t)

\* Where malloc() takes a free block there is one.
ReadyToPop == \A t \in Caller : Stands(t, "pop") => free_list[call[t].desc] # <<>>

\* A thread at that place has the descriptor, so that it is enough that a step of
\* another one leaves alone the lists that the other has not locked.
LEMMA ReadyStep ==
  ASSUME HeapInv, ReadyToPop, NEW t \in Caller,
         \A u \in Caller : u # t => call'[u] = call[u],
         Stands(t, "pop")' => free_list'[call'[t].desc] # <<>>,
         \A d \in Desc : desc_lock[d] \in Caller /\ desc_lock[d] # t => free_list'[d] = free_list[d]
  PROVE  ReadyToPop'
<1> SUFFICES ASSUME NEW u \in Caller, u # t, Stands(u, "pop")'
             PROVE  free_list'[call'[u].desc] # <<>>
  BY DEF ReadyToPop
<1>1. call'[u] = call[u] /\ Stands(u, "pop")
  BY DEF Stands, NoCall
<1>2. ~NoCall(u) /\ call[u].pc = "pop" /\ CallShape(call[u])
  BY <1>1 DEF Stands, HeapInv, CallsOK
<1>3. call[u].kind = "block" /\ call[u].desc \in Desc
  <2>1. call[u].kind \in {"block", "big", "page"}
    BY <1>2, CallTypes DEF HeapInv
  <2> QED
    BY <1>2, <2>1 DEF CallShape
<1>4. desc_lock[call[u].desc] = u
  BY <1>2, <1>3 DEF HeapInv, LocksHeld, HasDesc
<1> QED
  BY <1>1, <1>3, <1>4 DEF ReadyToPop

\* Steps that end a call or take it elsewhere.
LEMMA ReadyElsewhere ==
  ASSUME HeapInv, ReadyToPop, NEW t \in Caller, NEW c, call' = [call EXCEPT ![t] = c],
         c = None \/ c.pc # "pop",
         \A d \in Desc : desc_lock[d] \in Caller /\ desc_lock[d] # t => free_list'[d] = free_list[d]
  PROVE  ReadyToPop'
<1>1. call'[t] = c /\ \A u \in Caller : u # t => call'[u] = call[u]
  BY DEF HeapInv, HeapTypeOK
<1>2. ~Stands(t, "pop")'
  BY <1>1 DEF Stands, NoCall
<1> QED
  BY <1>1, <1>2, ReadyStep

LEMMA ReadyReturn ==
  ASSUME HeapInv, ReadyToPop, NEW t \in Caller, NEW addr, NEW size, Return(t, addr, size),
         \A d \in Desc : desc_lock[d] \in Caller /\ desc_lock[d] # t => free_list'[d] = free_list[d]
  PROVE  ReadyToPop'
<1> PICK c : c = IF call[t].old = 0 THEN None ELSE Freeing(call[t].old)
  OBVIOUS
<1>1. call' = [call EXCEPT ![t] = c]
  BY DEF Return
<1>2. c = None \/ c.pc \in {"push", "clear"}
  BY AskedFreeing
<1> QED
  BY <1>1, <1>2, ReadyElsewhere

LEMMA ReadyCalls ==
  ASSUME HeapInv, ReadyToPop, NEW t \in Caller,
         \/ \E size \in Sizes : Malloc(t, size)
         \/ \E a, b \in Counts : Calloc(t, a, b)
         \/ GetPage(t)
         \/ \E r \in held[t] : Free(t, r) \/ \E size \in Sizes : Realloc(t, r, size)
  PROVE  ReadyToPop'
<1>1. \A size, asked, old : Request(size, asked, old).pc \in {"lock", "scan"}
  BY DEF Request
<1>2. PICK c : call' = [call EXCEPT ![t] = c] /\ c.pc # "pop" /\ free_list' = free_list
  <2>1. CASE \E size \in Sizes : Malloc(t, size)
    <3>1. PICK size \in Sizes : Malloc(t, size)
      BY <2>1
    <3> PICK c : c = Request(size, size, 0)
      OBVIOUS
    <3> QED
      BY <1>1, <3>1 DEF Malloc, memVars
  <2>2. CASE \E a, b \in Counts : Calloc(t, a, b)
    <3>1. PICK a, b \in Counts : Calloc(t, a, b)
      BY <2>2
    <3> PICK c : c = Request((a * b) % Word, a * b, 0)
      OBVIOUS
    <3> QED
      BY <1>1, <3>1 DEF Calloc, memVars
  <2>3. CASE GetPage(t)
    <3> PICK c : c = [pc |-> "scan", kind |-> "page", desc |-> 0, cnt |-> 1,
                      asked |-> PageSize, page |-> 0, addr |-> 0, old |-> 0]
      OBVIOUS
    <3>1. call' = [call EXCEPT ![t] = c] /\ free_list' = free_list
      BY <2>3 DEF GetPage, memVars
    <3>2. c.pc # "pop"
      OBVIOUS
    <3> QED
      BY <3>1, <3>2
  <2>4. CASE \E r \in held[t] : Free(t, r)
    <3>1. PICK r \in held[t] : Free(t, r)
      BY <2>4
    <3> PICK c : c = IF IsPage(r)
                     THEN [pc |-> "clear", kind |-> "page", desc |-> 0, cnt |-> 1, asked |-> 0,
                           page |-> PageOf(r.addr), addr |-> r.addr, old |-> 0]
                     ELSE Freeing(r.addr)
      OBVIOUS
    <3>2. call' = [call EXCEPT ![t] = c] /\ free_list' = free_list
      BY <3>1 DEF Free, memVars
    <3>3. c.pc \in {"push", "clear"}
      BY AskedFreeing
    <3> QED
      BY <3>2, <3>3
  <2>5. CASE \E r \in held[t] : \E size \in Sizes : Realloc(t, r, size)
    <3>1. PICK r \in held[t], size \in Sizes : Realloc(t, r, size)
      BY <2>5
    <3> PICK c : c = Request(size, size, r.addr)
      OBVIOUS
    <3> QED
      BY <1>1, <3>1 DEF Realloc, memVars
  <2> QED
    BY <2>1, <2>2, <2>3, <2>4, <2>5
<1> QED
  BY <1>2, ReadyElsewhere

LEMMA ReadySteps ==
  ASSUME HeapInv, ReadyToPop, NEW t \in Caller, Step(t)
  PROVE  ReadyToPop'
<1>1. \A to : Stands(t, to) => ~NoCall(t) /\ call[t].pc = to
  BY DEF Stands
<1>2. ~NoCall(t) => call[t] \in CallRecord /\ CallShape(call[t]) /\ call[t].kind \in {"block", "big", "page"}
  BY CallTypes DEF HeapInv, CallsOK
<1>3. None \notin Caller /\ free_list \in [Desc -> Seq(Nat)]
  BY NoneIsNothing DEF HeapInv, HeapTypeOK
<1>4. CASE Lock(t)
  <2> PICK to : to = IF free_list[call[t].desc] = <<>> THEN "scan" ELSE "pop"
    OBVIOUS
  <2>1. Go(t, to) /\ free_list' = free_list /\ to \in {"scan", "pop"} /\ Stands(t, "lock")
    BY <1>4 DEF Lock, memVars
  <2>2. call'[t].pc = to /\ call'[t].desc = call[t].desc
        /\ \A u \in Caller : u # t => call'[u] = call[u]
    BY <1>1, <2>1, GoFacts DEF HeapInv
  <2>3. Stands(t, "pop")' => free_list'[call'[t].desc] # <<>>
    BY <2>1, <2>2 DEF Stands
  <2> QED
    BY <2>1, <2>2, <2>3, ReadyStep
<1>5. CASE NoPages(t) \/ Clear(t)
  <2>1. call' = [call EXCEPT ![t] = None] /\ free_list' = free_list
    BY <1>5 DEF NoPages, Clear, memVars
  <2> QED
    BY <2>1, ReadyElsewhere
<1>6. CASE Scan(t)
  <2> PICK p : p = Min(Gaps(call[t].cnt))
    OBVIOUS
  <2> PICK c : c = [call[t] EXCEPT !.pc = "flip", !.page = p]
    OBVIOUS
  <2>1. Stands(t, "scan") /\ call' = [call EXCEPT ![t] = c] /\ free_list' = free_list
    BY <1>6 DEF Scan, memVars
  <2>2. c.pc = "flip"
    BY <1>1, <1>2, <2>1 DEF CallRecord
  <2> QED
    BY <2>1, <2>2, ReadyElsewhere
<1>7. CASE Flip(t)
  <2>1. Stands(t, "flip") /\ free_list' = free_list
    BY <1>7 DEF Flip
  <2>2. CASE call[t].kind = "page"
    <3>1. Return(t, Start(call[t].page), PageSize)
      BY <1>7, <2>2 DEF Flip
    <3> QED
      BY <2>1, <3>1, ReadyReturn
  <2>3. CASE call[t].kind # "page"
    <3>1. Go(t, "arena")
      BY <1>7, <2>3 DEF Flip
    <3>2. call'[t].pc = "arena" /\ \A u \in Caller : u # t => call'[u] = call[u]
      BY <1>1, <2>1, <3>1, GoFacts DEF HeapInv
    <3>3. ~Stands(t, "pop")'
      BY <3>2 DEF Stands
    <3> QED
      BY <2>1, <3>2, <3>3, ReadyStep
  <2> QED
    BY <2>2, <2>3
<1>8. CASE BigArena(t)
  <2>1. /\ Return(t, Start(call[t].page) + Header, call[t].cnt * PageSize - Header)
        /\ free_list' = free_list
    BY <1>8 DEF BigArena
  <2> QED
    BY <2>1, ReadyReturn
<1>9. CASE Arena(t)
  <2> PICK d : d = call[t].desc
    OBVIOUS
  <2> PICK new : new = [k \in 1 .. BlocksPerArena(d) |-> ArenaToBlock(call[t].page, d, k - 1)]
    OBVIOUS
  <2>1. /\ Stands(t, "arena") /\ call[t].kind = "block" /\ Go(t, "pop")
        /\ free_list' = [free_list EXCEPT ![d] = @ \o new]
    BY <1>9 DEF Arena
  <2>2. d \in Desc /\ HasDesc(t, d) /\ desc_lock[d] = t
    BY <1>1, <1>2, <2>1 DEF HasDesc, CallShape, HeapInv, LocksHeld
  <2>3. /\ call'[t].desc = d /\ \A u \in Caller : u # t => call'[u] = call[u]
    BY <1>1, <2>1, GoFacts DEF HeapInv
  <2>4. free_list'[d] # <<>>
    <3>1. free_list[d] = <<>>
      BY <1>1, <2>1 DEF HeapInv, FreshOK, FreshFor
    <3>2. PICK p : p = call[t].page
      OBVIOUS
    <3>3. p \in Nat
      <4>1. p \in Page
        BY <1>1, <1>2, <2>1, <3>2 DEF CallShape
      <4> QED
        BY <4>1 DEF Page
    <3>4. Range(new) = Blocks(p, d) /\ <<>> \o new = new
      BY <2>2, <3>2, <3>3, ArenaList
    <3>5. free_list'[d] = new
      BY <1>3, <2>1, <2>2, <3>1, <3>4
    <3>6. PICK b : b \in Blocks(p, d)
      <4>1. BlocksPerArena(d) \in Nat \ {0}
        BY <2>2, ArenaSize
      <4>2. 0 \in 0 .. BlocksPerArena(d) - 1
        BY <4>1
      <4> QED
        BY <4>2 DEF Blocks
    <3> SUFFICES ASSUME new = <<>> PROVE FALSE
      BY <3>5
    <3>7. Range(new) = {}
      BY DEF Range
    <3> QED
      BY <3>4, <3>6, <3>7
  <2>5. \A e \in Desc : desc_lock[e] \in Caller /\ desc_lock[e] # t => free_list'[e] = free_list[e]
    BY <1>3, <2>1, <2>2
  <2> QED
    BY <2>3, <2>4, <2>5, ReadyStep
<1>10. CASE Pop(t)
  <2> PICK d : d = call[t].desc
    OBVIOUS
  <2>1. /\ Stands(t, "pop") /\ Return(t, Head(free_list[d]), d)
        /\ free_list' = [free_list EXCEPT ![d] = Tail(@)]
    BY <1>10 DEF Pop
  <2>2. d \in Desc /\ HasDesc(t, d) /\ desc_lock[d] = t
    BY <1>1, <1>2, <2>1 DEF HasDesc, CallShape, HeapInv, LocksHeld
  <2>3. \A e \in Desc : desc_lock[e] \in Caller /\ desc_lock[e] # t => free_list'[e] = free_list[e]
    BY <1>3, <2>1, <2>2
  <2> QED
    BY <2>1, <2>3, ReadyReturn
<1>11. CASE Push(t)
  <2> PICK d, l : d = call[t].desc /\ l = <<call[t].addr>> \o free_list[d]
    OBVIOUS
  <2>1. /\ call' = [call EXCEPT ![t] = None] /\ desc_lock[d] = None
        /\ free_list' = [free_list EXCEPT ![d] = l]
    BY <1>11 DEF Push
  <2>2. \A e \in Desc : desc_lock[e] \in Caller /\ desc_lock[e] # t => free_list'[e] = free_list[e]
    BY <1>3, <2>1
  <2> QED
    BY <2>1, <2>2, ReadyElsewhere
<1>12. CASE PushLast(t)
  <2> PICK d, l : d = call[t].desc /\ l = ListRemove(free_list[d], Blocks(call[t].page, d))
    OBVIOUS
  <2>1. /\ Stands(t, "push") /\ Go(t, "clear") /\ desc_lock[d] = None
        /\ free_list' = [free_list EXCEPT ![d] = l]
    BY <1>12 DEF PushLast, TakeDesc
  <2>2. \A e \in Desc : desc_lock[e] \in Caller /\ desc_lock[e] # t => free_list'[e] = free_list[e]
    BY <1>3, <2>1
  <2>3. call'[t].pc = "clear" /\ \A u \in Caller : u # t => call'[u] = call[u]
    BY <1>1, <2>1, GoFacts DEF HeapInv
  <2>4. ~Stands(t, "pop")'
    BY <2>3 DEF Stands
  <2> QED
    BY <2>2, <2>3, <2>4, ReadyStep
<1> QED
  BY <1>4, <1>5, <1>6, <1>7, <1>8, <1>9, <1>10, <1>11, <1>12 DEF Step

\* Who has the pool's lock can go on.  If nobody has it, who has a descriptor
\* can, since it waits for no other descriptor; if that is free too, whoever
\* wants it can.
LEMMA NoCircle ==
  ASSUME HeapInv, ReadyToPop
  PROVE  SomebodyMoves
<1> SUFFICES ASSUME NEW t \in Caller, ~NoCall(t) PROVE \E u \in Caller : CanStep(u)
  BY DEF SomebodyMoves
<1>1. \A u \in Caller : ~NoCall(u) =>
         CallShape(call[u]) /\ call[u] \in CallRecord /\ call[u].kind \in {"block", "big", "page"}
  BY CallTypes DEF HeapInv, CallsOK
<1>2. \A u \in Caller : ~NoCall(u) /\ call[u].pc \notin {"lock", "push", "scan"} => CanStep(u)
  BY <1>1 DEF CanStep, CallShape, ReadyToPop, Stands
<1>3. CASE pool_lock # None
  <2>1. PICK u \in Caller : pool_lock = u
    BY <1>3 DEF HeapInv, HeapTypeOK
  <2>2. Stands(u, "flip")
    BY <2>1 DEF HeapInv, LocksHeld
  <2> QED
    BY <1>2, <2>2 DEF Stands
<1>4. CASE pool_lock = None
  <2>1. \A u \in Caller : ~NoCall(u) /\ call[u].pc \notin {"lock", "push"} => CanStep(u)
    BY <1>2, <1>4 DEF CanStep
  <2>2. CASE CanStep(t)
    BY <2>2
  <2>3. CASE ~CanStep(t)
    <3>1. call[t].pc \in {"lock", "push"} /\ desc_lock[call[t].desc] # None
      BY <2>1, <2>3 DEF CanStep
    <3>2. call[t].desc \in Desc
      BY <1>1, <3>1 DEF CallShape
    <3>3. PICK u \in Caller : desc_lock[call[t].desc] = u
      BY <3>1, <3>2 DEF HeapInv, HeapTypeOK
    <3>4. HasDesc(u, call[t].desc)
      BY <3>2, <3>3 DEF HeapInv, LocksHeld
    <3> QED
      BY <2>1, <3>4 DEF HasDesc
  <2> QED
    BY <2>2, <2>3
<1> QED
  BY <1>3, <1>4

\* While a call is under way, some thread can go on with its call: the locks of
\* the descriptors and of the pool are never waited for in a circle, and
\* malloc() never takes a block from an empty list (malloc(), free(),
\* palloc_get_multiple()).
THEOREM CallsGoOn == HeapSpec => []SomebodyMoves
<1>1. HeapInit => ReadyToPop
  BY DEF HeapInit, ReadyToPop, Stands, NoCall
<1>2. HeapInv /\ ReadyToPop /\ [HeapNext]_heapVars => ReadyToPop'
  <2> SUFFICES ASSUME HeapInv, ReadyToPop, [HeapNext]_heapVars PROVE ReadyToPop'
    OBVIOUS
  <2>1. CASE UNCHANGED heapVars
    <3>1. call' = call /\ free_list' = free_list
      BY <2>1 DEF heapVars, memVars
    <3> QED
      BY <3>1 DEF ReadyToPop, Stands, NoCall
  <2>2. CASE HeapNext
    BY <2>2, ReadyCalls, ReadySteps DEF HeapNext
  <2> QED
    BY <2>1, <2>2
<1>3. HeapInv /\ ReadyToPop => SomebodyMoves
  BY NoCircle
<1> QED
  BY <1>1, <1>2, <1>3, HeapInvariant, PTL DEF HeapSpec

-----------------------------------------------------------------------------
(* THE INTERPRETER OF PROJECT 0 *)


\* Every name is in use for what was created under it, and what an unused slot
\* keeps of a hash table is empty: NamesLive, with the types of the slots.
SlotRecord == [name : Name \cup {NoName}, used : BOOLEAN, allocated : BOOLEAN]
InterpInv ==
  /\ slots \in [Kind -> [Slot -> SlotRecord]]
  /\ DOMAIN tables = Slot
  /\ NamesLive

\* findEmptyIndex() and findTargetIndex() return a slot that they looked for.
LEMMA FirstIs ==
  ASSUME NEW S \in SUBSET Slot, S # {}
  PROVE  First(S) \in S
<1>1. S \in SUBSET Nat
  BY DEF Slot
<1>2. \E i \in S : \A j \in S : i <= j
  BY <1>1, LeastNatural
<1> QED
  BY <1>2 DEF First

\* hash_init() and hash_clear() leave no values.
LEMMA EmptyTables ==
  Values(NewTable) = {} /\ \A h : Values(Cleared(h)) = {}
<1>1. Range(<<>>) = {}
  BY DEF Range
<1>2. Values(NewTable) = {}
  BY <1>1 DEF Values, NewTable
<1>3. ASSUME NEW h PROVE Values(Cleared(h)) = {}
  BY <1>1 DEF Values, Cleared
<1> QED
  BY <1>2, <1>3

LEMMA InitInterp ==
  ASSUME InterpInit
  PROVE  InterpInv
<1>1. slots \in [Kind -> [Slot -> SlotRecord]] /\ DOMAIN tables = Slot
  BY DEF InterpInit, InitialSlot, SlotRecord
<1>2. \A k \in Kind, i \in Slot : slots[k][i].name = NoName
  BY DEF InterpInit, InitialSlot
<1>3. \A i \in Slot : tables[i] = NewTable
  BY DEF InterpInit
<1> QED
  BY <1>1, <1>2, <1>3, EmptyTables DEF InterpInv, NamesLive

\* A command on a hash table is given one that is in use, and changes no other.
LEMMA TableCommand ==
  ASSUME InterpInv, NEW n \in Name, NEW i \in Slot, OnTable(n, i),
         NEW h, tables' = [tables EXCEPT ![i] = h], slots' = slots
  PROVE  InterpInv'
<1>1. i \in Targets("hashtable", n)
  BY FirstIs DEF OnTable, Targets
<1>2. slots["hashtable"][i].name # NoName
  BY <1>1, InterpAssumption DEF Targets
<1>3. slots["hashtable"][i].used
  BY <1>2 DEF InterpInv, NamesLive, Kind
<1>4. DOMAIN tables' = Slot /\ \A j \in Slot : j # i => tables'[j] = tables[j]
  BY DEF InterpInv
<1>5. NamesLive'
  <2>1. \A j \in Slot : ~slots["hashtable"][j].used => Values(tables'[j]) = {}
    BY <1>3, <1>4 DEF InterpInv, NamesLive
  <2> QED
    BY <2>1 DEF InterpInv, NamesLive, Values
<1> QED
  BY <1>4, <1>5 DEF InterpInv

LEMMA CreateInv ==
  ASSUME InterpInv, NEW k \in Kind, NEW n \in Name, Create(k, n)
  PROVE  InterpInv'
<1> PICK i : i = First(Empties(k))
  OBVIOUS
<1> PICK new : new = [name |-> n, used |-> TRUE, allocated |-> k # "bitmap"]
  OBVIOUS
<1>1. i \in Slot /\ ~slots[k][i].used
  BY FirstIs DEF Create, Empties
<1>2. slots' = [slots EXCEPT ![k][i] = new]
  BY DEF Create
<1>3. new \in SlotRecord
  BY DEF SlotRecord
<1>4. /\ slots' \in [Kind -> [Slot -> SlotRecord]] /\ slots'[k][i] = new
      /\ \A l \in Kind, j \in Slot : l # k \/ j # i => slots'[l][j] = slots[l][j]
  BY <1>1, <1>2, <1>3 DEF InterpInv
<1>5. DOMAIN tables' = Slot /\ \A j \in Slot : tables'[j] = tables[j] \/ tables'[j] = NewTable
  <2>1. tables' = tables \/ tables' = [tables EXCEPT ![i] = NewTable]
    BY DEF Create
  <2> QED
    BY <1>1, <2>1 DEF InterpInv
<1>6. ASSUME NEW l \in Kind \ {"bitmap"}, NEW j \in Slot, slots'[l][j].name # NoName
      PROVE  slots'[l][j].used /\ slots'[l][j].allocated
  <2>1. CASE l = k /\ j = i
    <3>1. new.used /\ new.allocated = (k # "bitmap")
      OBVIOUS
    <3> QED
      BY <1>4, <2>1, <3>1
  <2>2. CASE l # k \/ j # i
    <3>1. slots'[l][j] = slots[l][j]
      BY <1>4, <2>2
    <3> QED
      BY <1>6, <3>1 DEF InterpInv, NamesLive
  <2> QED
    BY <2>1, <2>2
<1>7. ASSUME NEW j \in Slot, ~slots'["hashtable"][j].used
      PROVE  Values(tables'[j]) = {}
  <2>1. "hashtable" \in Kind
    BY DEF Kind
  <2>2. ~slots["hashtable"][j].used
    BY <1>4, <1>7, <2>1
  <2>3. Values(tables[j]) = {}
    BY <2>2 DEF InterpInv, NamesLive
  <2> QED
    BY <1>5, <2>3, EmptyTables
<1>8. NamesLive'
  BY <1>6, <1>7 DEF NamesLive, Values
<1> QED
  BY <1>4, <1>5, <1>8 DEF InterpInv

LEMMA DeleteInv ==
  ASSUME InterpInv, NEW n \in Name, Delete(n)
  PROVE  InterpInv'
<1> PICK k : k = KindOf(n)
  OBVIOUS
<1> PICK i : i = First(Targets(k, n))
  OBVIOUS
<1> PICK new : new = Released(k, slots[k][i])
  OBVIOUS
<1>1. /\ Targets(k, n) # {} /\ k \in Kind
      /\ slots' = [slots EXCEPT ![k][i] = new]
  <2>1. Targets(k, n) # {}
    BY DEF Delete
  <2>2. slots' = [slots EXCEPT ![k][i] = new]
    BY DEF Delete
  <2>3. k \in Kind
    BY DEF Kind, KindOf
  <2> QED
    BY <2>1, <2>2, <2>3
<1>2. k \in Kind /\ i \in Slot
  BY <1>1, FirstIs DEF Targets
<1>3. slots[k][i] \in SlotRecord
  BY <1>2 DEF InterpInv
<1>4. new \in SlotRecord /\ ~new.used /\ (k # "bitmap" => new.name = NoName)
  BY <1>3 DEF SlotRecord, Released
<1>5. /\ slots' \in [Kind -> [Slot -> SlotRecord]] /\ slots'[k][i] = new
      /\ \A l \in Kind, j \in Slot : l # k \/ j # i => slots'[l][j] = slots[l][j]
  BY <1>1, <1>2, <1>4 DEF InterpInv
<1>6. /\ DOMAIN tables' = Slot
      /\ \A j \in Slot : tables'[j] = tables[j] \/ tables'[j] = Cleared(tables[j])
      /\ k = "hashtable" => tables'[i] = Cleared(tables[i])
  <2>1. tables' = IF k = "hashtable" THEN [tables EXCEPT ![i] = Emptied(tables[i])] ELSE tables
    BY DEF Delete
  <2> QED
    BY <1>2, <2>1 DEF InterpInv, Emptied
<1>7. ASSUME NEW l \in Kind \ {"bitmap"}, NEW j \in Slot, slots'[l][j].name # NoName
      PROVE  slots'[l][j].used /\ slots'[l][j].allocated
  <2>1. l # k \/ j # i
    BY <1>4, <1>5, <1>7
  <2> QED
    BY <1>5, <1>7, <2>1 DEF InterpInv, NamesLive
<1>8. ASSUME NEW j \in Slot, ~slots'["hashtable"][j].used
      PROVE  Values(tables'[j]) = {}
  <2>1. CASE k = "hashtable" /\ j = i
    BY <1>6, <2>1, EmptyTables
  <2>2. CASE ~(k = "hashtable" /\ j = i)
    <3>1. slots'["hashtable"][j] = slots["hashtable"][j]
      BY <1>5, <2>2 DEF Kind
    <3>2. Values(tables[j]) = {}
      BY <1>8, <3>1 DEF InterpInv, NamesLive
    <3> QED
      BY <1>6, <3>2, EmptyTables
  <2> QED
    BY <2>1, <2>2
<1>9. NamesLive'
  BY <1>7, <1>8 DEF NamesLive, Values
<1> QED
  BY <1>5, <1>6, <1>9 DEF InterpInv

LEMMA InterpNextInv ==
  ASSUME InterpInv, InterpNext
  PROVE  InterpInv'
<1>1. CASE \E k \in Kind, n \in Name : Create(k, n)
  BY <1>1, CreateInv
<1>2. CASE \E n \in Name : Delete(n)
  BY <1>2, DeleteInv
<1>3. ASSUME NEW n \in Name, NEW i \in Slot, OnTable(n, i),
             \/ \E v \in Value : HashInsert(i, v) \/ HashReplace(i, v) \/ HashDelete(i, v)
             \/ HashClear(i) \/ HashApply(i, Square) \/ HashApply(i, Triple)
      PROVE  InterpInv'
  <2>1. (\E h : tables' = [tables EXCEPT ![i] = h]) /\ slots' = slots
    <3>1. CASE \E v \in Value : HashInsert(i, v)
      BY <3>1 DEF HashInsert
    <3>2. CASE \E v \in Value : HashReplace(i, v)
      BY <3>2 DEF HashReplace
    <3>3. CASE \E v \in Value : HashDelete(i, v)
      BY <3>3 DEF HashDelete
    <3>4. CASE HashClear(i)
      BY <3>4 DEF HashClear
    <3>5. ASSUME NEW image, HashApply(i, image)
          PROVE  (\E h : tables' = [tables EXCEPT ![i] = h]) /\ slots' = slots
      BY <3>5 DEF HashApply
    <3> QED
      BY <1>3, <3>1, <3>2, <3>3, <3>4, <3>5
  <2> QED
    BY <1>3, <2>1, TableCommand
<1> QED
  BY <1>1, <1>2, <1>3 DEF InterpNext

\* However lists, hash tables and bitmaps are created and deleted and their
\* slots used again: the name of a list or table that a command finds is one
\* that was created and not deleted since, and a slot that is free has no values
\* for the next table that is created there (create(), delete(), hash_clear()).
THEOREM NamesStayLive == InterpSpec => []NamesLive
<1>1. InterpInit => InterpInv
  BY InitInterp
<1>2. InterpInv /\ [InterpNext]_interpVars => InterpInv'
  <2> SUFFICES ASSUME InterpInv, UNCHANGED interpVars PROVE InterpInv'
    BY InterpNextInv
  <2>1. slots' = slots /\ tables' = tables
    BY DEF interpVars
  <2>2. \A j \in Slot : Values(tables'[j]) = Values(tables[j])
    BY <2>1
  <2>3. NamesLive'
    BY <2>1, <2>2 DEF InterpInv, NamesLive
  <2> QED
    BY <2>1, <2>3 DEF InterpInv
<1>3. InterpInv => NamesLive
  BY DEF InterpInv
<1> QED
  BY <1>1, <1>2, <1>3, PTL DEF InterpSpec
=============================================================================
