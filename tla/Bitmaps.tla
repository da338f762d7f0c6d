------------------------------- MODULE Bitmaps -------------------------------
(***************************************************************************)
(* bitmap.c of project 0: an array of bits kept in elements of several     *)
(* bits, with the commands of main.c on one bitmap.  An element is the set *)
(* of its bits that are 1.  Inputs keep the ASSERTs of the functions.      *)
(***************************************************************************)
EXTENDS SequencesExt, Integers

CONSTANTS
  ElemBits,  \* ELEM_BITS: bits of an unsigned long
  AsmBits,   \* bits that orl, andl and xorl of the inline assembly work on
  MaxBits,   \* bound: bits of a bitmap
  Error      \* BITMAP_ERROR

BitmapsAssumption ==
  /\ ElemBits \in Nat \ {0} /\ AsmBits \in 1 .. ElemBits /\ MaxBits \in Nat
  /\ Error \in Int \ Nat

VARIABLE bitmap \* struct bitmap: bit_cnt and bits

TypeOK ==
  /\ bitmap.bit_cnt \in 0 .. MaxBits
  /\ bitmap.bits \in Seq(SUBSET (0 .. ElemBits - 1))

\* Mutant: the bits of a last element that is not full are forgotten.
ElemCntDown(bit_cnt) == bit_cnt \div ElemBits

ElemIdx(i)       == i \div ElemBits + 1
Bit(i)           == i % ElemBits
ElemCnt(bit_cnt) == (bit_cnt + ElemBits - 1) \div ElemBits

\* The inline assembly changes the low AsmBits bits of the element only.
Reached(i) == IF Bit(i) < AsmBits THEN {Bit(i)} ELSE {}
Mark(b, i) == [b EXCEPT !.bits[ElemIdx(i)] = @ \cup Reached(i)]
Reset(b, i) == [b EXCEPT !.bits[ElemIdx(i)] = @ \ Reached(i)]
Toggled(b, i) == [b EXCEPT !.bits[ElemIdx(i)] = SymDiff(@, Reached(i))]
Set(b, i, value) == IF value THEN Mark(b, i) ELSE Reset(b, i)
Test(b, i) == Bit(i) \in b.bits[ElemIdx(i)]

\* Mutant: one bit too many is set.
SetBitsOneMore(b, start, cnt, value) ==
  FoldLeft(LAMBDA c, i : Set(c, start + i - 1, value), b,
           [i \in 1 .. IF start + cnt < b.bit_cnt THEN cnt + 1 ELSE cnt |-> i])

SetBits(b, start, cnt, value) ==
  FoldLeft(LAMBDA c, i : Set(c, start + i - 1, value), b, [i \in 1 .. cnt |-> i])

CountBits(b, start, cnt, value) ==
  FoldLeft(LAMBDA n, i : IF Test(b, start + i - 1) = value THEN n + 1 ELSE n,
           0, [i \in 1 .. cnt |-> i])

\* bitmap_contains(), which bitmap_any(), bitmap_none() and bitmap_all() ask.
ContainsBit(b, start, cnt, value) == \E i \in 0 .. cnt - 1 : Test(b, start + i) = value

\* Mutant: the last place is not tried.
ScanShort(b, start, cnt, value) ==
  LET fits == {i \in start .. b.bit_cnt - cnt - 1 : ~ContainsBit(b, i, cnt, ~value)}
  IN  IF fits # {} THEN Min(fits) ELSE Error

Scan(b, start, cnt, value) ==
  LET fits == {i \in start .. b.bit_cnt - cnt : ~ContainsBit(b, i, cnt, ~value)}
  IN  IF fits # {} THEN Min(fits) ELSE Error

\* bitmap_create(): what malloc() returns is not cleared.
Created(n) ==
  {SetBits([bit_cnt |-> n, bits |-> junk], 0, n, FALSE) :
     junk \in [1 .. ElemCnt(n) -> SUBSET (0 .. ElemBits - 1)]}

\* bitmap_expand(): a new bitmap with the old bits first.
Expanded(b, size) ==
  {FoldLeft(LAMBDA c, i : Set(c, i - 1, Test(b, i - 1)), new,
            [i \in 1 .. b.bit_cnt |-> i]) : new \in Created(b.bit_cnt + size)}

-----------------------------------------------------------------------------

Init == bitmap = [bit_cnt |-> 0, bits |-> <<>>]

Create(n) == bitmap' \in Created(n)

Expand(size) == bitmap.bit_cnt + size <= MaxBits /\ bitmap' \in Expanded(bitmap, size)

SetMultiple(start, cnt, value) == bitmap' = SetBits(bitmap, start, cnt, value)

\* bitmap_mark, bitmap_reset and bitmap_set.
MarkOrReset(i, value) == bitmap' = Set(bitmap, i, value)

Flip(i) == bitmap' = Toggled(bitmap, i)

ScanAndFlip(start, cnt, value) ==
  /\ Scan(bitmap, start, cnt, value) # Error
  /\ bitmap' = SetBits(bitmap, Scan(bitmap, start, cnt, value), cnt, ~value)

Next ==
  \/ \E n \in 0 .. MaxBits : Create(n) \/ Expand(n)
  \/ \E i \in 0 .. bitmap.bit_cnt - 1 : Flip(i) \/ \E value \in BOOLEAN : MarkOrReset(i, value)
  \/ \E start \in 0 .. bitmap.bit_cnt, value \in BOOLEAN :
       \/ \E cnt \in 0 .. bitmap.bit_cnt - start : SetMultiple(start, cnt, value)
       \/ \E cnt \in 0 .. MaxBits : ScanAndFlip(start, cnt, value)

Spec == Init /\ [][Next]_bitmap

-----------------------------------------------------------------------------
(* Properties *)

OnesOf(b) == {i \in 0 .. b.bit_cnt - 1 : Test(b, i)}
Ones      == OnesOf(bitmap)

Arrays == INSTANCE BitArrays

\* Whatever the memory held before and however often the bitmap was expanded,
\* each function does to the array of bits and answers what BitArrays says:
\* bits of one element do not disturb each other, ranges start and end where
\* they should, a new bitmap has no bit of the memory's last user, and no bit
\* lies outside the memory that was allocated.
ImplementsArray ==
  /\ TypeOK /\ Len(bitmap.bits) * ElemBits >= bitmap.bit_cnt
  /\ \A n \in 0 .. MaxBits - bitmap.bit_cnt :
       /\ \A b \in Created(n) : OnesOf(b) = {}
       /\ \A b \in Expanded(bitmap, n) : OnesOf(b) = Ones /\ b.bit_cnt = bitmap.bit_cnt + n
  /\ \A i \in 0 .. bitmap.bit_cnt - 1 :
       /\ OnesOf(Toggled(bitmap, i)) = Arrays!Flipped(Ones, i)
       /\ \A value \in BOOLEAN : OnesOf(Set(bitmap, i, value)) = Arrays!Put(Ones, i, 1, value)
  /\ \A start \in 0 .. bitmap.bit_cnt, value \in BOOLEAN :
       /\ \A cnt \in 0 .. bitmap.bit_cnt - start :
            /\ OnesOf(SetBits(bitmap, start, cnt, value)) = Arrays!Put(Ones, start, cnt, value)
            /\ CountBits(bitmap, start, cnt, value) = Arrays!Count(Ones, start, cnt, value)
            /\ ContainsBit(bitmap, start, cnt, value) = Arrays!Contains(Ones, start, cnt, value)
       /\ \A cnt \in 0 .. MaxBits :
            Arrays!IsFirstGroup(Scan(bitmap, start, cnt, value),
                                Ones, bitmap.bit_cnt, start, cnt, value)
=============================================================================
