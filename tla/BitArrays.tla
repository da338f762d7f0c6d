------------------------------ MODULE BitArrays ------------------------------
(* What a bitmap promises: "from the outside, a bitmap is an array of bits".  *)
(* The array is its size and the set `ones' of the bits that are true.        *)
EXTENDS Integers, FiniteSets

CONSTANT Error \* what a scan returns if there is no such group

Has(ones, i, value) == (i \in ones) = value
Within(start, cnt) == start .. start + cnt - 1

Put(ones, start, cnt, value) ==
  IF value THEN ones \cup Within(start, cnt) ELSE ones \ Within(start, cnt)

Flipped(ones, i) == IF i \in ones THEN ones \ {i} ELSE ones \cup {i}

Count(ones, start, cnt, value) ==
  Cardinality({i \in Within(start, cnt) : Has(ones, i, value)})

Contains(ones, start, cnt, value) == Count(ones, start, cnt, value) > 0

\* i is where the first group of cnt bits with the value starts, at or after
\* start, or Error.
IsFirstGroup(i, ones, size, start, cnt, value) ==
  LET groups == {k \in start .. size - cnt : Within(k, cnt) \subseteq
                   {j \in 0 .. size - 1 : Has(ones, j, value)}}
  IN  IF groups = {} THEN i = Error ELSE i \in groups /\ \A k \in groups : i <= k
=============================================================================
