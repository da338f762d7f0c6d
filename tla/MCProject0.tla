------------------------------ MODULE MCProject0 ------------------------------
(***************************************************************************)
(* Project 0 as a whole: the names and hash tables of Interp, the lists of *)
(* PtrList and the bitmaps of Bitmaps.  Their commands share no state, so  *)
(* a session here uses those of one family.  The hashes collide in part; the    *)
(* names are alike, and so are the list elements.                          *)
(***************************************************************************)
EXTENDS Interp, TLC

CONSTANTS
  Lists, Elem, ListValue, NoValue, Null, \* of PtrList
  ElemBits, AsmBits, MaxBits             \* of Bitmaps

VARIABLES family, command, ptr, data, bitmap

listVars == <<command, ptr, data>>

L == INSTANCE PtrList WITH Value <- ListValue
B == INSTANCE Bitmaps WITH Error <- -1

ASSUME Project0Assumption == B!BitmapsAssumption

MCHash == [v \in Value |-> (v + 2) \div 2 + 2 * (v % 2)]
\* Lists and bitmaps: one slot each at a time, since slots are taken as they are
\* for tables.
OneSlot == \A k \in {"list", "bitmap"} : slots[k][2] = InitialSlot
Alike   == Permutations(Name) \cup Permutations(Elem)

\* The lists have pointers only in a session that uses them.
MCInit ==
  /\ InterpInit /\ B!Init
  /\ \/ family = "lists" /\ L!Init
     \/ family \in {"tables", "bitmaps"} /\ command = Null /\ ptr = Null /\ data = Null

MCNext ==
  \/ /\ family = "tables" /\ InterpNext
     /\ UNCHANGED <<family, listVars, bitmap>>
  \/ /\ family = "lists" /\ L!Next
     /\ UNCHANGED <<family, interpVars, bitmap>>
  \/ /\ family = "bitmaps" /\ B!Next
     /\ UNCHANGED <<family, interpVars, listVars>>

MCSpec == MCInit /\ [][MCNext]_<<family, interpVars, listVars, bitmap>>

-----------------------------------------------------------------------------

\* The pointers implement sequences, and agree in both directions (PtrList).
Linked == family = "lists" => L!Linked

ImplementsSequences ==
  /\ []Linked
  /\ family = "lists" => L!Seqs!Init
  /\ [][family = "lists" => [L!Seqs!Next]_(L!Seqs!listVars)]_listVars

\* A bitmap is an array of bits (Bitmaps).
ImplementsArray == family = "bitmaps" => B!ImplementsArray
=============================================================================
