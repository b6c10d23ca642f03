-------------------------- MODULE BitmapSetClient --------------------------
(***************************************************************************)
(* A bitmap set with one iterator over it, and a caller that changes the   *)
(* set and moves the iterator in any order, as the header parser does      *)
(* while it emits its references.                                          *)
(***************************************************************************)
EXTENDS BitmapSet

VARIABLES
  b_set,
  entry, bit,  \* the iterator
  idx,         \* the last answer of the iterator
  seen         \* history: the last index returned since the iterator was
               \* reset, -1 if none, or the last one there is once it said -1

svars == <<b_set, entry, bit, idx, seen>>

\* hpack_set_init, hpack_set_iter_init
SetInit ==
  /\ b_set \in {{}, Indexes}
  /\ entry = 0 /\ bit = 0 /\ idx = -1 /\ seen = -1

SetTo(S) == b_set' = S /\ UNCHANGED <<entry, bit, idx, seen>>

\* An index out of range is refused.
Add(i) == SetTo(IF i \in Indexes THEN b_set \cup {i} ELSE b_set)

Remove(i) == SetTo(IF i \in Indexes THEN b_set \ {i} ELSE b_set)

Union(S) == SetTo(b_set \cup S)

RelativeComp(S) == SetTo(b_set \ S)

Intersection(S) == SetTo(b_set \cap S)

Complement == SetTo(Indexes \ b_set)

Clear == SetTo({})

Fill == SetTo(Indexes)

Clone(S) == SetTo(S)

\* hpack_set_iter_reset
IterReset ==
  /\ entry' = 0 /\ bit' = 0 /\ seen' = -1
  /\ UNCHANGED <<b_set, idx>>

IterStep ==
  LET next == IterNext(b_set, entry, bit)
  IN  /\ idx' = next.index
      /\ entry' = next.entry /\ bit' = next.bit
      /\ seen' = IF next.index = -1 THEN Max(Indexes) ELSE next.index
      /\ UNCHANGED b_set

SetNext ==
  \/ \E i \in Indexes \cup {Words * WordBits} : Add(i) \/ Remove(i)
  \/ \E S \in SUBSET Indexes :
       Union(S) \/ RelativeComp(S) \/ Intersection(S) \/ Clone(S)
  \/ Complement \/ Clear \/ Fill
  \/ IterReset \/ IterStep

SetSpec == SetInit /\ [][SetNext]_svars

-----------------------------------------------------------------------------
\* The position of the iterator stays within the words, or is just past them.
IteratorOK ==
  /\ b_set \subseteq Indexes
  /\ entry \in 0 .. Words /\ bit \in WordBit
  /\ entry = Words => bit = 0

Abstract == INSTANCE IndexSet
              WITH Domain <- Indexes, elements <- b_set, last <- seen, answer <- idx

\* The iterator misses no index, repeats none and goes in increasing order,
\* however the set is changed between two calls (hpack_set_iter_next).
RefinesIndexSet == Abstract!Spec
=============================================================================
