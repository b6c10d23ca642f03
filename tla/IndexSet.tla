------------------------------ MODULE IndexSet ------------------------------
(***************************************************************************)
(* What bitmap_set.h promises: a set of indexes, and an iterator that      *)
(* returns its elements in increasing order, each call the least of those  *)
(* above the last one returned, whatever has been added or removed since.  *)
(* Once it has said that there are no more, it says so until it is reset.  *)
(***************************************************************************)
EXTENDS Integers, FiniteSetsExt

CONSTANT Domain    \* the indexes: 0 .. n

VARIABLES elements, last, answer

Init == elements \in {{}, Domain} /\ last = -1 /\ answer = -1

Becomes(S) == elements' = S /\ UNCHANGED <<last, answer>>

Change ==
  \/ \E i \in Domain : Becomes(elements \cup {i}) \/ Becomes(elements \ {i})
  \/ \E S \in SUBSET Domain :
       \/ Becomes(S)
       \/ Becomes(elements \cup S)
       \/ Becomes(elements \cap S)
       \/ Becomes(elements \ S)
  \/ Becomes(Domain \ elements)

Reset == last' = -1 /\ UNCHANGED <<elements, answer>>

IterNext ==
  LET above == {i \in elements : i > last}
  IN  /\ answer' = IF above = {} THEN -1 ELSE Min(above)
      /\ last'   = IF above = {} THEN Max(Domain) ELSE Min(above)
      /\ UNCHANGED elements

Next == Change \/ Reset \/ IterNext

Spec == Init /\ [][Next]_<<elements, last, answer>>
=============================================================================
