----------------------- MODULE BitmapSetClientProofs -----------------------
(***************************************************************************)
(* With words no wider than an int, the bitmap set and its iterator        *)
(* implement IndexSet, for any number of words of any width.               *)
(***************************************************************************)
EXTENDS BitmapSetClient, BitmapSetProofs

\* The last index there is.
LEMMA LastIndex ==
  Max(Indexes) = Words * WordBits - 1
<1>1. Words * WordBits \in Nat /\ Words * WordBits > 0
  BY WordNumbers
<1> DEFINE n == Words * WordBits
<1> HIDE DEF n
<1>2. n - 1 \in Indexes /\ \A y \in Indexes : n - 1 >= y
  BY <1>1 DEF Indexes, n
<1>3. Max(Indexes) \in Indexes /\ \A y \in Indexes : Max(Indexes) >= y
  BY <1>2 DEF Max
<1>4. Max(Indexes) \in Int /\ n - 1 \in Int
  BY <1>1, <1>3 DEF Indexes, n
<1>5. Max(Indexes) = n - 1
  BY <1>2, <1>3, <1>4
<1> QED
  BY <1>5 DEF n

\* The least element of a set of indexes is the only one below all others.
LEMMA LeastIsMin ==
  ASSUME NEW S \in SUBSET Nat, NEW x \in S, \A y \in S : x <= y
  PROVE  Min(S) = x
<1>1. Min(S) \in S /\ \A y \in S : Min(S) <= y
  BY MinIsLeast
<1>2. Min(S) <= x /\ x <= Min(S) /\ Min(S) \in Nat /\ x \in Nat
  BY <1>1
<1> QED
  BY <1>2

\* The position of the iterator is just after the last index returned.
PositionOK == IteratorOK /\ seen \in Int /\ seen + 1 = entry * WordBits + bit

LEMMA PositionInit == SetInit => PositionOK
  BY WordNumbers DEF SetInit, PositionOK, IteratorOK, WordBit

LEMMA IndexesAreNat == Indexes \subseteq Nat
  BY WordNumbers DEF Indexes

\* What a call of the iterator does, in terms of the elements above the last.
LEMMA IterStepIs ==
  ASSUME WordBits <= IntBits, PositionOK, IterStep,
         NEW above, above = {n \in b_set : n > seen}
  PROVE  /\ idx' = IF above = {} THEN -1 ELSE Min(above)
         /\ seen' = IF above = {} THEN Max(Indexes) ELSE Min(above)
         /\ b_set' = b_set
         /\ PositionOK'
<1> DEFINE next == IterNext(b_set, entry, bit)
<1>1. /\ b_set \in SUBSET Indexes /\ entry \in 0 .. Words /\ bit \in WordBit
      /\ entry = Words => bit = 0
      /\ seen \in Int /\ seen + 1 = entry * WordBits + bit
  BY DEF PositionOK, IteratorOK
<1>2. /\ idx' = next.index /\ entry' = next.entry /\ bit' = next.bit /\ b_set' = b_set
      /\ seen' = IF next.index = -1 THEN Max(Indexes) ELSE next.index
  BY DEF IterStep
<1>3. entry * WordBits + bit \in Nat
  BY <1>1, WordNumbers DEF WordBit
<1>4. above = {n \in b_set : n >= entry * WordBits + bit}
  <2> DEFINE from == entry * WordBits + bit
  <2>1. seen + 1 = from /\ seen \in Int /\ from \in Nat
    BY <1>1, <1>3, WordNumbers DEF WordBit
  <2> HIDE DEF from
  <2>2. \A n \in b_set : n \in Nat
    BY <1>1, IndexesAreNat
  <2>3. \A n \in b_set : n > seen <=> n >= from
    BY <2>1, <2>2
  <2> QED
    BY <2>3 DEF from
<1>5. /\ next.entry \in 0 .. Words /\ next.bit \in WordBit
  BY <1>1, IterNextType
<1>6. /\ above = {} => next = [index |-> -1, entry |-> Words, bit |-> 0]
      /\ above # {} =>
           /\ next.index \in above
           /\ \A n \in above : next.index <= n
           /\ next.entry * WordBits + next.bit = next.index + 1
           /\ next.entry = Words => next.bit = 0
  BY <1>1, <1>4, IterLeast
<1> HIDE DEF next
<1>7. CASE above = {}
  <2>1. next.index = -1 /\ next.entry = Words /\ next.bit = 0
    BY <1>6, <1>7
  <2>2. seen' = Words * WordBits - 1
    BY <1>2, <2>1, LastIndex
  <2>3. Words * WordBits \in Nat
    BY WordNumbers
  <2>4. PositionOK'
    BY <1>1, <1>2, <1>5, <2>1, <2>2, <2>3 DEF PositionOK, IteratorOK
  <2> QED
    BY <1>2, <1>7, <2>1, <2>4
<1>8. CASE above # {}
  <2>1. above \in SUBSET Nat
    BY <1>1, IndexesAreNat
  <2>2. Min(above) = next.index
    BY <1>6, <1>8, <2>1, LeastIsMin
  <2>3. next.index \in Nat
    BY <1>6, <1>8, <2>1
  <2>4. seen' = next.index
    BY <1>2, <2>3
  <2>5. /\ seen' \in Int /\ seen' + 1 = entry' * WordBits + bit'
        /\ entry' = Words => bit' = 0
    BY <1>2, <1>6, <1>8, <2>3, <2>4
  <2>6. /\ b_set' \subseteq Indexes /\ entry' \in 0 .. Words /\ bit' \in WordBit
    BY <1>1, <1>2, <1>5
  <2>7. PositionOK'
    BY <2>5, <2>6 DEF PositionOK, IteratorOK
  <2> QED
    BY <1>2, <1>8, <2>2, <2>4, <2>7
<1> QED
  BY <1>7, <1>8

LEMMA ChangeIs ==
  ASSUME SetNext, ~ IterReset, ~ IterStep
  PROVE  /\ UNCHANGED <<entry, bit, idx, seen>>
         /\ \/ \E i \in Indexes : b_set' = b_set \cup {i} \/ b_set' = b_set \ {i}
            \/ \E S \in SUBSET Indexes :
                 \/ b_set' = S
                 \/ b_set' = b_set \cup S
                 \/ b_set' = b_set \cap S
                 \/ b_set' = b_set \ S
            \/ b_set' = Indexes \ b_set
            \/ b_set' = b_set
<1>1. ASSUME NEW i \in Indexes \cup {Words * WordBits}, Add(i) \/ Remove(i)
      PROVE  /\ UNCHANGED <<entry, bit, idx, seen>>
             /\ \/ \E k \in Indexes : b_set' = b_set \cup {k} \/ b_set' = b_set \ {k}
                \/ b_set' = b_set
  BY <1>1 DEF Add, Remove, SetTo
<1>2. ASSUME NEW S \in SUBSET Indexes,
             Union(S) \/ RelativeComp(S) \/ Intersection(S) \/ Clone(S)
      PROVE  /\ UNCHANGED <<entry, bit, idx, seen>>
             /\ \/ b_set' = S
                \/ b_set' = b_set \cup S
                \/ b_set' = b_set \cap S
                \/ b_set' = b_set \ S
  BY <1>2 DEF Union, RelativeComp, Intersection, Clone, SetTo
<1>3. ASSUME Complement \/ Clear \/ Fill
      PROVE  /\ UNCHANGED <<entry, bit, idx, seen>>
             /\ \/ \E S \in SUBSET Indexes : b_set' = S
                \/ b_set' = Indexes \ b_set
  BY <1>3 DEF Complement, Clear, Fill, SetTo
<1> QED
  BY <1>1, <1>2, <1>3 DEF SetNext

LEMMA PositionStep ==
  ASSUME WordBits <= IntBits
  PROVE  PositionOK /\ [SetNext]_svars => PositionOK'
<1> SUFFICES ASSUME PositionOK, [SetNext]_svars PROVE PositionOK'
  OBVIOUS
<1>1. CASE IterReset
  BY <1>1, WordNumbers DEF IterReset, PositionOK, IteratorOK, WordBit
<1>2. CASE IterStep
  BY <1>2, IterStepIs
<1>3. CASE SetNext /\ ~ IterReset /\ ~ IterStep
  BY <1>3, ChangeIs DEF PositionOK, IteratorOK
<1>4. CASE UNCHANGED svars
  BY <1>4 DEF svars, PositionOK, IteratorOK
<1> QED
  BY <1>1, <1>2, <1>3, <1>4

LEMMA StepRefines ==
  ASSUME WordBits <= IntBits, PositionOK, [SetNext]_svars
  PROVE  [Abstract!Next]_<<b_set, seen, idx>>
<1>1. CASE IterReset
  BY <1>1 DEF IterReset, Abstract!Next, Abstract!Reset
<1>2. CASE IterStep
  <2> DEFINE above == {i \in b_set : i > seen}
  <2>1. /\ idx' = IF above = {} THEN -1 ELSE Min(above)
        /\ seen' = IF above = {} THEN Max(Indexes) ELSE Min(above)
        /\ b_set' = b_set
    BY <1>2, IterStepIs
  <2>2. Abstract!IterNext
    BY <2>1 DEF Abstract!IterNext, Abstract!Min, Abstract!Max, Min, Max
  <2> QED
    BY <2>2 DEF Abstract!Next
<1>3. CASE SetNext /\ ~ IterReset /\ ~ IterStep
  BY <1>3, ChangeIs DEF Abstract!Next, Abstract!Change, Abstract!Becomes
<1>4. CASE UNCHANGED svars
  BY <1>4 DEF svars
<1> QED
  BY <1>1, <1>2, <1>3, <1>4

\* However a set is changed between two calls, its iterator returns the least
\* element above the last one, and -1 when there is none
\* (hpack_set_iter_next).
THEOREM IteratorImplementsIndexSet ==
  ASSUME WordBits <= IntBits
  PROVE  SetSpec => RefinesIndexSet
<1>1. SetInit => Abstract!Init
  BY DEF SetInit, Abstract!Init
<1>2. PositionOK /\ [SetNext]_svars => [Abstract!Next]_<<b_set, seen, idx>>
  BY StepRefines
<1> QED
  BY <1>1, <1>2, PositionInit, PositionStep, PTL
     DEF SetSpec, RefinesIndexSet, Abstract!Spec

\* However a set is changed meanwhile, its iterator stays within the words of
\* the set or just behind the last (hpack_set_iter_next).
THEOREM IteratorWithinWords ==
  ASSUME WordBits <= IntBits
  PROVE  SetSpec => []IteratorOK
<1>1. PositionOK => IteratorOK
  BY DEF PositionOK
<1> QED
  BY <1>1, PositionInit, PositionStep, PTL DEF SetSpec
=============================================================================
