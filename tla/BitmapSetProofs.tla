-------------------------- MODULE BitmapSetProofs --------------------------
(***************************************************************************)
(* The iterator of the bitmap sets, for any number of words of any width:  *)
(* what it returns for every set and every position.                       *)
(***************************************************************************)
EXTENDS BitmapSet, TLAPS, WellFoundedInduction

(* The iterator. *)

\* A set of naturals that is not empty has a least element.
LEMMA MinIsLeast ==
  ASSUME NEW S \in SUBSET Nat, S # {}
  PROVE  Min(S) \in S /\ \A y \in S : Min(S) <= y
<1>1. PICK x \in S : \A y \in S : ~ (<<y, x>> \in OpToRel(<, Nat))
  BY NatLessThanWellFounded, WFMin
<1>2. \A y \in S : x <= y
  <2>1. TAKE y \in S
  <2>2. ~ (y < x)
    BY <1>1, <2>1 DEF OpToRel
  <2> QED
    BY <2>1, <2>2
<1> QED
  BY <1>1, <1>2 DEF Min

LEMMA WordNumbers ==
  /\ Words \in Nat /\ Words > 0 /\ WordBits \in Nat /\ WordBits > 0
  BY WordsAssumption

\* The iterator returns an element of the set or -1, and the position it is
\* left in is one of the set or its end.
LEMMA IterNextType ==
  ASSUME NEW S, NEW entry \in 0 .. Words, NEW bit \in WordBit
  PROVE  /\ IterNext(S, entry, bit).index # -1 => IterNext(S, entry, bit).index \in S
         /\ IterNext(S, entry, bit).entry \in 0 .. Words
         /\ IterNext(S, entry, bit).bit \in WordBit
<1> DEFINE found == {w \in entry .. Words - 1 : BitsLeft(S, entry, bit, w) # {}}
           w     == Min(found)
           i     == Min(BitsLeft(S, entry, bit, w))
<1>1. IterNext(S, entry, bit) =
        IF found = {} THEN [index |-> -1, entry |-> Words, bit |-> 0] ELSE After(w, i)
  BY DEF IterNext
<1>2. CASE found = {}
  BY <1>1, <1>2, WordNumbers DEF WordBit
<1>3. CASE found # {}
  <2>1. found \in SUBSET Nat
    BY WordNumbers
  <2>2. w \in found
    BY <1>3, <2>1, MinIsLeast
  <2>3. w \in 0 .. Words - 1 /\ BitsLeft(S, entry, bit, w) # {}
    BY <2>2, WordNumbers
  <2>4. BitsLeft(S, entry, bit, w) \subseteq WordOf(S, w)
    BY DEF BitsLeft
  <2>5. BitsLeft(S, entry, bit, w) \in SUBSET Nat
    BY <2>4, WordNumbers DEF WordOf, WordBit
  <2>6. i \in WordOf(S, w)
    BY <2>3, <2>4, <2>5, MinIsLeast
  <2>7. i \in 0 .. WordBits - 1 /\ w * WordBits + i \in S
    BY <2>6 DEF WordOf, WordBit
  <2> HIDE DEF found, w, i
  <2>8. IterNext(S, entry, bit) = After(w, i)
    BY <1>1, <1>3
  <2> QED
    BY <2>3, <2>7, <2>8, WordNumbers DEF After, WordBit
<1> QED
  BY <1>2, <1>3

-----------------------------------------------------------------------------
(* Words no wider than an int. *)

\* A number is its quotient and its remainder.
LEMMA DivMod ==
  ASSUME NEW n \in Nat, NEW d \in Nat, d > 0
  PROVE  /\ n \div d \in Nat /\ n % d \in 0 .. d - 1
         /\ n = (n \div d) * d + (n % d)
  OBVIOUS

\* Indexes are ordered by word first.
LEMMA WordOrder ==
  ASSUME NEW v \in Nat, NEW w \in Nat, v < w,
         NEW i \in WordBit, NEW j \in WordBit
  PROVE  v * WordBits + i < w * WordBits + j
<1>1. PICK k \in Nat : w = v + 1 + k
  <2>1. w - v - 1 \in Nat /\ w = v + 1 + (w - v - 1)
    OBVIOUS
  <2> QED
    BY <2>1
<1>2. k * WordBits \in Nat /\ v * WordBits \in Nat
  BY WordNumbers
<1>3. w * WordBits = v * WordBits + WordBits + k * WordBits
  BY <1>1, WordNumbers
<1> QED
  BY <1>2, <1>3, WordNumbers DEF WordBit

\* The mask keeps the bits from bit on.
LEMMA MaskIsRest ==
  ASSUME WordBits <= IntBits, NEW bit \in WordBit
  PROVE  RestMask(bit) = {i \in WordBit : i >= bit}
<1>1. bit \in Nat /\ bit < IntBits /\ IntBits \in Nat /\ IntBits > 0
  BY WordNumbers, WordsAssumption DEF WordBit
<1>2. bit % IntBits = bit
  BY <1>1
<1> QED
  BY <1>1, <1>2, WordNumbers DEF RestMask

LEMMA LeftIsRest ==
  ASSUME WordBits <= IntBits, NEW S, NEW entry \in 0 .. Words, NEW bit \in WordBit,
         NEW w \in entry .. Words - 1
  PROVE  BitsLeft(S, entry, bit, w) =
           {i \in WordBit : w * WordBits + i \in S /\ (w = entry => i >= bit)}
<1> DEFINE from == StartBit(entry, bit, w)
<1>1. from \in WordBit
  BY WordNumbers DEF StartBit, WordBit
<1>2. RestMask(from) = {i \in WordBit : i >= from}
  BY <1>1, MaskIsRest
<1>3. BitsLeft(S, entry, bit, w) = {i \in WordOf(S, w) : i >= from}
  BY <1>2 DEF BitsLeft, WordOf
<1>4. \A i \in WordBit : i >= from <=> (w = entry => i >= bit)
  BY WordNumbers DEF StartBit, WordBit
<1> QED
  BY <1>3, <1>4 DEF WordOf

\* The word and the bit of an element.
LEMMA PlaceOf ==
  ASSUME NEW n \in Indexes
  PROVE  /\ n \div WordBits \in 0 .. Words - 1 /\ n % WordBits \in WordBit
         /\ n = (n \div WordBits) * WordBits + (n % WordBits)
<1> DEFINE v == n \div WordBits
           j == n % WordBits
<1>1. n \in Nat /\ n < Words * WordBits
  <2>1. Words * WordBits \in Nat
    BY WordNumbers
  <2> QED
    BY <2>1 DEF Indexes
<1>2. v \in Nat /\ j \in WordBit /\ n = v * WordBits + j
  BY <1>1, WordNumbers, DivMod DEF WordBit
<1> HIDE DEF v, j
<1>3. 0 \in WordBit
  BY WordNumbers DEF WordBit
<1>4. ~ (Words < v)
  <2>1. Words < v => Words * WordBits + 0 < v * WordBits + j
    BY <1>2, <1>3, WordOrder, WordNumbers
  <2>2. Words * WordBits \in Nat
    BY WordNumbers
  <2> QED
    BY <1>1, <1>2, <2>1, <2>2
<1>5. v # Words
  BY <1>1, <1>2, WordNumbers DEF WordBit
<1>6. v \in 0 .. Words - 1
  BY <1>2, <1>4, <1>5, WordNumbers
<1> QED
  BY <1>2, <1>6 DEF v, j

\* The iterator returns the least element at its position or after it, and is
\* left just after that; or it returns -1, and there is none.
LEMMA IterLeast ==
  ASSUME WordBits <= IntBits, NEW S \in SUBSET Indexes,
         NEW entry \in 0 .. Words, NEW bit \in WordBit,
         NEW above, above = {n \in S : n >= entry * WordBits + bit}
  PROVE  /\ above = {} => IterNext(S, entry, bit) = [index |-> -1, entry |-> Words, bit |-> 0]
         /\ above # {} =>
              /\ IterNext(S, entry, bit).index \in above
              /\ \A n \in above : IterNext(S, entry, bit).index <= n
              /\ IterNext(S, entry, bit).entry * WordBits + IterNext(S, entry, bit).bit =
                   IterNext(S, entry, bit).index + 1
              /\ IterNext(S, entry, bit).entry = Words => IterNext(S, entry, bit).bit = 0
<1> DEFINE left(x) == BitsLeft(S, entry, bit, x)
           found   == {x \in entry .. Words - 1 : left(x) # {}}
           W(n)    == n \div WordBits
           B(n)    == n % WordBits
           w       == Min(found)
           i       == Min(left(w))
<1>1. ASSUME NEW x \in entry .. Words - 1
      PROVE  left(x) = {k \in WordBit : x * WordBits + k \in S /\ (x = entry => k >= bit)}
  BY LeftIsRest
<1>2. ASSUME NEW n \in S
      PROVE  W(n) \in 0 .. Words - 1 /\ B(n) \in WordBit /\ n = W(n) * WordBits + B(n)
  BY <1>2, PlaceOf
<1>3. entry * WordBits + bit \in Nat
  BY WordNumbers DEF WordBit
<1> HIDE DEF left, W, B
<1>4. ASSUME NEW n \in above
      PROVE  W(n) \in entry .. Words - 1 /\ B(n) \in left(W(n))
  <2>1. /\ n \in S /\ n >= entry * WordBits + bit
        /\ W(n) \in 0 .. Words - 1 /\ B(n) \in WordBit
        /\ n = W(n) * WordBits + B(n)
    BY <1>2, <1>4
  <2>2. W(n) < entry => n < entry * WordBits + bit
    BY <2>1, WordOrder, WordNumbers
  <2>3. n \in Nat /\ W(n) \in Nat
    BY <2>1, WordNumbers DEF WordBit
  <2>4. W(n) \in entry .. Words - 1
    BY <1>3, <2>1, <2>2, <2>3, WordNumbers
  <2>5. W(n) = entry => B(n) >= bit
    BY <1>3, <2>1, <2>3, WordNumbers DEF WordBit
  <2> QED
    BY <1>1, <2>1, <2>4, <2>5
<1>5. ASSUME NEW x \in entry .. Words - 1, NEW k \in left(x)
      PROVE  x * WordBits + k \in above
  <2>1. k \in WordBit /\ x * WordBits + k \in S /\ (x = entry => k >= bit)
    BY <1>1, <1>5
  <2>2. entry < x => entry * WordBits + bit < x * WordBits + k
    <3>1. entry \in Nat /\ x \in Nat
      BY WordNumbers
    <3> QED
      BY <2>1, <3>1, WordOrder
  <2>3. x * WordBits + k >= entry * WordBits + bit
    BY <1>3, <2>1, <2>2, WordNumbers DEF WordBit
  <2> QED
    BY <2>1, <2>3
<1>6. IterNext(S, entry, bit) =
        IF found = {} THEN [index |-> -1, entry |-> Words, bit |-> 0] ELSE After(w, i)
  BY DEF IterNext, left
<1>7. above = {} => found = {}
  BY <1>5
<1>8. ASSUME above # {}
      PROVE  /\ IterNext(S, entry, bit) = After(w, i)
             /\ w \in entry .. Words - 1 /\ i \in left(w)
             /\ \A x \in found : w <= x
             /\ \A k \in left(w) : i <= k
  <2>1. found # {} /\ found \in SUBSET Nat
    BY <1>4, <1>8, WordNumbers
  <2>2. w \in found /\ \A x \in found : w <= x
    BY <2>1, MinIsLeast
  <2>3. left(w) # {} /\ left(w) \in SUBSET Nat
    <3>1. w \in entry .. Words - 1 /\ left(w) # {}
      BY <2>2
    <3>2. WordBit \subseteq Nat
      BY WordNumbers DEF WordBit
    <3> HIDE DEF w
    <3>3. left(w) = {k \in WordBit : w * WordBits + k \in S /\ (w = entry => k >= bit)}
      BY <1>1, <3>1
    <3> QED
      BY <3>1, <3>2, <3>3
  <2>4. i \in left(w) /\ \A k \in left(w) : i <= k
    BY <2>3, MinIsLeast
  <2> QED
    BY <1>6, <2>1, <2>2, <2>4
<1> HIDE DEF w, i
<1>9. ASSUME above # {}
      PROVE  /\ w * WordBits + i \in above /\ w \in 0 .. Words - 1 /\ i \in WordBit
             /\ \A n \in above : w * WordBits + i <= n
  <2>1. w * WordBits + i \in above /\ w \in 0 .. Words - 1 /\ i \in WordBit
    BY <1>1, <1>5, <1>8, <1>9, WordNumbers
  <2>2. ASSUME NEW n \in above
        PROVE  w * WordBits + i <= n
    <3>1. /\ W(n) \in entry .. Words - 1 /\ B(n) \in left(W(n)) /\ B(n) \in WordBit
          /\ n = W(n) * WordBits + B(n)
      BY <1>2, <1>4, <2>2
    <3>2. w <= W(n)
      BY <1>8, <1>9, <3>1
    <3>3. w < W(n) => w * WordBits + i < W(n) * WordBits + B(n)
      <4>1. w \in Nat /\ W(n) \in Nat
        BY <2>1, <3>1, WordNumbers
      <4> QED
        BY <2>1, <3>1, <4>1, WordOrder
    <3>4. w = W(n) => i <= B(n)
      BY <1>8, <1>9, <3>1
    <3>5. /\ w * WordBits \in Int /\ W(n) * WordBits \in Int /\ w \in Int /\ W(n) \in Int
          /\ i \in Int /\ B(n) \in Int
      BY <2>1, <3>1, WordNumbers DEF WordBit
    <3> QED
      BY <3>1, <3>2, <3>3, <3>4, <3>5
  <2> QED
    BY <2>1, <2>2
<1>10. ASSUME above # {}
       PROVE  /\ After(w, i).index = w * WordBits + i
              /\ After(w, i).entry * WordBits + After(w, i).bit = w * WordBits + i + 1
              /\ After(w, i).entry = Words => After(w, i).bit = 0
  <2>1. w \in Nat /\ w < Words /\ i \in Nat /\ w * WordBits \in Nat
    BY <1>9, <1>10, WordNumbers DEF WordBit
  <2>2. (w + 1) * WordBits = w * WordBits + WordBits
    BY <2>1, WordNumbers
  <2> QED
    BY <2>1, <2>2, WordNumbers DEF After
<1> QED
  BY <1>6, <1>7, <1>8, <1>9, <1>10
=============================================================================
