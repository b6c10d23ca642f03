----------------------------- MODULE BitmapSet -----------------------------
(***************************************************************************)
(* The bitmap sets of libhpack/bitmap_set.c: an array of machine words with *)
(* one bit for each index.  Index i is bit i % WordBits of word             *)
(* i \div WordBits, so a set is the set of its indexes, and the operations  *)
(* that go word by word are those of sets.  What is not so simple is the    *)
(* iterator, a position (entry, bit) that outlives changes to the set.      *)
(***************************************************************************)
EXTENDS Integers, FiniteSetsExt

CONSTANTS
  Words,     \* HPACK_SET_NUM_ENTRIES
  WordBits,  \* HPACK_SET_BITS_IN_ENTRY, the bits of a hpack_set_entry_t
  IntBits    \* the bits of an int, in which the iterator computes its mask

ASSUME WordsAssumption ==
  /\ Words \in Nat \ {0}
  /\ WordBits \in Nat \ {0}
  /\ IntBits \in Nat \ {0}

WordBit == 0 .. WordBits - 1

Indexes == 0 .. Words * WordBits - 1

\* The bits of word w of set S.
WordOf(S, w) == {i \in WordBit : w * WordBits + i \in S}

(***************************************************************************)
(* ~((hpack_set_entry_t) (1 << bit) - 1): the bits from bit on.  The shift  *)
(* is that of an int, which only looks at the count modulo its width, and   *)
(* the top bit of an int is its sign: in a wider word it is extended, and   *)
(* the mask keeps that one bit.                                             *)
(***************************************************************************)
RestMask(bit) ==
  LET shift == bit % IntBits
  IN  IF shift = IntBits - 1 /\ WordBits > IntBits
        THEN {shift}
        ELSE {i \in WordBit : i >= shift}

\* Slip: a word is entered at the bit the one before it was left at.
StartBitKept(entry, bit, w) == bit

\* Where the search of word w starts: all words but the first are searched
\* from bit 0.
StartBit(entry, bit, w) == IF w = entry THEN bit ELSE 0

\* What is found in word w: nothing, if the mask says that nothing is left.
BitsLeft(S, entry, bit, w) ==
  LET from == StartBit(entry, bit, w)
  IN  IF WordOf(S, w) \cap RestMask(from) = {}
        THEN {} ELSE {i \in WordOf(S, w) : i >= from}

\* Slip: the last bit of a word is left without entering the next word.
AfterInWord(w, i) == [index |-> w * WordBits + i, entry |-> w, bit |-> i + 1]

\* Bit i of word w is the answer: its index, and the position after it.
After(w, i) ==
  IF i = WordBits - 1
    THEN [index |-> w * WordBits + i, entry |-> w + 1, bit |-> 0]
    ELSE [index |-> w * WordBits + i, entry |-> w, bit |-> i + 1]

(***************************************************************************)
(* hpack_set_iter_next on set S from position (entry, bit): the index       *)
(* returned, or -1, and the position it leaves the iterator in.             *)
(***************************************************************************)
IterNext(S, entry, bit) ==
  LET found == {w \in entry .. Words - 1 : BitsLeft(S, entry, bit, w) # {}}
      w     == Min(found)
  IN  IF found = {}
        THEN [index |-> -1, entry |-> Words, bit |-> 0]
        ELSE After(w, Min(BitsLeft(S, entry, bit, w)))
=============================================================================
