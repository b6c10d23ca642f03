---------------------------- MODULE IntegerCodec ----------------------------
(***************************************************************************)
(* libhpack/integer.c: unsigned integers as octets.  The first octet holds *)
(* N bits; a value that does not fit fills them with ones, and the rest    *)
(* follows in digits, the least significant first, each but the last with  *)
(* its continuation bit set.                                               *)
(***************************************************************************)
EXTENDS Integers, SequencesExt

CONSTANTS
  Base,     \* 128: the values of a digit, and the continuation bit
  UIntMax,  \* UINT_MAX
  VlqMax,   \* VLQ_MAX_LEN_INTEGER: the octets that are looked at
  LenWrap   \* 256: where the unsigned char that holds a length wraps

ASSUME IntegerAssumption ==
  /\ Base \in Nat /\ Base > 1
  /\ UIntMax \in Nat
  /\ VlqMax \in Nat /\ VlqMax > 1
  /\ LenWrap \in Nat /\ LenWrap > VlqMax

\* limits[N]: what N bits can hold.
IntLimit(N) == 2 ^ N - 1

\* The octets after the first.
Digits[v \in Nat] ==
  IF v < Base THEN <<v>> ELSE <<Base + (v % Base)>> \o Digits[v \div Base]

(***************************************************************************)
(* hpack_integer_encode; flags is what the first octet holds above the N   *)
(* bits.                                                                   *)
(***************************************************************************)
EncodeInt(N, flags, value) ==
  IF value < IntLimit(N)
    THEN <<flags + value>>
    ELSE <<flags + IntLimit(N)>> \o Digits[value - IntLimit(N)]

NotAnInt == [ok |-> FALSE, value |-> 0, consumed |-> 0]

\* Slip: the first digit weighs as much as the second.
DigitWeightFromOne(j) == Base ^ j

\* 1 << M for the j-th digit.
DigitWeight(j) == Base ^ (j - 1)

\* How many octets are looked at, of the len there are: mem_len is an unsigned
\* char.
LookedAt(len) == IF len % LenWrap < VlqMax THEN len % LenWrap ELSE VlqMax

(***************************************************************************)
(* hpack_integer_decode of octets mem, whose number the caller passes as   *)
(* len: the digits go on to the first octet without a continuation bit.    *)
(***************************************************************************)
DecodeInt(N, mem, len) ==
  LET first == mem[1] % 2 ^ N
      ends  == {i \in 1 .. LookedAt(len) - 1 : mem[i + 1] < Base}
      last  == Min(ends)
      sum   == MapThenSumSet(LAMBDA j : (mem[j + 1] % Base) * DigitWeight(j), 1 .. last)
  IN  IF first < IntLimit(N)
        THEN [ok |-> TRUE, value |-> first, consumed |-> 1]
      ELSE IF ends = {} \/ IntLimit(N) + sum > UIntMax
        THEN NotAnInt
      ELSE [ok |-> TRUE, value |-> IntLimit(N) + sum, consumed |-> last + 1]

-----------------------------------------------------------------------------
(* The definition to compare with, HPACK's: when octets represent value. *)
Represents(N, octets, value) ==
  \/ /\ Len(octets) = 1
     /\ octets[1] % 2 ^ N = value /\ value < IntLimit(N)
  \/ /\ Len(octets) > 1
     /\ octets[1] % 2 ^ N = IntLimit(N)
     /\ \A i \in 2 .. Len(octets) : octets[i] >= Base <=> i < Len(octets)
     /\ value = IntLimit(N) +
          FoldRight(LAMBDA o, high : (o % Base) + Base * high, Tail(octets), 0)
=============================================================================
