---------------------------- MODULE MCHeaderWire ----------------------------
(***************************************************************************)
(* A small Huffman code of the shape of HPACK's: symbols 0 to 30 have a    *)
(* code of five bits, the next ones have one bit more each, and the end of *)
(* string is all ones.                                                     *)
(***************************************************************************)
EXTENDS HeaderWire

CONSTANT Octets   \* the octets that blocks of other encoders are made of

SmallSymbols == 0 .. 36

SmallBits ==
  [s \in 0 .. 37 |-> IF s <= 30 THEN 5 ELSE IF s = 37 THEN 11 ELSE s - 25]

SmallCode ==
  [s \in 0 .. 37 |-> IF s <= 30 THEN s ELSE 2 ^ SmallBits[s] - (IF s = 37 THEN 1 ELSE 2)]

SomeStrings == {<<>>, <<0>>, <<36>>, <<31, 5>>, <<36, 0, 36, 36, 36, 36, 36>>}

\* Up to four octets after the one that announces the representation.
OtherBlocks == UNION {{<<c>> \o s : c \in {0, 64, 160}, s \in [1 .. n -> Octets]} : n \in 2 .. 4}

\* A string of 30 octets when it is encoded: with its length there are 32.
LongStrings == {<<0>>, [i \in 1 .. 48 |-> 5]}
=============================================================================
