---------------------------- MODULE HuffmanCodec ----------------------------
(***************************************************************************)
(* libhpack/huffman.c.  The encoder writes the code of one symbol after    *)
(* the other into octets, and pads the last with the first bits of the     *)
(* code of the end of string.  The decoder is driven by a table with a row *)
(* for every inner node of the tree of the codes and a column for every    *)
(* half of an octet.                                                       *)
(***************************************************************************)
EXTENDS Integers, SequencesExt

CONSTANTS
  Symbols,     \* the octets that have a code
  EndOfString, \* symbol 256
  CodeBits,    \* hpack_huffman[s].bits, hpack_huffman[s].code
  CodeOf

OctetBits == 8

HalfBits == 4

\* No code is shorter than half an octet, which the generator of the table
\* insists on.
ASSUME CodesAssumption ==
  /\ EndOfString \notin Symbols
  /\ CodeBits \in [Symbols \cup {EndOfString} -> Nat]
  /\ \A s \in Symbols \cup {EndOfString} :
       CodeBits[s] >= HalfBits /\ CodeOf[s] \in 0 .. 2 ^ CodeBits[s] - 1

-----------------------------------------------------------------------------
(* Encoding.  A state of the encoder: the octets that are complete, the one *)
(* being filled, and remaining_bits, the bits free in it.                   *)

EncoderStart == [octets |-> <<>>, current |-> 0, room |-> OctetBits]

\* Slip: the bits before are forgotten.
Merge(current, bits) == bits % 2 ^ OctetBits

\* |= of bits that are still zero, kept to an octet.
Or(current, bits) == (current + bits) % 2 ^ OctetBits

\* encode_symbol: the last nbits bits of the code of s are still to be written.
RECURSIVE EncodeSymbol(_, _, _)
EncodeSymbol(s, nbits, e) ==
  IF e.room > nbits
    THEN [e EXCEPT !.current = Or(@, CodeOf[s] * 2 ^ (e.room - nbits)),
                   !.room    = @ - nbits]
    ELSE LET full == Or(e.current, CodeOf[s] \div 2 ^ (nbits - e.room))
             next == [octets |-> Append(e.octets, full), current |-> 0, room |-> OctetBits]
         IN  IF nbits = e.room THEN next ELSE EncodeSymbol(s, nbits - e.room, next)

\* Slip: the last octet is left with zeros.
PaddedWithZeros(e) ==
  IF e.room = OctetBits THEN e.octets ELSE Append(e.octets, e.current)

\* The last octet is filled up with the code of the end of string.
Padded(e) ==
  IF e.room = OctetBits
    THEN e.octets
    ELSE Append(e.octets, Or(e.current, CodeOf[EndOfString] \div
                                          2 ^ (CodeBits[EndOfString] - e.room)))

\* hpack_huffman_encode
HuffmanEncode(in) ==
  Padded(FoldLeft(LAMBDA e, s : EncodeSymbol(s, CodeBits[s], e), EncoderStart, in))

-----------------------------------------------------------------------------
(* Decoding. *)

\* The n bits of number v, the most significant first.
BitSeq(v, n) == [i \in 1 .. n |-> (v \div 2 ^ (n - i)) % 2]

CodePath == [s \in Symbols \cup {EndOfString} |-> BitSeq(CodeOf[s], CodeBits[s])]

\* bTree.traverse: one bit further down the tree; a leaf is a symbol, and the
\* walk goes on from the root.
Descend(walk, b) ==
  LET path == Append(walk.node, b)
      leaf == {s \in Symbols \cup {EndOfString} : CodePath[s] = path}
  IN  IF leaf = {} THEN [walk EXCEPT !.node = path]
                   ELSE [node |-> <<>>, decoded |-> walk.decoded \o SetToSeq(leaf)]

\* decode_table[node][half]
TableEntry(node, half) ==
  FoldLeft(Descend, [node |-> node, decoded |-> <<>>], BitSeq(half, HalfBits))

\* HPACK_HUFFMAN_ACCEPTED: nothing is left over but what may be padding.
Accepting(node) == IsPrefix(node, CodePath[EndOfString]) /\ Len(node) < OctetBits

DecoderStart == [ok |-> TRUE, node |-> <<>>, accept |-> TRUE, out |-> <<>>]

\* One half of an octet.
DecodeHalf(d, half) ==
  LET t == TableEntry(d.node, half)
  IN  IF ~ d.ok \/ (t.decoded # <<>> /\ Head(t.decoded) = EndOfString)
        THEN [d EXCEPT !.ok = FALSE]
        ELSE [ok |-> TRUE, node |-> t.node, accept |-> Accepting(t.node),
              out |-> d.out \o (IF t.decoded = <<>> THEN <<>> ELSE <<Head(t.decoded)>>)]

HalvesOf(o) == <<o \div 2 ^ HalfBits, o % 2 ^ HalfBits>>

\* hpack_huffman_decode: what is left over at the end is not looked at.
HuffmanDecode(in) ==
  FoldLeft(DecodeHalf, DecoderStart, FlattenSeq([i \in 1 .. Len(in) |-> HalvesOf(in[i])]))

-----------------------------------------------------------------------------
(* The definition to compare with: the codes of s one after the other, and  *)
(* then less than a code.  HPACK asks more of the padding, which the        *)
(* decoder does not look at.                                                *)
IsHuffmanOf(octets, s) ==
  LET bits == FlattenSeq([i \in 1 .. Len(octets) |-> BitSeq(octets[i], OctetBits)])
      code == FlattenSeq([i \in 1 .. Len(s) |-> CodePath[s[i]]])
      rest == SubSeq(bits, Len(code) + 1, Len(bits))
  IN  /\ IsPrefix(code, bits)
      /\ \A t \in Symbols \cup {EndOfString} : ~ IsPrefix(CodePath[t], rest)
=============================================================================
