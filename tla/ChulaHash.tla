----------------------------- MODULE ChulaHash -----------------------------
(***************************************************************************)
(* How md5.c, sha1.c and sha512.c cut what they are given, piece by piece, *)
(* into blocks, and what they put behind it at the end.  What a transform  *)
(* makes of a block is left out: a context keeps the blocks it has         *)
(* transformed.  An octet is any value; the two words of the length take   *)
(* one place each, Lengths of them at the end of the last block.           *)
(***************************************************************************)
EXTENDS Naturals, SequencesExt

CONSTANTS
  Block,  \* octets of a block: 64, in sha512.c 128
  CountWord,   \* 2^32: the words the length of md5.c and sha1.c is counted in
  WideWord    \* 2^64: those of sha512.c

ASSUME HashAssumption == CountWord % (8 * Block) = 0 /\ WideWord % CountWord = 0

Lengths == 2

Mark == 128

Zeros(n) == [i \in 1 .. n |-> 0]

\* Octets are copied into the block of a context, from place at on.
Filled(ctx, at, octets) ==
  [ctx EXCEPT !.in = [i \in 1 .. Block |->
     IF i \in at + 1 .. at + Len(octets) THEN octets[i - at] ELSE @[i]]]

Transform(ctx) == [ctx EXCEPT !.done = @ \o ctx.in]

Take(octets, n) == SubSeq(octets, 1, n)

Rest(octets, n) == SubSeq(octets, n + 1, Len(octets))

\* All whole blocks of what is left are transformed, and the rest is kept.
RECURSIVE WholeBlocks(_, _)
WholeBlocks(ctx, octets) ==
  IF Len(octets) < Block THEN Filled(ctx, 0, octets)
  ELSE WholeBlocks(Transform(Filled(ctx, 0, Take(octets, Block))), Rest(octets, Block))

Start == [lo |-> 0, hi |-> 0, local |-> 0, in |-> Zeros(Block), done |-> <<>>]

\* Slip: the place of the mark itself is forgotten.
OverfullLate(count) == count > Block - Lengths

Overfull(count) == count + 1 > Block - Lengths

\* The mark behind count octets, and zeros up to the length; they go on in
\* another block when the length does not fit in this one.
WithMark(ctx, count) ==
  LET marked == Filled(ctx, count, <<Mark>>)
  IN  IF Overfull(count)
      THEN Filled(Transform(Filled(marked, count + 1, Zeros(Block - (count + 1)))), 0, Zeros(Block - Lengths))
      ELSE Filled(marked, count + 1, Zeros(Block - Lengths - (count + 1)))

-----------------------------------------------------------------------------
(* md5.c counts octets. *)

MD5Update(ctx, octets) ==
  LET len     == Len(octets)
      lo      == (ctx.lo + len) % CountWord
      counted == [ctx EXCEPT !.lo = lo, !.hi = IF lo < ctx.lo THEN (@ + 1) % CountWord ELSE @]
      t       == Block - (ctx.lo % Block)
  IN  IF t > len THEN Filled(counted, Block - t, octets)
      ELSE WholeBlocks(Transform(Filled(counted, Block - t, Take(octets, t))), Rest(octets, t))

MD5Final(ctx) ==
  Transform(Filled(WithMark(ctx, ctx.lo % Block), Block - Lengths,
    <<(ctx.lo * 8) % CountWord, ((ctx.hi * 8) % CountWord) + ctx.lo \div (CountWord \div 8)>>)).done

-----------------------------------------------------------------------------
(* sha1.c counts bits, and keeps how much of a block it has. *)

ShaUpdate(ctx, octets) ==
  LET len     == Len(octets)
      clo     == (ctx.lo + len * 8) % CountWord
      carry   == IF clo < ctx.lo THEN 1 ELSE 0
      counted == [ctx EXCEPT !.lo = clo, !.hi = (@ + carry + len \div (CountWord \div 8)) % CountWord]
      i       == IF Block - ctx.local > len THEN len ELSE Block - ctx.local
      first   == Filled(counted, ctx.local, Take(octets, i))
      Local(c, rest) == [WholeBlocks(c, rest) EXCEPT !.local = Len(rest) % Block]
  IN  CASE ctx.local = 0 -> Local(counted, octets)
        [] ctx.local > 0 /\ ctx.local + i < Block -> [first EXCEPT !.local = @ + i]
        [] OTHER -> Local(Transform(first), Rest(octets, i))

ShaFinal(ctx) ==
  Transform(Filled(WithMark(ctx, (ctx.lo \div 8) % Block), Block - Lengths, <<ctx.hi, ctx.lo>>)).done

-----------------------------------------------------------------------------
(* sha512.c counts bits, and pads with an update of its own. *)

RECURSIVE Blocks512(_, _, _)
Blocks512(ctx, offset, octets) ==
  LET l      == IF Len(octets) < Block - offset THEN Len(octets) ELSE Block - offset
      filled == Filled(ctx, offset, Take(octets, l))
  IN  CASE octets = <<>> -> ctx
        [] octets # <<>> /\ offset + l = Block -> Blocks512(Transform(filled), 0, Rest(octets, l))
        [] OTHER -> filled

SHA512Update(ctx, octets) ==
  LET sz == (ctx.lo + Len(octets) * 8) % WideWord
  IN  Blocks512([ctx EXCEPT !.lo = sz, !.hi = IF sz < ctx.lo THEN @ + 1 ELSE @],
                (ctx.lo \div 8) % Block, octets)

SHA512Final(ctx) ==
  LET offset == (ctx.lo \div 8) % Block
      dstart == ((2 * Block - Lengths - offset - 1) % Block) + 1
  IN  SHA512Update(ctx, <<Mark>> \o Zeros(dstart - 1) \o <<ctx.hi, ctx.lo>>).done

-----------------------------------------------------------------------------
(* The definition: the mark, as few zeros as make whole blocks, the length. *)

Padded(octets, lengths) ==
  LET n == Len(octets) + 1 + Lengths
  IN  octets \o <<Mark>> \o Zeros((Block - (n % Block)) % Block) \o lengths

LengthIn(octets, word) == [hi |-> (Len(octets) * 8) \div word, lo |-> (Len(octets) * 8) % word]
=============================================================================
