---------------------------- MODULE BufferClient ----------------------------
(***************************************************************************)
(* A caller that makes any call on a buffer, with another one it was       *)
(* copied from or swapped with, while the allocator may fail at any time.  *)
(***************************************************************************)
EXTENDS ChulaBuffer, FiniteSets

CONSTANTS
  Octets,  \* what a char may be
  Texts,   \* the texts that are added
  MaxLen   \* bound: no longer text is built

ASSUME TextsAssumption ==
  /\ Nul \in Octets
  /\ Texts \subseteq Seq(Octets)
  /\ MaxLen \in Nat

VARIABLES buf, other

bvars == <<buf, other>>

Numbers == 0 .. MaxLen

Offsets == {None} \cup (-(MaxLen + 1) .. MaxLen + 1)

\* What the callers of chula_buffer_remove_chunk in util.c pass: a chunk of the
\* text, or the whole of it and more.
Chunk(b, from, len) == from = 0 \/ from >= b.len \/ from + len <= b.len

Fits(n) == buf.len + n <= MaxLen

ClientInit == buf = Empty /\ other = Empty

Becomes(r) == buf' = r.buf /\ UNCHANGED other

Change(b) == buf' = b /\ UNCHANGED other

AddText(txt, ok) == Fits(Len(txt)) /\ Becomes(Add(buf, txt, ok))

AddOther(ok) == Fits(other.len) /\ Becomes(AddBuffer(buf, other, ok))

SliceOther(begin, end, ok) == Fits(other.len) /\ Becomes(AddSlice(buf, other, begin, end, ok))

Chars(txt, num, ok) ==
  /\ Fits(num) /\ txt # <<>>
  /\ \/ num = 1 /\ Becomes(AddChar(buf, txt[1], ok))
     \/ Becomes(AddCharN(buf, txt[1], num, ok))

PutBefore(txt, pos, ok) ==
  /\ Fits(Len(txt))
  /\ \/ Becomes(Insert(buf, txt, pos, ok))
     \/ pos = 0 /\ Becomes(Prepend(buf, txt, ok))

InsertOther(pos, ok) == Fits(other.len) /\ Becomes(InsertBuffer(buf, other, pos, ok))

Times(num, ok) == buf.len * num <= MaxLen /\ Becomes(Multiply(buf, num, ok))

Digits(txt, ok) == Fits(Len(txt)) /\ Becomes(AddDigits(buf, txt, ok))

VaFixed(txt) == Fits(Len(txt)) /\ Becomes(AddVaFixed(buf, txt))

Va(txt, estimation, again, ok, okAgain) ==
  /\ Fits(Len(txt)) /\ Fits(Len(again)) /\ (again = txt \/ estimation < Len(txt))
  /\ Becomes(AddVaList(buf, txt, estimation, again, ok, okAgain))

Reserve(n, ok) ==
  \/ Becomes(EnsureSize(buf, n, ok))
  \/ Fits(n) /\ Becomes(EnsureAddlen(buf, n, ok))

Shrink(ok) == Becomes(Retract(buf, ok))

Remove(from, len) ==
  \/ Chunk(buf, from, len) /\ Change(RemoveChunk(buf, from, len))
  \/ len = 0 /\ Change(MoveToBegin(buf, from))
  \/ from = 0 /\ Change(DropEnding(buf, len))

Read(txt, size, fails, ok) ==
  /\ Len(txt) <= size /\ Fits(size)
  /\ \/ Becomes(ReadFile(buf, txt, size, fails, ok))
     \/ Becomes(ReadFromFd(buf, IF fails THEN <<>> ELSE txt, size, ok))

Reset(txt, size) ==
  \/ Change(Clean(buf)) \/ Change(Empty)
  \/ size > Len(txt) /\ size <= MaxLen + 2 /\ Change(Import(txt, size))

\* chula_buffer_dup, of a buffer that has memory; the caller frees the copy it
\* had before.
Copy == ~IsNull(buf) /\ buf.len < MaxLen /\ other' = Dup(buf) /\ UNCHANGED buf

\* chula_buffer_swap_buffers
Swap == buf' = other /\ other' = buf

ClientNext ==
  \/ \E ok \in BOOLEAN :
       \/ \E txt \in Texts, n \in Numbers :
            Chars(txt, n, ok) \/ PutBefore(txt, n, ok) \/ \E fails \in BOOLEAN : Read(txt, n, fails, ok)
       \/ \E txt, again \in Texts, n \in {0, MaxLen}, okAgain \in BOOLEAN :
            Va(txt, n, again, ok, okAgain)
       \/ \E txt \in Texts : AddText(txt, ok) \/ Digits(txt, ok)
       \/ \E n \in Numbers : InsertOther(n, ok) \/ Times(n, ok) \/ Reserve(n, ok)
       \/ \E begin, end \in Offsets : SliceOther(begin, end, ok)
       \/ AddOther(ok) \/ Shrink(ok)
  \/ \E from, len \in 0 .. MaxLen + 1 : Remove(from, len)
  \/ \E txt \in Texts, n \in 0 .. MaxLen + 2 : Reset(txt, n)
  \/ \E txt \in Texts : VaFixed(txt)
  \/ Copy \/ Swap

ClientSpec == ClientInit /\ [][ClientNext]_bvars
-----------------------------------------------------------------------------
(* Properties *)

\* No call writes outside what is allocated, and there is always a cell for
\* the Nul, whatever the calls before and whichever of them had no memory.
MemoryOK == InBounds(buf) /\ InBounds(other)

\* A print that did not fit has written over the Nul.
Overprinted ==
  \E txt \in Texts :
    \/ buf' = AddVaFixed(buf, txt).buf /\ AddVaFixed(buf, txt).ret = "error"
    \/ \E again \in Texts, n \in Numbers, okAgain \in BOOLEAN :
         LET r == AddVaList(buf, txt, n, again, TRUE, okAgain)
         IN  buf' = r.buf /\ r.ret # "ok"

\* But for such a print, every call leaves a text that ended with a Nul with
\* one, also a call that fails half way.
EndKept ==
  [][Terminated(buf) /\ Terminated(other)
     => (Terminated(buf') /\ Terminated(other')) \/ Overprinted]_bvars

\* The calls that need memory, each with something to do.
NoMemory ==
  UNION {{Add(buf, txt, FALSE), Prepend(buf, txt, FALSE), Insert(buf, txt, n, FALSE),
          AddDigits(buf, txt, FALSE), AddCharN(buf, Nul, n, FALSE), AddChar(buf, Nul, FALSE),
          Multiply(buf, n, FALSE), EnsureSize(buf, n, FALSE), EnsureAddlen(buf, n, FALSE),
          Retract(buf, FALSE), ReadFile(buf, txt, n, FALSE, FALSE),
          ReadFromFd(buf, txt, Len(txt), FALSE)} : txt \in Texts, n \in Numbers}

\* A call that returns ret_nomem has not changed the text.
NoMemKeepsText ==
  \A r \in NoMemory : r.ret = "nomem" => Text(r.buf) = Text(buf)

\* The rest of the text when octets from+1 to from+n are taken out.
Without(txt, from, n) ==
  LET left == {i \in DOMAIN txt : i <= from \/ i > from + n}
  IN  [i \in 1 .. Cardinality(left) |-> txt[IF i <= from THEN i ELSE i + n]]

\* begin:end of a text, counted from its end when negative.
Between(txt, begin, end) ==
  LET At(x) == IF x < 0 THEN Len(txt) + x ELSE x
  IN  SubSeq(txt, (IF begin = None THEN 0 ELSE At(begin)) + 1,
                  IF end = None THEN Len(txt) ELSE At(end))

\* What a successful call makes of the text: the whole of what was asked for,
\* in its place, whatever size the memory had before and was grown to.
CallsDoAsTold ==
  LET txt == Text(buf)
      Gives(r, t) == r.ret = "ok" /\ Text(r.buf) = t
  IN  /\ \A t \in Texts, n \in Numbers :
           /\ Gives(Add(buf, t, TRUE), txt \o t)
           /\ Gives(AddDigits(buf, t, TRUE), txt \o t)
           /\ Gives(Prepend(buf, t, TRUE), t \o txt)
           /\ n <= Len(txt) =>
                Gives(Insert(buf, t, n, TRUE),
                      SubSeq(txt, 1, n) \o t \o SubSeq(txt, n + 1, Len(txt)))
           /\ Len(t) <= n => Gives(AddVaList(buf, t, n, <<>>, TRUE, TRUE), txt \o t)
           /\ AddVaFixed(buf, t).ret = "ok" => Gives(AddVaFixed(buf, t), txt \o t)
           /\ Gives(Multiply(buf, n, TRUE),
                    [i \in 1 .. Len(txt) * (IF n = 0 THEN 1 ELSE n) |->
                       txt[((i - 1) % Len(txt)) + 1]])
      /\ \A from, n \in Numbers :
           /\ Chunk(buf, from, n) =>
                Text(RemoveChunk(buf, from, n)) = Without(txt, from, n)
           /\ Text(MoveToBegin(buf, from)) = Without(txt, 0, from)
           /\ Text(DropEnding(buf, n)) = Without(txt, Len(txt) - n, n)
      /\ \A begin, end \in Offsets \ {0} :
           (\A x \in {begin, end} \ {None} : x <= other.len /\ -x <= other.len) =>
             Gives(AddSlice(buf, other, begin, end, TRUE),
                   txt \o Between(Text(other), begin, end))
=============================================================================
