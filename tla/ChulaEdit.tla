----------------------------- MODULE ChulaEdit -----------------------------
(***************************************************************************)
(* The operations of buffer.c that search the text of a buffer and change  *)
(* it in its place.                                                        *)
(***************************************************************************)
EXTENDS ChulaText

-----------------------------------------------------------------------------
(* Comparison and search *)

Lower(c) == IF c \in 65 .. 90 THEN c + 32 ELSE c

Sign(n) == CASE n < 0 -> -1 [] n = 0 -> 0 [] n > 0 -> 1

\* memcmp of texts of one length (external)
Compared(s, t) ==
  LET differ == SelectInSeq([i \in DOMAIN s |-> s[i] # t[i]], LAMBDA d : d)
  IN  IF differ = 0 THEN 0 ELSE Sign(s[differ] - t[differ])

CmpBuf(b, b2) == IF b.len # b2.len THEN Sign(b.len - b2.len) ELSE Compared(Text(b), Text(b2))

\* strncasecmp ends at a Nul the two have in the same place.
CaseCmpBuf(b, b2) ==
  LET Low(x) == [i \in 1 .. x.len |-> Lower(x.mem[i])]
      nul    == {i \in 1 .. b.len : Low(b)[i] = Nul}
      n      == IF nul = {} THEN b.len ELSE CHOOSE i \in nul : \A j \in nul : i <= j
  IN  IF b.len # b2.len THEN Sign(b.len - b2.len)
      ELSE Compared(SubSeq(Low(b), 1, n), SubSeq(Low(b2), 1, n))

\* chula_buffer_cnt_spn; chula_buffer_cnt_cspn is that of the other octets.
Span(b, offset, octets) ==
  LET s    == SubSeq(Text(b), offset + 1, b.len)
      stop == {i \in DOMAIN s : s[i] \notin octets \/ s[i] = Nul}
  IN  IF stop = {} THEN Len(s) ELSE (CHOOSE i \in stop : \A j \in stop : i <= j) - 1

CntSpn(b, offset, octets) == Span(b, offset, octets)

CntCspn(b, offset, octets) == Span(b, offset, 1 .. 255 \ octets)

EndChar(b) == IF b.len = 0 THEN Nul ELSE b.mem[b.len]

IsEnding(b, c) == b.len > 0 /\ b.mem[b.len] = c

-----------------------------------------------------------------------------
(* Changes *)

SwapChars(b, c, d) ==
  [b EXCEPT !.mem = [i \in DOMAIN @ |-> IF i <= b.len /\ @[i] = c THEN d ELSE @[i]]]

ToLowcase(b) ==
  [b EXCEPT !.mem = [i \in DOMAIN @ |-> IF i <= b.len THEN Lower(@[i]) ELSE @[i]]]

\* chula_buffer_remove_dups: a is written, offset octets behind it is read.
RECURSIVE DupsFrom(_, _, _, _)
DupsFrom(b, a, offset, c) ==
  LET dup  == b.mem[a] = c /\ b.mem[a + offset + 1] = c
      next == IF dup THEN b ELSE [b EXCEPT !.mem[a + 1] = b.mem[a + 1 + offset]]
      a2   == IF dup THEN a ELSE a + 1
      o2   == IF dup THEN offset + 1 ELSE offset
  IN  IF a2 + o2 < b.len + 1 /\ o2 + 1 < b.len THEN DupsFrom(next, a2, o2, c)
      ELSE Ended(b, next.mem, b.len - o2)

RemoveDups(b, c) == IF b.len < 2 THEN b ELSE DupsFrom(b, 1, 0, c)

\* chula_buffer_remove_string looks from the beginning after each removal.
RECURSIVE RemoveString(_, _)
RemoveString(b, string) ==
  LET at == Find(CStr(Text(b)), string, 1)
  IN  IF b.len = 0 \/ string = <<>> \/ at = 0 THEN b
      ELSE RemoveString(Moved(b, at - 1, at - 1 + Len(string), b.len - Len(string)), string)

\* The parts of a text around what is found in it, from left to right.
RECURSIVE Parts(_, _)
Parts(s, sub) ==
  LET at == Find(s, sub, 1)
  IN  IF at = 0 THEN <<s>>
      ELSE <<SubSeq(s, 1, at - 1)>> \o Parts(SubSeq(s, at + Len(sub), Len(s)), sub)

Joined(parts, by) == FoldLeft(LAMBDA s, p : s \o by \o p, Head(parts), Tail(parts))

ResultLength(len, n, sub, replacement) == len + n * (Len(replacement) - Len(sub))

\* chula_buffer_replace_string, of a substring that is not empty
ReplaceString(b, sub, replacement, ok) ==
  LET parts == Parts(CStr(Text(b)), sub)
      len   == ResultLength(b.len, Len(parts) - 1, sub, replacement)
      txt   == Joined(parts, replacement)
  IN  CASE b.len = 0 \/ Len(parts) = 1 -> Returns("ok", b)
        [] b.len > 0 /\ Len(parts) > 1 /\ len < 1 -> Returns("ok", Ended(b, b.mem, 0))
        [] b.len > 0 /\ Len(parts) > 1 /\ len >= 1 ->
             IF ok THEN Returns("ok", [mem  |-> Put([i \in 1 .. len + 1 |-> Junk], 1, Append(txt, Nul)),
                                       len  |-> len,
                                       size |-> len + 1])
             ELSE Returns("nomem", b)

\* chula_buffer_substitute_string, the same into another buffer; that one is
\* emptied also when nothing is found.
SubstituteString(b, dst, sub, replacement, ok) ==
  LET s     == Text(b)
      parts == Parts(CStr(s), sub)
      len   == ResultLength(b.len, Len(parts) - 1, sub, replacement)
      txt   == Joined(parts, replacement) \o SubSeq(s, Len(CStr(s)) + 1, b.len)
      room  == EnsureSize(Clean(dst), len + 2, ok)
  IN  CASE b.len = 0 -> Returns("ok", dst)
        [] b.len > 0 /\ Len(parts) = 1 -> Returns("not_found", Clean(dst))
        [] b.len > 0 /\ Len(parts) > 1 /\ len < 1 -> Returns("ok", Clean(dst))
        [] OTHER -> IF room.ret # "ok" THEN room
                    ELSE Returns("ok", [room.buf EXCEPT !.mem = Put(@, 1, Append(txt, Nul)), !.len = len])

\* chula_buffer_add_comma_marks: num commas, the first behind octet p.
\* Slip: the comma itself is not counted.
NextMarkEarly(p) == p + 3

NextMark(p) == p + 4

RECURSIVE Commas(_, _, _)
Commas(b, p, num) ==
  IF num = 0 THEN b
  ELSE Commas([b EXCEPT !.mem = Put(@, p + 1, <<44>> \o SubSeq(Text(b), p + 1, b.len)),
                        !.len = @ + 1], NextMark(p), num - 1)

AddCommaMarks(b, ok) ==
  LET num    == b.len \div 3
      off    == b.len % 3
      room   == EnsureSize(b, b.len + num + 2, ok)
      marked == Commas(room.buf, IF off = 0 THEN 3 ELSE off, IF off = 0 THEN num - 1 ELSE num)
  IN  CASE b.len <= 3 -> Returns("ok", b)
        [] b.len > 3 /\ room.ret # "ok" -> room
        [] OTHER -> Returns("ok", Ended(marked, marked.mem, marked.len))

Blank == {32, 9, 13, 10}

Trim(b) ==
  LET s     == Text(b)
      start == Span(b, 0, Blank)
      tail  == {i \in start + 1 .. b.len : \A j \in i .. b.len : s[j] \in Blank}
      len   == b.len - start - Cardinality(tail)
  IN  IF b.len = 0 THEN b ELSE Ended(b, Moved(b, 0, start, len).mem, len)

\* chula_buffer_split_lines.  Positions count from 1; 0 is NULL.  A space that
\* is seen before the first of a line is too late counts as that first.
RECURSIVE SplitFrom(_, _, _, _, _, _, _)
SplitFrom(b, p, prev_space, since_prev, columns, indent, ok) ==
  LET since == since_prev + 1
      prev  == IF prev_space = 0 \/ since <= columns THEN p ELSE prev_space
      split == Insert([b EXCEPT !.mem[prev] = 10], indent, prev, ok)
  IN  CASE p > b.len -> Returns("ok", b)
        [] p <= b.len /\ b.mem[p] # 32 ->
             SplitFrom(b, p + 1, prev_space, since, columns, indent, ok)
        [] p <= b.len /\ b.mem[p] = 32 /\ since < columns ->
             SplitFrom(b, p + 1, prev, since, columns, indent, ok)
        [] p <= b.len /\ b.mem[p] = 32 /\ since >= columns ->
             IF split.ret # "ok" THEN split
             ELSE SplitFrom(split.buf, p + Len(indent) + 1, 0, p - prev + Len(indent), columns, indent, ok)

SplitLines(b, columns, indent, ok) == SplitFrom(b, 1, 0, 0, columns, indent, ok)
=============================================================================
