---------------------------- MODULE ChulaBuffer ----------------------------
(***************************************************************************)
(* The byte buffer everything in libhpack is kept in (chula_buffer_t of    *)
(* buffer.c): a block of allocated cells, how many of them it has, and how *)
(* many hold the text.  Operators take a buffer and give the buffer after  *)
(* the call with what it returned; ok says whether the allocator has       *)
(* memory.  What lies behind the text is Junk, but for the Nul that ends   *)
(* it: no caller may rely on it.                                           *)
(***************************************************************************)
EXTENDS Integers, Sequences

CONSTANTS
  Nul, Junk,  \* '\0', and the content of memory nobody has written
  Extra,      \* REALLOC_EXTRA_SIZE
  Word,       \* 2^32: where a uint32_t wraps
  None        \* CHULA_BUF_SLIDE_NONE

ASSUME ExtraAssumption == Extra \in Nat
ASSUME WordAssumption == Word \in Nat \ {0}

\* Cells first .. first+Len(txt)-1 of the memory are overwritten.  One that is
\* not allocated is, from then on, in the memory but not within its size.
Put(mem, first, txt) ==
  [i \in DOMAIN mem \cup first .. first + Len(txt) - 1 |->
     IF i \in first .. first + Len(txt) - 1 THEN txt[i - first + 1] ELSE mem[i]]

\* The memory holds a text of that length, and gets the Nul behind it.
Ended(b, mem, len) ==
  [mem  |-> [i \in DOMAIN mem \cup {len + 1} |->
               IF i <= len THEN mem[i] ELSE IF i = len + 1 THEN Nul ELSE Junk],
   len  |-> len,
   size |-> b.size]

\* realloc, or malloc of the first cells
Resized(b, size) ==
  [mem  |-> [i \in 1 .. size |-> IF i \in DOMAIN b.mem THEN b.mem[i] ELSE Junk],
   len  |-> b.len,
   size |-> size]

\* chula_buffer_init, and what chula_buffer_mrproper leaves
Empty == [mem |-> <<>>, len |-> 0, size |-> 0]

IsNull(b) == b.size = 0

Text(b) == [i \in 1 .. b.len |-> b.mem[i]]

Returns(ret, b) == [ret |-> ret, buf |-> b]

\* Slip: the pointer is overwritten with what realloc returned.
AllocatedLost(b, resized, ok, done) ==
  IF resized.size = b.size \/ ok THEN Returns("ok", done) ELSE Returns("nomem", Empty)

\* A call that goes on in the resized buffer, when there is memory for it.
Allocated(b, resized, ok, done) ==
  IF resized.size = b.size \/ ok THEN Returns("ok", done) ELSE Returns("nomem", b)

-----------------------------------------------------------------------------
(* Memory *)

\* chula_buffer_fake: the cells belong to somebody else
Fake(txt) == [mem |-> Append(txt, Nul), len |-> Len(txt), size |-> Len(txt) + 1]

\* chula_buffer_import of an allocation of that size
Import(txt, size) == Ended([size |-> size], Put([i \in 1 .. size |-> Junk], 1, txt), Len(txt))

Clean(b) == IF IsNull(b) THEN [b EXCEPT !.len = 0] ELSE Ended(b, b.mem, 0)

\* chula_buffer_dup
Dup(b) == [mem |-> [i \in 1 .. b.len + 1 |-> b.mem[i]], len |-> b.len, size |-> b.len + 1]

IncBufsize(b, inc) == Resized(b, b.size + inc + Extra + 1)

NewBufsize(b, size) == Resized(b, size + Extra + 1)

WithSize(b, size) == IF size <= b.size THEN b ELSE Resized(b, size)

EnsureSize(b, size, ok) == Allocated(b, WithSize(b, size), ok, WithSize(b, size))

EnsureAddlen(b, addlen, ok) ==
  IF b.len + addlen < b.size THEN Returns("ok", b) ELSE EnsureSize(b, b.len + addlen + 1, ok)

Retract(b, ok) ==
  IF b.len = 0 \/ b.size <= b.len + 1 THEN Returns("ok", b)
  ELSE Allocated(b, Resized(b, b.len + 1), ok, Resized(b, b.len + 1))

\* Slip: no room for the end of the text.
RoomWithoutEnd(b, n) == IF b.size - b.len < n THEN IncBufsize(b, n - (b.size - b.len)) ELSE b

\* Room for n more octets, as chula_buffer_add, _add_char_n and _prepend make
\* it: what is missing is counted on top of the old size.
Room(b, n) == IF b.size - b.len < n + 1 THEN IncBufsize(b, n - (b.size - b.len)) ELSE b

-----------------------------------------------------------------------------
(* Adding *)

AddAll(b, txt) == Ended(b, Put(b.mem, b.len + 1, txt), b.len + Len(txt))

Add(b, txt, ok) ==
  IF txt = <<>> THEN Returns("ok", b)
  ELSE Allocated(b, Room(b, Len(txt)), ok, AddAll(Room(b, Len(txt)), txt))

AddBuffer(b, b2, ok) == Add(b, Text(b2), ok)

\* chula_buffer_add_buffer_slice.  When both ends are given they are first
\* compared, as uint32_t: a begin of 0 counts as the end of the buffer there.
\* An end beyond the buffer copies nothing.
AddSlice(b, b2, begin, end, ok) ==
  LET len    == b2.len
      Pos(x) == IF x > 0 THEN x ELSE (len + x) % Word
      stop   == CASE end = None -> len
                  [] end # None -> IF end > 0 THEN end ELSE len + end
      start  == CASE begin = None -> 0
                  [] begin # None -> IF begin >= len THEN len
                                     ELSE IF begin >= 0 THEN begin
                                     ELSE IF -begin < len THEN len + begin ELSE 0
      nothing == \/ len = 0
                 \/ begin # None /\ end # None /\ Pos(end) <= Pos(begin)
                 \/ stop < 0 \/ stop > len \/ stop < start
  IN  IF nothing THEN Returns("ok", b) ELSE Add(b, SubSeq(Text(b2), start + 1, stop), ok)

AddChar(b, c, ok) ==
  LET room == IF b.len + 1 < b.size THEN b ELSE IncBufsize(b, 1)
  IN  Allocated(b, room, ok, AddAll(room, <<c>>))

AddCharN(b, c, num, ok) ==
  IF num <= 0 THEN Returns("ok", b)
  ELSE Allocated(b, Room(b, num), ok, AddAll(Room(b, num), [i \in 1 .. num |-> c]))

Prepend(b, txt, ok) ==
  LET room == Room(b, Len(txt))
  IN  IF txt = <<>> THEN Returns("ok", b)
      ELSE Allocated(b, room, ok,
             Ended(room, Put(Put(room.mem, Len(txt) + 1, Text(b)), 1, txt), b.len + Len(txt)))

Insert(b, txt, pos, ok) ==
  LET room == WithSize(b, b.len + Len(txt) + 1)
      posn == IF pos < b.len THEN pos ELSE b.len
  IN  IF txt = <<>> THEN Returns("ok", b)
      ELSE Allocated(b, room, ok,
             Ended(room,
                   Put(Put(room.mem, posn + Len(txt) + 1, SubSeq(Text(b), posn + 1, b.len)),
                       posn + 1, txt),
                   b.len + Len(txt)))

InsertBuffer(b, src, pos, ok) == Insert(b, Text(src), pos, ok)

\* chula_buffer_multiply gives chula_buffer_add the memory of the buffer it
\* adds to: that has to be where it was when the octets are copied.
Multiply(b, num, ok) ==
  LET room   == WithSize(b, b.len * num + 1)
      grown  == Room(room, b.len * (num - 1))
      copies == [i \in 1 .. b.len * (num - 1) |->
                   IF grown.size = room.size THEN b.mem[((i - 1) % b.len) + 1] ELSE Junk]
  IN  Allocated(b, room, ok, IF num <= 1 \/ b.len = 0 THEN room ELSE AddAll(grown, copies))

\* The digits of a number, as chula_buffer_add_long10 and its like add them.
AddDigits(b, digits, ok) ==
  LET newlen == b.len + Len(digits)
      room   == IF newlen >= b.size THEN NewBufsize(b, newlen) ELSE b
  IN  Allocated(b, room, ok, AddAll(room, digits))

\* vsnprintf into what is left behind the text: all of it and a Nul, or as
\* much as fits and the Nul in the last cell, without any change of len.
Printed(b, txt) ==
  LET free == b.size - b.len
  IN  IF Len(txt) < free THEN AddAll(b, txt)
      ELSE [b EXCEPT !.mem = Put(@, b.len + 1, Append(SubSeq(txt, 1, free - 1), Nul))]

\* chula_buffer_add_va_fixed, of a format that prints txt
AddVaFixed(b, txt) ==
  IF b.size - b.len < 1 THEN Returns("error", b)
  ELSE Returns(IF Len(txt) < b.size - b.len THEN "ok" ELSE "error", Printed(b, txt))

\* chula_buffer_add_va_list.  When the estimation was too low the arguments
\* are read a second time, from a va_list that is used up: again is what the
\* format prints then.
AddVaList(b, txt, estimation, again, ok, okAgain) ==
  LET room  == WithSize(b, b.len + estimation + 2)
      first == Printed(room, txt)
      more  == WithSize(first, b.len + Len(txt) + 2)
  IN  IF room.size # b.size /\ ~ok THEN Returns("nomem", b)
      ELSE IF Len(txt) < room.size - room.len THEN Returns("ok", first)
      ELSE IF more.size # first.size /\ ~okAgain THEN Returns("nomem", first)
      ELSE Returns(IF Len(again) < more.size - more.len THEN "ok" ELSE "error",
                   Printed(more, again))

-----------------------------------------------------------------------------
(* Removing *)

\* memmove of the cells behind position to, with the one that ends the text,
\* to position from; the text gets that length
Moved(b, from, to, len) ==
  [mem  |-> [i \in DOMAIN b.mem |->
               CASE i <= from -> b.mem[i]
                 [] i > from /\ i + to - from <= b.len + 1 -> b.mem[i + to - from]
                 [] OTHER -> Junk],
   len  |-> len,
   size |-> b.size]

MoveToBegin(b, pos) ==
  CASE pos = 0 -> b
    [] pos > 0 /\ pos >= b.len -> Clean(b)
    [] OTHER -> Moved(b, 0, pos, b.len - pos)

\* Slip: only the length is changed.
DropLength(b, num) ==
  IF IsNull(b) THEN b ELSE [b EXCEPT !.len = @ - IF num < b.len THEN num ELSE b.len]

DropEnding(b, num) ==
  IF IsNull(b) THEN b
  ELSE Ended(b, b.mem, b.len - (IF num < b.len THEN num ELSE b.len))

\* Slip: the length of the chunk is taken for its end.
RemoveUpTo(b, from, len) ==
  CASE from >= b.len -> b
    [] from = 0 /\ from < b.len /\ len >= b.len -> Clean(b)
    [] OTHER -> Moved(b, from, IF from > len THEN from ELSE len, (b.len - len) % Word)

\* chula_buffer_remove_chunk moves what is behind the chunk, or nothing when
\* it ends beyond the text, and takes all of len off in either case.
RemoveChunk(b, from, len) ==
  LET end == IF from + len < b.len THEN from + len ELSE b.len
  IN  CASE from >= b.len -> b
        [] from = 0 /\ from < b.len /\ len >= b.len -> Clean(b)
        [] OTHER -> Moved(b, from, end, (b.len - len) % Word)

-----------------------------------------------------------------------------
(* Reading.  txt is what read(2) gives. *)

\* chula_buffer_read_file, of a file of that size that could be opened
ReadFile(b, txt, size, fails, ok) ==
  LET room == WithSize(b, b.len + size + 1)
  IN  IF fails /\ (room.size = b.size \/ ok)
      THEN Returns("error", AddAll(room, <<>>))
      ELSE Allocated(b, room, ok, AddAll(room, txt))

\* chula_buffer_read_from_fd of at most size octets: with nothing read the
\* memory is left as it is, without an end when it is new.
ReadFromFd(b, txt, size, ok) ==
  LET room == EnsureAddlen(b, size, ok)
  IN  IF room.ret # "ok" \/ txt = <<>> THEN room
      ELSE Returns("ok", AddAll(room.buf, txt))
-----------------------------------------------------------------------------
(* What a buffer should be like *)

\* Every cell that was ever written lies within the allocation, and so does
\* the one that ends the text.
InBounds(b) ==
  /\ b.size \in Nat /\ b.len \in Nat
  /\ DOMAIN b.mem = 1 .. b.size
  /\ IF IsNull(b) THEN b.len = 0 ELSE b.len < b.size

Terminated(b) == b.len > 0 => b.mem[b.len + 1] = Nul
=============================================================================
