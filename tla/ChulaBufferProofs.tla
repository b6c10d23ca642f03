-------------------------- MODULE ChulaBufferProofs --------------------------
(***************************************************************************)
(* No call on a buffer writes outside its allocation, each leaves the Nul  *)
(* that ends the text and makes of the text what it promises, and one that *)
(* finds no memory changes nothing: for texts of any length, any sizes and *)
(* any failures of the allocator.                                          *)
(***************************************************************************)
EXTENDS BufferClient, TLAPS, FiniteSetTheorems, SequenceTheorems

\* A buffer is a record, and its members agree.
Good(b) ==
  /\ b = [mem |-> b.mem, len |-> b.len, size |-> b.size]
  /\ InBounds(b)

\* n more octets and the Nul fit.
HasRoom(b, n) == Good(b) /\ b.len + n < b.size

-----------------------------------------------------------------------------
(* Arithmetic and sequences *)

LEMMA ModAtMost ==
  ASSUME NEW x \in Nat, NEW w \in Nat \ {0}
  PROVE  x % w \in 0 .. x
  OBVIOUS

LEMMA TimesNat ==
  ASSUME NEW x \in Nat, NEW n \in Nat
  PROVE  /\ x * n \in Nat
         /\ n > 1 => x * (n - 1) \in Nat /\ x + x * (n - 1) = x * n
  OBVIOUS

LEMMA RepeatedLen ==
  ASSUME NEW n \in Nat, NEW c
  PROVE  Len([i \in 1 .. n |-> c]) = n
  OBVIOUS

LEMMA SliceLen ==
  ASSUME NEW S, NEW s \in Seq(S), NEW m \in Nat, NEW n \in Nat, m <= n, n <= Len(s)
  PROVE  SubSeq(s, m + 1, n) \in Seq(S) /\ Len(SubSeq(s, m + 1, n)) = n - m
  OBVIOUS

\* The text of a buffer is a sequence of its length.
LEMMA TextIsSeq ==
  ASSUME NEW b, Good(b)
  PROVE  /\ Text(b) \in Seq({b.mem[i] : i \in 1 .. b.len})
         /\ Len(Text(b)) = b.len
  BY DEF Good, InBounds, Text

-----------------------------------------------------------------------------
(* Memory *)

LEMMA EndedGood ==
  ASSUME NEW b, NEW mem, NEW len \in Nat, b.size \in Nat, len < b.size,
         DOMAIN mem = 1 .. b.size
  PROVE  Good(Ended(b, mem, len))
  <1> DEFINE e == Ended(b, mem, len)
  <1>1. e.len = len /\ e.size = b.size
    BY DEF Ended
  <1>2. DOMAIN e.mem = 1 .. b.size
    BY DEF Ended
  <1>3. e = [mem |-> e.mem, len |-> e.len, size |-> e.size]
    BY DEF Ended
  <1> QED
    BY <1>1, <1>2, <1>3 DEF Good, InBounds, IsNull

LEMMA PutWithin ==
  ASSUME NEW mem, NEW size \in Nat, NEW first \in Nat \ {0}, NEW txt, Len(txt) \in Nat,
         DOMAIN mem = 1 .. size, first + Len(txt) <= size + 1
  PROVE  DOMAIN Put(mem, first, txt) = 1 .. size
  BY SMTT(30) DEF Put

LEMMA EmptyGood == Good(Empty)
  BY DEF Good, InBounds, Empty, IsNull

LEMMA ResizedGood ==
  ASSUME NEW b, Good(b), NEW size \in Nat, b.len < size
  PROVE  Good(Resized(b, size)) /\ Resized(b, size).len = b.len /\ Resized(b, size).size = size
  BY DEF Good, InBounds, Resized, IsNull

LEMMA WithSizeRoom ==
  ASSUME NEW b, Good(b), NEW n \in Nat
  PROVE  /\ HasRoom(WithSize(b, b.len + n + 1), n)
         /\ WithSize(b, b.len + n + 1).len = b.len
  <1>1. b.len \in Nat /\ b.size \in Nat
    BY DEF Good, InBounds
  <1>2. b.len + n + 1 \in Nat /\ b.len < b.len + n + 1
    BY <1>1
  <1> QED
    BY <1>1, <1>2, ResizedGood DEF WithSize, HasRoom

LEMMA RoomGood ==
  ASSUME NEW b, Good(b), NEW n \in Nat
  PROVE  HasRoom(Room(b, n), n) /\ Room(b, n).len = b.len
  <1>1. b.len \in Nat /\ b.size \in Nat
    BY DEF Good, InBounds
  <1>2. CASE b.size - b.len < n + 1
    <2> DEFINE size == b.size + (n - (b.size - b.len)) + Extra + 1
    <2>1. size \in Nat /\ b.len + n < size
      BY <1>1, ExtraAssumption
    <2>2. Room(b, n) = Resized(b, size)
      BY <1>2 DEF Room, IncBufsize
    <2> HIDE DEF size
    <2> QED
      BY <1>1, <2>1, <2>2, ResizedGood DEF HasRoom
  <1>3. CASE ~(b.size - b.len < n + 1)
    BY <1>1, <1>3 DEF Room, HasRoom
  <1> QED
    BY <1>2, <1>3

LEMMA AllocatedGood ==
  ASSUME NEW b, NEW resized, NEW ok, NEW done, Good(b), Good(done)
  PROVE  Good(Allocated(b, resized, ok, done).buf)
  BY DEF Allocated, Returns

LEMMA AddAllGood ==
  ASSUME NEW b, NEW txt, Len(txt) \in Nat, HasRoom(b, Len(txt))
  PROVE  Good(AddAll(b, txt))
  <1>1. b.len \in Nat /\ b.size \in Nat /\ DOMAIN b.mem = 1 .. b.size /\ b.len + Len(txt) < b.size
    BY DEF HasRoom, Good, InBounds
  <1>2. DOMAIN Put(b.mem, b.len + 1, txt) = 1 .. b.size
    <2> DEFINE first == b.len + 1
               size  == b.size
    <2>1. first \in Nat \ {0} /\ first + Len(txt) <= size + 1 /\ size \in Nat
          /\ DOMAIN b.mem = 1 .. size
      BY <1>1
    <2> HIDE DEF first, size
    <2>2. DOMAIN Put(b.mem, first, txt) = 1 .. size
      BY <2>1, PutWithin
    <2> QED
      BY <2>2 DEF first, size
  <1> QED
    BY <1>1, <1>2, EndedGood DEF AddAll

LEMMA EnsureSizeGood ==
  ASSUME NEW b, Good(b), NEW n \in Nat, NEW ok
  PROVE  Good(EnsureSize(b, n, ok).buf)
  <1>1. b.len \in Nat /\ b.size \in Nat /\ (n > b.size => b.len < n)
    BY DEF Good, InBounds, IsNull
  <1>2. Good(WithSize(b, n))
    BY <1>1, ResizedGood DEF WithSize
  <1> QED
    BY <1>2, AllocatedGood DEF EnsureSize

LEMMA EnsureAddlenGood ==
  ASSUME NEW b, Good(b), NEW n \in Nat, NEW ok
  PROVE  /\ Good(EnsureAddlen(b, n, ok).buf)
         /\ EnsureAddlen(b, n, ok).ret = "ok" => HasRoom(EnsureAddlen(b, n, ok).buf, n)
  <1>1. b.len \in Nat /\ b.size \in Nat
    BY DEF Good, InBounds
  <1>2. CASE b.len + n < b.size
    BY <1>1, <1>2 DEF EnsureAddlen, Returns, HasRoom
  <1>3. CASE ~(b.len + n < b.size)
    <2>1. HasRoom(WithSize(b, b.len + n + 1), n)
      BY WithSizeRoom
    <2>2. Good(EnsureSize(b, b.len + n + 1, ok).buf)
      BY <1>1, EnsureSizeGood
    <2>3. EnsureAddlen(b, n, ok) = EnsureSize(b, b.len + n + 1, ok)
      BY <1>3 DEF EnsureAddlen
    <2> QED
      BY <2>1, <2>2, <2>3 DEF EnsureSize, Allocated, Returns
  <1> QED
    BY <1>2, <1>3

LEMMA RetractGood ==
  ASSUME NEW b, Good(b), NEW ok
  PROVE  Good(Retract(b, ok).buf)
  <1>1. b.len \in Nat
    BY DEF Good, InBounds
  <1>2. Good(Resized(b, b.len + 1))
    BY <1>1, ResizedGood
  <1> QED
    BY <1>2, AllocatedGood DEF Retract, Returns

LEMMA CleanGood ==
  ASSUME NEW b, Good(b)
  PROVE  Good(Clean(b))
  <1>1. b.size \in Nat /\ DOMAIN b.mem = 1 .. b.size
    BY DEF Good, InBounds
  <1>2. CASE IsNull(b)
    BY <1>2 DEF Clean, Good, InBounds, IsNull
  <1>3. CASE ~IsNull(b)
    BY <1>1, <1>3, EndedGood DEF Clean, IsNull
  <1> QED
    BY <1>2, <1>3

LEMMA ImportGood ==
  ASSUME NEW txt, Len(txt) \in Nat, NEW size \in Nat, size > Len(txt)
  PROVE  Good(Import(txt, size))
  <1>1. DOMAIN Put([i \in 1 .. size |-> Junk], 1, txt) = 1 .. size
    BY PutWithin
  <1>2. [size |-> size].size = size
    OBVIOUS
  <1> QED
    BY <1>1, <1>2, EndedGood DEF Import

LEMMA DupGood ==
  ASSUME NEW b, Good(b)
  PROVE  Good(Dup(b))
  BY DEF Good, InBounds, Dup, IsNull

-----------------------------------------------------------------------------
(* Adding.  A text to add is a sequence of octets, or the text of a buffer. *)

LEMMA AddGood ==
  ASSUME NEW b, Good(b), NEW txt, Len(txt) \in Nat, NEW ok
  PROVE  Good(Add(b, txt, ok).buf)
  <1>1. Good(AddAll(Room(b, Len(txt)), txt))
    BY RoomGood, AddAllGood
  <1> QED
    BY <1>1, AllocatedGood DEF Add, Returns

LEMMA AddBufferGood ==
  ASSUME NEW b, Good(b), NEW b2, Good(b2), NEW ok
  PROVE  Good(AddBuffer(b, b2, ok).buf)
  <1>1. Len(Text(b2)) \in Nat
    BY TextIsSeq DEF Good, InBounds
  <1> QED
    BY <1>1, AddGood DEF AddBuffer

LEMMA AddSliceGood ==
  ASSUME NEW b, Good(b), NEW b2, Good(b2), NEW begin \in Int \cup {None},
         NEW end \in Int \cup {None}, NEW ok
  PROVE  Good(AddSlice(b, b2, begin, end, ok).buf)
  <1> DEFINE len   == b2.len
             stop  == CASE end = None -> len
                        [] end # None -> IF end > 0 THEN end ELSE len + end
             start == CASE begin = None -> 0
                        [] begin # None -> IF begin >= len THEN len
                                           ELSE IF begin >= 0 THEN begin
                                           ELSE IF -begin < len THEN len + begin ELSE 0
             slice == SubSeq(Text(b2), start + 1, stop)
  <1>1. len \in Nat
    BY DEF Good, InBounds
  <1>2. stop \in Int /\ start \in Nat
    BY <1>1
  <1>3. ~(stop < 0 \/ stop > len \/ stop < start) => Len(slice) \in Nat
    <2> HIDE DEF stop, start
    <2> QED
      BY <1>1, <1>2, TextIsSeq, SliceLen
  <1>4. \/ AddSlice(b, b2, begin, end, ok) = Returns("ok", b)
        \/ /\ ~(stop < 0 \/ stop > len \/ stop < start)
           /\ AddSlice(b, b2, begin, end, ok) = Add(b, slice, ok)
    BY DEF AddSlice
  <1> HIDE DEF slice, stop, start
  <1> QED
    BY <1>3, <1>4, AddGood DEF Returns

LEMMA AddCharGood ==
  ASSUME NEW b, Good(b), NEW c, NEW ok
  PROVE  Good(AddChar(b, c, ok).buf)
  <1> DEFINE room == IF b.len + 1 < b.size THEN b ELSE IncBufsize(b, 1)
  <1>1. b.len \in Nat /\ b.size \in Nat /\ (b.len < b.size \/ b.len = 0)
    BY DEF Good, InBounds, IsNull
  <1>2. b.size + 1 + Extra + 1 \in Nat /\ b.len + 1 < b.size + 1 + Extra + 1
    BY <1>1, ExtraAssumption
  <1>3. HasRoom(room, 1)
    BY <1>1, <1>2, ResizedGood DEF IncBufsize, HasRoom
  <1>4. Len(<<c>>) = 1
    OBVIOUS
  <1>5. Good(AddAll(room, <<c>>))
    BY <1>3, <1>4, AddAllGood
  <1> QED
    BY <1>5, AllocatedGood DEF AddChar

LEMMA AddCharNGood ==
  ASSUME NEW b, Good(b), NEW c, NEW num \in Nat, NEW ok
  PROVE  Good(AddCharN(b, c, num, ok).buf)
  <1>1. Good(AddAll(Room(b, num), [i \in 1 .. num |-> c]))
    BY RoomGood, AddAllGood, RepeatedLen
  <1> QED
    BY <1>1, AllocatedGood DEF AddCharN, Returns

LEMMA PrependGood ==
  ASSUME NEW b, Good(b), NEW txt, Len(txt) \in Nat, NEW ok
  PROVE  Good(Prepend(b, txt, ok).buf)
  <1> DEFINE n    == Len(txt)
             room == Room(b, n)
             mem  == Put(Put(room.mem, n + 1, Text(b)), 1, txt)
  <1>1. b.len \in Nat /\ Len(Text(b)) = b.len
    BY TextIsSeq DEF Good, InBounds
  <1>2. Good(room) /\ room.len = b.len /\ b.len + n < room.size
    BY RoomGood DEF HasRoom
  <1> HIDE DEF room
  <1>3. DOMAIN room.mem = 1 .. room.size /\ room.size \in Nat
    BY <1>2 DEF Good, InBounds
  <1>4. DOMAIN Put(room.mem, n + 1, Text(b)) = 1 .. room.size
    BY <1>1, <1>2, <1>3, PutWithin
  <1>5. DOMAIN mem = 1 .. room.size
    BY <1>1, <1>2, <1>3, <1>4, PutWithin
  <1>6. b.len + n \in Nat
    BY <1>1
  <1> HIDE DEF mem
  <1>7. Good(Ended(room, mem, b.len + n))
    BY <1>2, <1>3, <1>5, <1>6, EndedGood
  <1> QED
    BY <1>7, AllocatedGood DEF Prepend, Returns, room, mem

LEMMA InsertGood ==
  ASSUME NEW b, Good(b), NEW txt, Len(txt) \in Nat, NEW pos \in Nat, NEW ok
  PROVE  Good(Insert(b, txt, pos, ok).buf)
  <1> DEFINE n    == Len(txt)
             room == WithSize(b, b.len + n + 1)
             posn == IF pos < b.len THEN pos ELSE b.len
             tail == SubSeq(Text(b), posn + 1, b.len)
             mem  == Put(Put(room.mem, posn + n + 1, tail), posn + 1, txt)
  <1>1. b.len \in Nat /\ posn \in Nat /\ posn <= b.len
    BY DEF Good, InBounds
  <1>2. Good(room) /\ room.len = b.len /\ b.len + n < room.size
    BY WithSizeRoom DEF HasRoom
  <1> HIDE DEF room, posn
  <1>3. Len(tail) = b.len - posn
    BY <1>1, TextIsSeq, SliceLen
  <1>4. DOMAIN room.mem = 1 .. room.size /\ room.size \in Nat
    BY <1>2 DEF Good, InBounds
  <1> HIDE DEF tail
  <1>5. DOMAIN Put(room.mem, posn + n + 1, tail) = 1 .. room.size
    BY <1>1, <1>2, <1>3, <1>4, PutWithin, SMTT(30)
  <1>6. DOMAIN mem = 1 .. room.size
    BY <1>1, <1>2, <1>4, <1>5, PutWithin
  <1>7. b.len + n \in Nat
    BY <1>1
  <1> HIDE DEF mem
  <1>8. Good(Ended(room, mem, b.len + n))
    BY <1>2, <1>4, <1>6, <1>7, EndedGood
  <1> QED
    BY <1>8, AllocatedGood DEF Insert, Returns, room, posn, tail, mem

LEMMA InsertBufferGood ==
  ASSUME NEW b, Good(b), NEW src, Good(src), NEW pos \in Nat, NEW ok
  PROVE  Good(InsertBuffer(b, src, pos, ok).buf)
  <1>1. Len(Text(src)) \in Nat
    BY TextIsSeq DEF Good, InBounds
  <1> QED
    BY <1>1, InsertGood DEF InsertBuffer

LEMMA AddDigitsGood ==
  ASSUME NEW b, Good(b), NEW digits, Len(digits) \in Nat, NEW ok
  PROVE  Good(AddDigits(b, digits, ok).buf)
  <1> DEFINE newlen == b.len + Len(digits)
             room   == IF newlen >= b.size THEN NewBufsize(b, newlen) ELSE b
  <1>1. b.len \in Nat /\ b.size \in Nat
    BY DEF Good, InBounds
  <1>2. newlen + Extra + 1 \in Nat /\ newlen < newlen + Extra + 1 /\ b.len < newlen + Extra + 1
    BY <1>1, ExtraAssumption, SMTT(30)
  <1>3. HasRoom(room, Len(digits))
    BY <1>1, <1>2, ResizedGood DEF NewBufsize, HasRoom
  <1>4. Good(AddAll(room, digits))
    BY <1>3, AddAllGood
  <1> QED
    BY <1>4, AllocatedGood DEF AddDigits

LEMMA MultiplyGood ==
  ASSUME NEW b, Good(b), NEW num \in Nat, NEW ok
  PROVE  Good(Multiply(b, num, ok).buf)
  <1> DEFINE size   == b.len * num
             more   == b.len * (num - 1)
             room   == WithSize(b, size + 1)
             grown  == Room(room, more)
             copies == [i \in 1 .. more |->
                          IF grown.size = room.size THEN b.mem[((i - 1) % b.len) + 1] ELSE Junk]
  <1>1. b.len \in Nat /\ b.size \in Nat
    BY DEF Good, InBounds
  <1>2. size \in Nat /\ (num > 1 => more \in Nat /\ b.len + more = size)
    BY <1>1, TimesNat
  <1>3. num \in {0, 1} => size \in {0, b.len}
    BY <1>1
  <1> HIDE DEF size, more
  <1>4. Good(room) /\ (num > 1 => room.len = b.len)
    <2>1. size + 1 \in Nat
      BY <1>2
    <2>2. size + 1 > b.size => b.len < size + 1
      BY <1>1, <1>2 DEF Good, InBounds, IsNull
    <2>3. CASE size + 1 <= b.size
      BY <2>3 DEF WithSize
    <2>4. CASE ~(size + 1 <= b.size)
      BY <1>1, <2>1, <2>2, <2>4, ResizedGood DEF WithSize
    <2> QED
      BY <2>3, <2>4
  <1> HIDE DEF room
  <1>5. num > 1 => Good(AddAll(grown, copies))
    <2> SUFFICES ASSUME num > 1
                 PROVE  Good(AddAll(grown, copies))
      OBVIOUS
    <2>1. HasRoom(grown, more)
      BY <1>2, <1>4, RoomGood
    <2> HIDE DEF grown
    <2>2. Len(copies) = more
      BY <1>2
    <2> HIDE DEF copies
    <2> QED
      BY <1>2, <2>1, <2>2, AddAllGood
  <1> DEFINE done == IF num <= 1 \/ b.len = 0 THEN room ELSE AddAll(grown, copies)
  <1>6. Good(done)
    BY <1>4, <1>5
  <1>7. Multiply(b, num, ok) = Allocated(b, room, ok, done)
    BY DEF Multiply, size, more, room
  <1> HIDE DEF done
  <1> QED
    BY <1>6, <1>7, AllocatedGood

LEMMA PrintedGood ==
  ASSUME NEW b, Good(b), b.len < b.size, NEW txt \in Seq(Octets)
  PROVE  Good(Printed(b, txt)) /\ Printed(b, txt).size = b.size
         /\ (Len(txt) >= b.size - b.len => Printed(b, txt).len = b.len)
  <1> DEFINE free == b.size - b.len
             cut  == Append(SubSeq(txt, 1, free - 1), Nul)
  <1>1. b.len \in Nat /\ b.size \in Nat /\ free \in Nat \ {0} /\ DOMAIN b.mem = 1 .. b.size
    BY DEF Good, InBounds
  <1>2. Len(txt) \in Nat
    OBVIOUS
  <1>3. CASE Len(txt) < free
    <2>1. HasRoom(b, Len(txt))
      BY <1>1, <1>2, <1>3 DEF HasRoom
    <2>2. Printed(b, txt) = AddAll(b, txt)
      BY <1>3 DEF Printed
    <2>3. Good(AddAll(b, txt))
      BY <1>2, <2>1, AddAllGood
    <2>4. AddAll(b, txt).size = b.size
      BY DEF AddAll, Ended
    <2> QED
      BY <1>1, <1>2, <1>3, <2>2, <2>3, <2>4
  <1>4. CASE ~(Len(txt) < free)
    <2>1. 0 <= free - 1 /\ free - 1 <= Len(txt) /\ free - 1 \in Nat
      BY <1>1, <1>2, <1>4
    <2>2. SubSeq(txt, 1, free - 1) \in Seq(Octets) /\ Len(SubSeq(txt, 1, free - 1)) = free - 1
      BY <2>1
    <2>3. Len(cut) = free
      BY <1>1, <2>2, TextsAssumption
    <2> HIDE DEF cut
    <2>4. DOMAIN Put(b.mem, b.len + 1, cut) = 1 .. b.size
      BY <1>1, <2>3, PutWithin
    <2>5. Printed(b, txt) = [b EXCEPT !.mem = Put(b.mem, b.len + 1, cut)]
      BY <1>4 DEF Printed, cut
    <2>6. b = [mem |-> b.mem, len |-> b.len, size |-> b.size]
      BY DEF Good
    <2>7. Printed(b, txt) = [mem |-> Put(b.mem, b.len + 1, cut), len |-> b.len, size |-> b.size]
      BY <2>5, <2>6
    <2> QED
      BY <1>1, <2>4, <2>7 DEF Good, InBounds, IsNull
  <1> QED
    BY <1>3, <1>4

LEMMA AddVaFixedGood ==
  ASSUME NEW b, Good(b), NEW txt \in Seq(Octets)
  PROVE  Good(AddVaFixed(b, txt).buf)
  <1>1. b.len \in Nat /\ b.size \in Nat
    BY DEF Good, InBounds
  <1> QED
    BY <1>1, PrintedGood DEF AddVaFixed, Returns

LEMMA OneAndOne ==
  ASSUME NEW x \in Nat, NEW n \in Nat
  PROVE  x + (n + 1) + 1 = x + n + 2
  OBVIOUS

LEMMA AddVaListGood ==
  ASSUME NEW b, Good(b), NEW txt \in Seq(Octets), NEW again \in Seq(Octets),
         NEW estimation \in Nat, NEW ok, NEW okAgain
  PROVE  Good(AddVaList(b, txt, estimation, again, ok, okAgain).buf)
  <1> DEFINE room  == WithSize(b, b.len + estimation + 2)
             first == Printed(room, txt)
             more  == WithSize(first, b.len + Len(txt) + 2)
  <1>1. b.len \in Nat /\ Len(txt) \in Nat
    BY DEF Good, InBounds
  <1>2. b.len + (estimation + 1) + 1 = b.len + estimation + 2
    BY <1>1, OneAndOne
  <1>3. HasRoom(room, estimation + 1) /\ room.len = b.len
    BY <1>2, WithSizeRoom
  <1>4. Good(room) /\ room.len < room.size /\ room.size \in Nat
    BY <1>1, <1>3 DEF HasRoom, Good, InBounds
  <1> HIDE DEF room
  <1>5. Good(first) /\ (Len(txt) >= room.size - room.len => first.len = b.len)
    BY <1>3, <1>4, PrintedGood
  <1>6. Len(txt) >= room.size - room.len => Good(Printed(more, again))
    <2> SUFFICES ASSUME Len(txt) >= room.size - room.len
                 PROVE  Good(Printed(more, again))
      OBVIOUS
    <2>1. first.len = b.len
      BY <1>5
    <2> HIDE DEF first
    <2>2. first.len + (Len(txt) + 1) + 1 = b.len + Len(txt) + 2 /\ Len(txt) + 1 \in Nat
      <3>1. b.len + (Len(txt) + 1) + 1 = b.len + Len(txt) + 2
        BY ONLY <1>1, OneAndOne
      <3>2. Len(txt) + 1 \in Nat
        BY ONLY <1>1
      <3> HIDE DEF first
      <3> QED
        BY ONLY <2>1, <3>1, <3>2
    <2>3. HasRoom(more, Len(txt) + 1) /\ more.len = b.len
      BY <1>5, <2>1, <2>2, WithSizeRoom
    <2>4. Good(more) /\ more.len < more.size
      BY <1>1, <2>3 DEF HasRoom, Good, InBounds
    <2> HIDE DEF more
    <2> QED
      BY <2>4, PrintedGood
  <1>7. room.len \in Nat
    BY <1>1, <1>3
  <1>8. AddVaList(b, txt, estimation, again, ok, okAgain).buf
          \in {b, first} \cup (IF Len(txt) < room.size - room.len THEN {} ELSE {Printed(more, again)})
    BY DEF AddVaList, Returns, room
  <1> HIDE DEF first, more
  <1> QED
    BY <1>1, <1>4, <1>5, <1>6, <1>7, <1>8

-----------------------------------------------------------------------------
(* Removing and reading *)

LEMMA MovedGood ==
  ASSUME NEW b, Good(b), ~IsNull(b), NEW from, NEW to, NEW len \in 0 .. b.len
  PROVE  Good(Moved(b, from, to, len))
  <1> DEFINE m == Moved(b, from, to, len)
  <1>1. DOMAIN m.mem = DOMAIN b.mem /\ m.len = len /\ m.size = b.size
    BY DEF Moved
  <1>2. m = [mem |-> m.mem, len |-> m.len, size |-> m.size]
    BY DEF Moved
  <1> HIDE DEF m
  <1>3. Good(m)
    BY <1>1, <1>2 DEF Good, InBounds, IsNull
  <1> QED
    BY <1>3 DEF m

LEMMA MoveToBeginGood ==
  ASSUME NEW b, Good(b), NEW pos \in Nat
  PROVE  Good(MoveToBegin(b, pos))
  <1>1. b.len \in Nat /\ (IsNull(b) => b.len = 0)
    BY DEF Good, InBounds
  <1>2. CASE pos = 0
    BY <1>2 DEF MoveToBegin
  <1>3. CASE pos > 0 /\ pos >= b.len
    BY <1>3, CleanGood DEF MoveToBegin
  <1>4. CASE pos > 0 /\ pos < b.len
    <2>1. b.len - pos \in 0 .. b.len /\ ~IsNull(b)
      BY <1>1, <1>4
    <2>2. MoveToBegin(b, pos) = Moved(b, 0, pos, b.len - pos)
      BY <1>1, <1>4 DEF MoveToBegin
    <2> QED
      BY <2>1, <2>2, MovedGood
  <1> QED
    BY <1>1, <1>2, <1>3, <1>4

LEMMA DropEndingGood ==
  ASSUME NEW b, Good(b), NEW num \in Nat
  PROVE  Good(DropEnding(b, num))
  <1> DEFINE len == b.len - (IF num < b.len THEN num ELSE b.len)
  <1>1. b.len \in Nat /\ b.size \in Nat /\ DOMAIN b.mem = 1 .. b.size
        /\ (~IsNull(b) => b.len < b.size)
    BY DEF Good, InBounds
  <1>2. len \in Nat /\ len <= b.len
    BY <1>1
  <1> HIDE DEF len
  <1>3. ~IsNull(b) => Good(Ended(b, b.mem, len))
    BY <1>1, <1>2, EndedGood
  <1> QED
    BY <1>3 DEF DropEnding, len

LEMMA RemoveChunkGood ==
  ASSUME NEW b, Good(b), NEW from \in Nat, NEW len \in Nat, Chunk(b, from, len)
  PROVE  Good(RemoveChunk(b, from, len))
  <1> DEFINE end == IF from + len < b.len THEN from + len ELSE b.len
  <1>1. b.len \in Nat /\ (IsNull(b) => b.len = 0)
    BY DEF Good, InBounds
  <1>2. CASE from >= b.len
    BY <1>1, <1>2 DEF RemoveChunk
  <1>3. CASE from = 0 /\ from < b.len /\ len >= b.len
    BY <1>1, <1>3, CleanGood DEF RemoveChunk
  <1>4. CASE from < b.len /\ ~(from = 0 /\ len >= b.len)
    <2>1. b.len - len \in Nat /\ ~IsNull(b)
      BY <1>1, <1>4 DEF Chunk
    <2>2. (b.len - len) % Word \in 0 .. b.len - len
      BY <2>1, WordAssumption, ModAtMost
    <2>3. (b.len - len) % Word \in 0 .. b.len
      BY <1>1, <2>1, <2>2
    <2>4. RemoveChunk(b, from, len) = Moved(b, from, end, (b.len - len) % Word)
      BY <1>1, <1>4 DEF RemoveChunk
    <2> HIDE DEF end
    <2> QED
      BY <2>1, <2>3, <2>4, MovedGood
  <1> QED
    BY <1>1, <1>2, <1>3, <1>4

LEMMA ReadFileGood ==
  ASSUME NEW b, Good(b), NEW size \in Nat, NEW txt, Len(txt) \in 0 .. size, NEW fails, NEW ok
  PROVE  Good(ReadFile(b, txt, size, fails, ok).buf)
  <1> DEFINE room == WithSize(b, b.len + size + 1)
  <1>1. HasRoom(room, size) /\ b.len \in Nat
    BY WithSizeRoom DEF Good, InBounds
  <1> HIDE DEF room
  <1>2. HasRoom(room, Len(txt)) /\ HasRoom(room, 0)
    BY <1>1 DEF HasRoom, Good, InBounds
  <1>3. Len(<<>>) = 0
    OBVIOUS
  <1>4. Good(AddAll(room, txt)) /\ Good(AddAll(room, <<>>))
    BY <1>2, <1>3, AddAllGood
  <1> QED
    BY <1>4, AllocatedGood DEF ReadFile, Returns, room

LEMMA ReadFromFdGood ==
  ASSUME NEW b, Good(b), NEW size \in Nat, NEW txt, Len(txt) \in 0 .. size, NEW ok
  PROVE  Good(ReadFromFd(b, txt, size, ok).buf)
  <1> DEFINE room == EnsureAddlen(b, size, ok)
  <1>1. Good(room.buf) /\ (room.ret = "ok" => HasRoom(room.buf, size))
    BY EnsureAddlenGood
  <1> HIDE DEF room
  <1>2. room.ret = "ok" => HasRoom(room.buf, Len(txt))
    BY <1>1 DEF HasRoom, Good, InBounds
  <1>3. room.ret = "ok" => Good(AddAll(room.buf, txt))
    BY <1>2, AddAllGood
  <1> QED
    BY <1>1, <1>3 DEF ReadFromFd, Returns, room

-----------------------------------------------------------------------------
(* The client *)

BothGood == Good(buf) /\ Good(other)

LEMMA TextsAreSeqs ==
  ASSUME NEW txt \in Texts
  PROVE  txt \in Seq(Octets) /\ Len(txt) \in Nat
  <1>1. txt \in Seq(Octets)
    BY TextsAssumption
  <1> QED
    BY <1>1

LEMMA NumbersAreNat == Numbers \subseteq Nat
  BY TextsAssumption DEF Numbers

LEMMA InitGood == ClientInit => BothGood
  BY EmptyGood DEF ClientInit, BothGood

LEMMA TextStepGood ==
  ASSUME BothGood, NEW txt \in Texts, NEW n \in Numbers, NEW ok,
         \/ Chars(txt, n, ok) \/ PutBefore(txt, n, ok)
         \/ \E fails \in BOOLEAN : Read(txt, n, fails, ok)
  PROVE  BothGood'
  <1>1. n \in Nat /\ Len(txt) \in Nat /\ Good(buf) /\ Good(other)
    BY TextsAreSeqs, NumbersAreNat DEF BothGood
  <1>2. CASE Chars(txt, n, ok)
    BY <1>1, <1>2, AddCharGood, AddCharNGood DEF Chars, Becomes, BothGood
  <1>3. CASE PutBefore(txt, n, ok)
    BY <1>1, <1>3, InsertGood, PrependGood DEF PutBefore, Becomes, BothGood
  <1>4. ASSUME NEW fails \in BOOLEAN, Read(txt, n, fails, ok)
        PROVE  BothGood'
    <2> DEFINE some == IF fails THEN <<>> ELSE txt
    <2>1. Len(txt) \in 0 .. n /\ Len(some) \in 0 .. n
      <3>1. Len(txt) <= n /\ Len(<<>>) = 0
        BY <1>4 DEF Read
      <3> QED
        BY <1>1, <3>1
    <2>2. \/ buf' = ReadFile(buf, txt, n, fails, ok).buf
          \/ buf' = ReadFromFd(buf, some, n, ok).buf
      BY <1>4 DEF Read, Becomes
    <2>3. UNCHANGED other
      BY <1>4 DEF Read, Becomes
    <2> HIDE DEF some
    <2> QED
      BY <1>1, <2>1, <2>2, <2>3, ReadFileGood, ReadFromFdGood DEF BothGood
  <1> QED
    BY <1>2, <1>3, <1>4

LEMMA PrintStepGood ==
  ASSUME BothGood, NEW txt \in Texts,
         \/ VaFixed(txt)
         \/ \E again \in Texts, n \in {0, MaxLen}, ok, okAgain \in BOOLEAN :
              Va(txt, n, again, ok, okAgain)
  PROVE  BothGood'
  <1>1. txt \in Seq(Octets) /\ Good(buf) /\ Good(other)
    BY TextsAreSeqs DEF BothGood
  <1>2. CASE VaFixed(txt)
    BY <1>1, <1>2, AddVaFixedGood DEF VaFixed, Becomes, BothGood
  <1>3. ASSUME NEW again \in Texts, NEW n \in {0, MaxLen}, NEW ok \in BOOLEAN,
               NEW okAgain \in BOOLEAN, Va(txt, n, again, ok, okAgain)
        PROVE  BothGood'
    <2>1. again \in Seq(Octets) /\ n \in Nat
      BY TextsAreSeqs, TextsAssumption
    <2> QED
      BY <1>1, <1>3, <2>1, AddVaListGood DEF Va, Becomes, BothGood
  <1> QED
    BY <1>2, <1>3

LEMMA GrowStepGood ==
  ASSUME BothGood, NEW ok,
         \/ \E txt \in Texts : AddText(txt, ok) \/ Digits(txt, ok)
         \/ \E n \in Numbers : InsertOther(n, ok) \/ Times(n, ok) \/ Reserve(n, ok)
         \/ \E begin, end \in Offsets : SliceOther(begin, end, ok)
         \/ AddOther(ok) \/ Shrink(ok)
  PROVE  BothGood'
  <1>1. Good(buf) /\ Good(other)
    BY DEF BothGood
  <1>2. ASSUME NEW txt \in Texts, AddText(txt, ok) \/ Digits(txt, ok)
        PROVE  BothGood'
    <2>1. Len(txt) \in Nat
      BY TextsAreSeqs
    <2> QED
      BY <1>1, <1>2, <2>1, AddGood, AddDigitsGood DEF AddText, Digits, Becomes, BothGood
  <1>3. ASSUME NEW n \in Numbers, InsertOther(n, ok) \/ Times(n, ok) \/ Reserve(n, ok)
        PROVE  BothGood'
    <2>1. n \in Nat
      BY NumbersAreNat
    <2>2. CASE InsertOther(n, ok)
      BY <1>1, <2>1, <2>2, InsertBufferGood DEF InsertOther, Becomes, BothGood
    <2>3. CASE Times(n, ok)
      BY <1>1, <2>1, <2>3, MultiplyGood DEF Times, Becomes, BothGood
    <2>4. CASE Reserve(n, ok)
      BY <1>1, <2>1, <2>4, EnsureSizeGood, EnsureAddlenGood DEF Reserve, Becomes, BothGood
    <2> QED
      BY <1>3, <2>2, <2>3, <2>4
  <1>4. ASSUME NEW begin \in Offsets, NEW end \in Offsets, SliceOther(begin, end, ok)
        PROVE  BothGood'
    <2>1. begin \in Int \cup {None} /\ end \in Int \cup {None}
      BY TextsAssumption DEF Offsets
    <2> QED
      BY <1>1, <1>4, <2>1, AddSliceGood DEF SliceOther, Becomes, BothGood
  <1>5. CASE AddOther(ok)
    BY <1>1, <1>5, AddBufferGood DEF AddOther, Becomes, BothGood
  <1>6. CASE Shrink(ok)
    BY <1>1, <1>6, RetractGood DEF Shrink, Becomes, BothGood
  <1> QED
    BY <1>2, <1>3, <1>4, <1>5, <1>6

LEMMA OtherStepGood ==
  ASSUME BothGood,
         \/ \E from, len \in 0 .. MaxLen + 1 : Remove(from, len)
         \/ \E txt \in Texts, n \in 0 .. MaxLen + 2 : Reset(txt, n)
         \/ Copy \/ Swap
  PROVE  BothGood'
  <1>1. Good(buf) /\ Good(other)
    BY DEF BothGood
  <1>2. ASSUME NEW from \in 0 .. MaxLen + 1, NEW len \in 0 .. MaxLen + 1, Remove(from, len)
        PROVE  BothGood'
    <2>1. from \in Nat /\ len \in Nat
      OBVIOUS
    <2> QED
      BY <1>1, <1>2, <2>1, RemoveChunkGood, MoveToBeginGood, DropEndingGood
         DEF Remove, Change, BothGood
  <1>3. ASSUME NEW txt \in Texts, NEW n \in 0 .. MaxLen + 2, Reset(txt, n)
        PROVE  BothGood'
    <2>1. Len(txt) \in Nat /\ n \in Nat
      BY TextsAreSeqs
    <2> QED
      BY <1>1, <1>3, <2>1, CleanGood, EmptyGood, ImportGood DEF Reset, Change, BothGood
  <1>4. CASE Copy
    BY <1>1, <1>4, DupGood DEF Copy, BothGood
  <1>5. CASE Swap
    BY <1>1, <1>5 DEF Swap, BothGood
  <1> QED
    BY <1>2, <1>3, <1>4, <1>5

LEMMA StepGood == BothGood /\ [ClientNext]_bvars => BothGood'
  <1> SUFFICES ASSUME BothGood, [ClientNext]_bvars
               PROVE  BothGood'
    OBVIOUS
  <1>1. CASE UNCHANGED bvars
    BY <1>1 DEF bvars, BothGood
  <1>2. CASE ClientNext
    BY <1>2, TextStepGood, PrintStepGood, GrowStepGood, OtherStepGood DEF ClientNext
  <1> QED
    BY <1>1, <1>2

\* No sequence of calls on buffers, whichever of them find no memory, writes
\* a cell outside an allocation or leaves no cell for the Nul behind the text.
THEOREM NeverOutOfBounds == ClientSpec => []MemoryOK
  <1>1. BothGood => MemoryOK
    BY DEF BothGood, Good, MemoryOK
  <1> QED
    BY <1>1, InitGood, StepGood, PTL DEF ClientSpec

-----------------------------------------------------------------------------
(* The end of the text, and how long it gets *)

\* r ends where b did, and is no longer than b or than most.
Ends(b, r, most) ==
  /\ Terminated(b) => Terminated(r)
  /\ r.len <= b.len \/ r.len <= most

LEMMA EndedEnds ==
  ASSUME NEW b, NEW mem, NEW len \in Nat
  PROVE  Terminated(Ended(b, mem, len)) /\ Ended(b, mem, len).len = len
  BY DEF Ended, Terminated

LEMMA SameEnds ==
  ASSUME NEW b, Good(b), NEW most
  PROVE  Ends(b, b, most)
  BY DEF Ends, Good, InBounds

LEMMA EmptyEnds ==
  ASSUME NEW b, Good(b), NEW most
  PROVE  Ends(b, Empty, most)
  BY DEF Ends, Good, InBounds, Empty, Terminated

LEMMA EndedKeeps ==
  ASSUME NEW b, NEW room, NEW mem, NEW len \in Nat, NEW most, len <= most \/ len <= b.len
  PROVE  Ends(b, Ended(room, mem, len), most)
  BY EndedEnds DEF Ends

LEMMA ResizedEnds ==
  ASSUME NEW b, Good(b), NEW size \in Nat, b.len < size, NEW most
  PROVE  Ends(b, Resized(b, size), most)
  <1>1. b.len \in Nat /\ b.size \in Nat /\ DOMAIN b.mem = 1 .. b.size
        /\ (b.len > 0 => b.len < b.size)
    BY DEF Good, InBounds, IsNull
  <1>2. Resized(b, size).len = b.len
    BY DEF Resized
  <1>3. ASSUME b.len > 0 PROVE Resized(b, size).mem[b.len + 1] = b.mem[b.len + 1]
    <2>1. b.len + 1 \in 1 .. size /\ b.len + 1 \in 1 .. b.size
      BY <1>1, <1>3
    <2> QED
      BY <1>1, <2>1 DEF Resized
  <1> QED
    BY <1>1, <1>2, <1>3 DEF Ends, Terminated

LEMMA WithSizeEnds ==
  ASSUME NEW b, Good(b), NEW size \in Nat, NEW most
  PROVE  Ends(b, WithSize(b, size), most) /\ WithSize(b, size).len = b.len
  <1>1. b.size \in Nat /\ b.len \in Nat /\ (size > b.size => b.len < size)
    BY DEF Good, InBounds, IsNull
  <1>2. CASE size <= b.size
    BY <1>2, SameEnds DEF WithSize
  <1>3. CASE ~(size <= b.size)
    BY <1>1, <1>3, ResizedEnds, ResizedGood DEF WithSize
  <1> QED
    BY <1>2, <1>3

LEMMA AllocatedEnds ==
  ASSUME NEW b, Good(b), NEW resized, NEW ok, NEW done, NEW most, Ends(b, done, most)
  PROVE  Ends(b, Allocated(b, resized, ok, done).buf, most)
  BY SameEnds DEF Allocated, Returns

LEMMA AddAllEnds ==
  ASSUME NEW b, NEW room, room.len = b.len, b.len \in Nat, NEW txt, Len(txt) \in Nat
  PROVE  Ends(b, AddAll(room, txt), b.len + Len(txt))
  <1> DEFINE n == b.len + Len(txt)
  <1>1. n \in Nat /\ n <= n /\ AddAll(room, txt) = Ended(room, Put(room.mem, room.len + 1, txt), n)
    BY DEF AddAll
  <1> HIDE DEF n
  <1>2. Ends(b, AddAll(room, txt), n)
    BY <1>1, EndedKeeps
  <1> QED
    BY <1>2 DEF n

LEMMA AddEnds ==
  ASSUME NEW b, Good(b), NEW txt, Len(txt) \in Nat, NEW ok
  PROVE  Ends(b, Add(b, txt, ok).buf, b.len + Len(txt))
  <1>1. Room(b, Len(txt)).len = b.len /\ b.len \in Nat
    BY RoomGood DEF Good, InBounds
  <1>2. Ends(b, AddAll(Room(b, Len(txt)), txt), b.len + Len(txt))
    BY <1>1, AddAllEnds
  <1> QED
    BY <1>2, SameEnds, AllocatedEnds DEF Add, Returns

LEMMA AddBufferEnds ==
  ASSUME NEW b, Good(b), NEW b2, Good(b2), NEW ok
  PROVE  Ends(b, AddBuffer(b, b2, ok).buf, b.len + b2.len)
  <1>1. Len(Text(b2)) = b2.len /\ b2.len \in Nat
    BY TextIsSeq DEF Good, InBounds
  <1> QED
    BY <1>1, AddEnds DEF AddBuffer

LEMMA EndsMore ==
  ASSUME NEW b, NEW r, NEW few \in Nat, NEW most \in Nat, few <= most, Ends(b, r, few),
         Good(r)
  PROVE  Ends(b, r, most)
  BY DEF Ends, Good, InBounds

LEMMA AddSliceEnds ==
  ASSUME NEW b, Good(b), NEW b2, Good(b2), NEW begin \in Int \cup {None},
         NEW end \in Int \cup {None}, NEW ok
  PROVE  Ends(b, AddSlice(b, b2, begin, end, ok).buf, b.len + b2.len)
  <1> DEFINE len   == b2.len
             stop  == CASE end = None -> len
                        [] end # None -> IF end > 0 THEN end ELSE len + end
             start == CASE begin = None -> 0
                        [] begin # None -> IF begin >= len THEN len
                                           ELSE IF begin >= 0 THEN begin
                                           ELSE IF -begin < len THEN len + begin ELSE 0
             slice == SubSeq(Text(b2), start + 1, stop)
  <1>1. len \in Nat /\ b.len \in Nat
    BY DEF Good, InBounds
  <1>2. stop \in Int /\ start \in Nat
    BY <1>1
  <1>3. ~(stop < 0 \/ stop > len \/ stop < start) => Len(slice) \in Nat /\ Len(slice) <= len
    <2> HIDE DEF stop, start
    <2> QED
      BY <1>1, <1>2, TextIsSeq, SliceLen
  <1>4. \/ AddSlice(b, b2, begin, end, ok) = Returns("ok", b)
        \/ /\ ~(stop < 0 \/ stop > len \/ stop < start)
           /\ AddSlice(b, b2, begin, end, ok) = Add(b, slice, ok)
    BY DEF AddSlice
  <1> HIDE DEF slice, stop, start
  <1>5. ASSUME Len(slice) \in Nat, Len(slice) <= len
        PROVE  Ends(b, Add(b, slice, ok).buf, b.len + len)
    <2>1. b.len + Len(slice) \in Nat /\ b.len + len \in Nat /\ b.len + Len(slice) <= b.len + len
      BY <1>1, <1>5
    <2> HIDE DEF len
    <2> QED
      BY <1>5, <2>1, AddEnds, AddGood, EndsMore
  <1> QED
    BY <1>3, <1>4, <1>5, SameEnds DEF Returns

LEMMA AddCharEnds ==
  ASSUME NEW b, Good(b), NEW c, NEW ok
  PROVE  Ends(b, AddChar(b, c, ok).buf, b.len + 1)
  <1> DEFINE room == IF b.len + 1 < b.size THEN b ELSE IncBufsize(b, 1)
  <1>1. b.len \in Nat /\ room.len = b.len /\ Len(<<c>>) = 1
    BY DEF Good, InBounds, IncBufsize, Resized
  <1>2. Ends(b, AddAll(room, <<c>>), b.len + 1)
    BY <1>1, AddAllEnds
  <1> QED
    BY <1>2, AllocatedEnds DEF AddChar

LEMMA AddCharNEnds ==
  ASSUME NEW b, Good(b), NEW c, NEW num \in Nat, NEW ok
  PROVE  Ends(b, AddCharN(b, c, num, ok).buf, b.len + num)
  <1>1. b.len \in Nat /\ Room(b, num).len = b.len /\ Len([i \in 1 .. num |-> c]) = num
    BY RoomGood, RepeatedLen DEF Good, InBounds
  <1>2. Ends(b, AddAll(Room(b, num), [i \in 1 .. num |-> c]), b.len + num)
    BY <1>1, AddAllEnds
  <1> QED
    BY <1>2, SameEnds, AllocatedEnds DEF AddCharN, Returns

LEMMA PrependEnds ==
  ASSUME NEW b, Good(b), NEW txt, Len(txt) \in Nat, NEW ok
  PROVE  Ends(b, Prepend(b, txt, ok).buf, b.len + Len(txt))
  <1> DEFINE n == b.len + Len(txt)
  <1>1. n \in Nat /\ n <= n
    BY DEF Good, InBounds
  <1>2. \A room, mem : Ends(b, Ended(room, mem, n), n)
    BY <1>1, EndedKeeps
  <1> QED
    BY <1>2, SameEnds, AllocatedEnds DEF Prepend, Returns

LEMMA InsertEnds ==
  ASSUME NEW b, Good(b), NEW txt, Len(txt) \in Nat, NEW pos, NEW ok
  PROVE  Ends(b, Insert(b, txt, pos, ok).buf, b.len + Len(txt))
  <1> DEFINE n == b.len + Len(txt)
  <1>1. n \in Nat /\ n <= n
    BY DEF Good, InBounds
  <1>2. \A room, mem : Ends(b, Ended(room, mem, n), n)
    BY <1>1, EndedKeeps
  <1> QED
    BY <1>2, SameEnds, AllocatedEnds DEF Insert, Returns

LEMMA InsertBufferEnds ==
  ASSUME NEW b, Good(b), NEW src, Good(src), NEW pos, NEW ok
  PROVE  Ends(b, InsertBuffer(b, src, pos, ok).buf, b.len + src.len)
  <1>1. Len(Text(src)) = src.len /\ src.len \in Nat
    BY TextIsSeq DEF Good, InBounds
  <1> QED
    BY <1>1, InsertEnds DEF InsertBuffer

LEMMA AddDigitsEnds ==
  ASSUME NEW b, Good(b), NEW digits, Len(digits) \in Nat, NEW ok
  PROVE  Ends(b, AddDigits(b, digits, ok).buf, b.len + Len(digits))
  <1> DEFINE newlen == b.len + Len(digits)
             room   == IF newlen >= b.size THEN NewBufsize(b, newlen) ELSE b
  <1>1. b.len \in Nat /\ room.len = b.len
    BY DEF Good, InBounds, NewBufsize, Resized
  <1>2. Ends(b, AddAll(room, digits), newlen)
    BY <1>1, AddAllEnds
  <1> QED
    BY <1>2, AllocatedEnds DEF AddDigits

LEMMA MultiplyEnds ==
  ASSUME NEW b, Good(b), NEW num \in Nat, NEW ok
  PROVE  Ends(b, Multiply(b, num, ok).buf, b.len * num)
  <1> DEFINE size   == b.len * num
             more   == b.len * (num - 1)
             room   == WithSize(b, size + 1)
             grown  == Room(room, more)
             copies == [i \in 1 .. more |->
                          IF grown.size = room.size THEN b.mem[((i - 1) % b.len) + 1] ELSE Junk]
             done   == IF num <= 1 \/ b.len = 0 THEN room ELSE AddAll(grown, copies)
  <1>1. b.len \in Nat /\ size \in Nat /\ (num > 1 => more \in Nat /\ b.len + more = size)
    BY TimesNat DEF Good, InBounds
  <1>2. Multiply(b, num, ok) = Allocated(b, room, ok, done)
    BY DEF Multiply
  <1> HIDE DEF size, more
  <1>3. Ends(b, room, size) /\ room.len = b.len
    <2>1. size + 1 \in Nat
      BY <1>1
    <2> HIDE DEF room
    <2> QED
      BY <2>1, WithSizeEnds DEF room
  <1>4. Ends(b, done, size)
    <2>1. CASE num <= 1 \/ b.len = 0
      BY <1>3, <2>1
    <2>2. CASE ~(num <= 1 \/ b.len = 0)
      <3>1. num > 1 /\ more \in Nat /\ b.len + more = size
        BY <1>1, <2>2
      <3>2. grown.len = b.len
        BY <1>3 DEF Room, IncBufsize, Resized
      <3>3. Len(copies) = more
        BY <3>1
      <3> HIDE DEF grown, copies
      <3>4. Ends(b, AddAll(grown, copies), size)
        BY <1>1, <3>1, <3>2, <3>3, AddAllEnds
      <3> QED
        BY <2>2, <3>4
    <2> QED
      BY <2>1, <2>2
  <1> HIDE DEF done, room
  <1>5. Ends(b, Allocated(b, room, ok, done).buf, size)
    BY <1>4, AllocatedEnds
  <1> QED
    BY <1>2, <1>5 DEF size

LEMMA EnsureSizeEnds ==
  ASSUME NEW b, Good(b), NEW n \in Nat, NEW ok, NEW most
  PROVE  /\ Ends(b, EnsureSize(b, n, ok).buf, most)
         /\ EnsureSize(b, n, ok).buf.len = b.len
  <1>1. Ends(b, WithSize(b, n), most) /\ WithSize(b, n).len = b.len
    BY WithSizeEnds
  <1> QED
    BY <1>1, AllocatedEnds DEF EnsureSize, Allocated, Returns

LEMMA EnsureAddlenEnds ==
  ASSUME NEW b, Good(b), NEW n \in Nat, NEW ok, NEW most
  PROVE  /\ Ends(b, EnsureAddlen(b, n, ok).buf, most)
         /\ EnsureAddlen(b, n, ok).buf.len = b.len
  <1>1. b.len + n + 1 \in Nat
    BY DEF Good, InBounds
  <1> QED
    BY <1>1, SameEnds, EnsureSizeEnds DEF EnsureAddlen, Returns

LEMMA RetractEnds ==
  ASSUME NEW b, Good(b), NEW ok, NEW most
  PROVE  Ends(b, Retract(b, ok).buf, most)
  <1>1. b.len + 1 \in Nat /\ b.len < b.len + 1
    BY DEF Good, InBounds
  <1>2. Ends(b, Resized(b, b.len + 1), most)
    BY <1>1, ResizedEnds
  <1> QED
    BY <1>2, SameEnds, AllocatedEnds DEF Retract, Returns

LEMMA CleanEnds ==
  ASSUME NEW b, Good(b), NEW most
  PROVE  Ends(b, Clean(b), most)
  <1>1. b.len \in Nat
    BY DEF Good, InBounds
  <1>2. CASE IsNull(b)
    <2>1. b = [mem |-> b.mem, len |-> b.len, size |-> b.size]
      BY DEF Good
    <2>2. Clean(b) = [mem |-> b.mem, len |-> 0, size |-> b.size]
      BY <1>2, <2>1 DEF Clean
    <2> QED
      BY <1>1, <2>2 DEF Ends, Terminated
  <1>3. CASE ~IsNull(b)
    <2>1. 0 \in Nat /\ 0 <= b.len
      BY <1>1
    <2>2. Ends(b, Ended(b, b.mem, 0), most)
      BY <2>1, EndedKeeps
    <2> QED
      BY <1>3, <2>2 DEF Clean
  <1> QED
    BY <1>2, <1>3

LEMMA DupEnds ==
  ASSUME NEW b, Good(b)
  PROVE  Terminated(b) => Terminated(Dup(b))
  <1>1. b.len \in Nat
    BY DEF Good, InBounds
  <1> QED
    BY <1>1 DEF Dup, Terminated

\* A print that fits ends its text; one that does not leaves the length alone.
LEMMA PrintedEnds ==
  ASSUME NEW b, Good(b), NEW room, Good(room), room.len = b.len, NEW txt, Len(txt) \in Nat
  PROVE  /\ Len(txt) < room.size - room.len => Ends(b, Printed(room, txt), b.len + Len(txt))
         /\ Printed(room, txt).len <= b.len + Len(txt)
  <1>1. b.len \in Nat
    BY DEF Good, InBounds
  <1>2. CASE Len(txt) < room.size - room.len
    <2>1. Printed(room, txt) = AddAll(room, txt)
      BY <1>2 DEF Printed
    <2>2. AddAll(room, txt).len = b.len + Len(txt)
      BY DEF AddAll, Ended
    <2>3. Ends(b, AddAll(room, txt), b.len + Len(txt))
      BY <1>1, AddAllEnds
    <2> QED
      BY <1>1, <2>1, <2>2, <2>3
  <1>3. CASE ~(Len(txt) < room.size - room.len)
    <2>1. room = [mem |-> room.mem, len |-> room.len, size |-> room.size]
      BY DEF Good
    <2> DEFINE mem == Put(room.mem, room.len + 1,
                          Append(SubSeq(txt, 1, room.size - room.len - 1), Nul))
    <2>2. Printed(room, txt) = [room EXCEPT !.mem = mem]
      BY <1>3 DEF Printed
    <2> HIDE DEF mem
    <2>3. Printed(room, txt) = [mem |-> mem, len |-> room.len, size |-> room.size]
      BY <2>1, <2>2
    <2> QED
      BY <1>1, <1>3, <2>3
  <1> QED
    BY <1>2, <1>3

LEMMA AddVaFixedEnds ==
  ASSUME NEW b, Good(b), NEW txt, Len(txt) \in Nat
  PROVE  /\ AddVaFixed(b, txt).buf.len <= b.len + Len(txt)
         /\ AddVaFixed(b, txt).ret # "error" => Ends(b, AddVaFixed(b, txt).buf, b.len + Len(txt))
  <1>1. b.len \in Nat /\ b.size \in Nat
    BY DEF Good, InBounds
  <1>2. CASE b.size - b.len < 1
    BY <1>1, <1>2, SameEnds DEF AddVaFixed, Returns
  <1>3. CASE ~(b.size - b.len < 1)
    BY <1>3, PrintedEnds DEF AddVaFixed, Returns
  <1> QED
    BY <1>2, <1>3

\* r is what a print gives that does not fit, for all the memory there is.
Overprints(b, txt, estimation, again, okAgain, r) ==
  r.ret # "ok" /\ r = AddVaList(b, txt, estimation, again, TRUE, okAgain)

LEMMA AddVaListEnds ==
  ASSUME NEW b, Good(b), NEW txt \in Seq(Octets), NEW again \in Seq(Octets),
         NEW estimation \in Nat, NEW ok, NEW okAgain, NEW most \in Nat,
         b.len + Len(txt) <= most, b.len + Len(again) <= most
  PROVE  /\ AddVaList(b, txt, estimation, again, ok, okAgain).buf.len <= most
         /\ \/ Ends(b, AddVaList(b, txt, estimation, again, ok, okAgain).buf, most)
            \/ Overprints(b, txt, estimation, again, okAgain,
                          AddVaList(b, txt, estimation, again, ok, okAgain))
  <1> DEFINE r     == AddVaList(b, txt, estimation, again, ok, okAgain)
             room  == WithSize(b, b.len + estimation + 2)
             first == Printed(room, txt)
             more  == WithSize(first, b.len + Len(txt) + 2)
             last  == Printed(more, again)
             full  == AddVaList(b, txt, estimation, again, TRUE, okAgain)
  <1>1. b.len \in Nat /\ Len(txt) \in Nat /\ Len(again) \in Nat /\ b.len <= most
    BY DEF Good, InBounds
  <1>2. b.len + (estimation + 1) + 1 = b.len + estimation + 2
    BY <1>1, OneAndOne
  <1>3. HasRoom(room, estimation + 1) /\ room.len = b.len
    BY <1>2, WithSizeRoom
  <1>4. Good(room) /\ room.len < room.size /\ room.size \in Nat
    BY <1>1, <1>3 DEF HasRoom, Good, InBounds
  <1>5. /\ r = IF room.size # b.size /\ ~ok THEN Returns("nomem", b)
               ELSE IF Len(txt) < room.size - room.len THEN Returns("ok", first)
               ELSE IF more.size # first.size /\ ~okAgain THEN Returns("nomem", first)
               ELSE Returns(IF Len(again) < more.size - more.len THEN "ok" ELSE "error", last)
        /\ full
             = IF Len(txt) < room.size - room.len THEN Returns("ok", first)
               ELSE IF more.size # first.size /\ ~okAgain THEN Returns("nomem", first)
               ELSE Returns(IF Len(again) < more.size - more.len THEN "ok" ELSE "error", last)
    BY DEF AddVaList
  <1> HIDE DEF room, r, full
  <1>6. /\ Good(first) /\ (Len(txt) >= room.size - room.len => first.len = b.len)
        /\ first.len <= b.len + Len(txt)
        /\ Len(txt) < room.size - room.len => Ends(b, first, b.len + Len(txt))
    BY <1>1, <1>3, <1>4, PrintedGood, PrintedEnds
  <1> HIDE DEF first
  <1>7. ASSUME room.size # b.size /\ ~ok
        PROVE  /\ r.buf.len <= most
               /\ Ends(b, r.buf, most) \/ (r.ret # "ok" /\ r = full)
    BY <1>1, <1>5, <1>7, SameEnds DEF Returns
  <1>8. ASSUME ~(room.size # b.size /\ ~ok) /\ Len(txt) < room.size - room.len
        PROVE  /\ r.buf.len <= most
               /\ Ends(b, r.buf, most) \/ (r.ret # "ok" /\ r = full)
    <2>1. r = Returns("ok", first)
      BY <1>5, <1>8
    <2>2. b.len + Len(txt) \in Nat /\ first.len \in Nat
      BY <1>1, <1>6 DEF Good, InBounds
    <2>3. Ends(b, first, most)
      BY <1>6, <1>8, <2>2, EndsMore
    <2> QED
      BY <1>6, <2>1, <2>2, <2>3 DEF Returns
  <1>9. ASSUME ~(room.size # b.size /\ ~ok) /\ Len(txt) >= room.size - room.len
        PROVE  /\ r.buf.len <= most
               /\ Ends(b, r.buf, most) \/ (r.ret # "ok" /\ r = full)
    <2>1. first.len = b.len
      BY <1>6, <1>9
    <2>2. first.len + (Len(txt) + 1) + 1 = b.len + Len(txt) + 2 /\ Len(txt) + 1 \in Nat
      <3>1. b.len + (Len(txt) + 1) + 1 = b.len + Len(txt) + 2
        BY ONLY <1>1, OneAndOne
      <3>2. Len(txt) + 1 \in Nat
        BY ONLY <1>1
      <3> HIDE DEF first
      <3> QED
        BY ONLY <2>1, <3>1, <3>2
    <2>3. HasRoom(more, Len(txt) + 1) /\ more.len = b.len
      BY <1>6, <2>1, <2>2, WithSizeRoom
    <2>4. Good(more) /\ more.len < more.size /\ more.size \in Nat
      BY <1>1, <2>3 DEF HasRoom, Good, InBounds
    <2> HIDE DEF more
    <2>5. /\ Good(last) /\ last.len <= b.len + Len(again)
          /\ Len(again) < more.size - more.len => Ends(b, last, b.len + Len(again))
      BY <1>1, <2>3, <2>4, PrintedGood, PrintedEnds
    <2> HIDE DEF last
    <2>6. r = full
      BY <1>1, <1>4, <1>3, <1>5, <1>9
    <2>7. CASE more.size # first.size /\ ~okAgain
      <3>1. r = Returns("nomem", first)
        BY <1>1, <1>3, <1>4, <1>5, <1>9, <2>7
      <3> QED
        BY <1>1, <2>1, <2>6, <3>1 DEF Returns
    <2>8. CASE ~(more.size # first.size /\ ~okAgain)
      <3>1. r = Returns(IF Len(again) < more.size - more.len THEN "ok" ELSE "error", last)
        BY <1>1, <1>3, <1>4, <1>5, <1>9, <2>8
      <3>2. b.len + Len(again) \in Nat /\ last.len \in Nat
        BY <1>1, <2>5 DEF Good, InBounds
      <3>3. Len(again) < more.size - more.len => Ends(b, last, most)
        BY <2>5, <3>2, EndsMore
      <3> QED
        BY <2>5, <2>6, <3>1, <3>2, <3>3 DEF Returns
    <2> QED
      BY <2>7, <2>8
  <1>10. room.len \in Nat
    BY <1>1, <1>3
  <1>11. /\ r.buf.len <= most
         /\ Ends(b, r.buf, most) \/ (r.ret # "ok" /\ r = full)
    BY <1>1, <1>4, <1>7, <1>8, <1>9, <1>10
  <1> QED
    BY <1>11 DEF r, full, Overprints

LEMMA MovedEnds ==
  ASSUME NEW b, Good(b), NEW from \in Nat, NEW to \in Nat, to >= from, to <= b.len, from < b.len,
         NEW len, len = b.len - (to - from), NEW most
  PROVE  Ends(b, Moved(b, from, to, len), most)
  <1>1. b.len \in Nat /\ b.size \in Nat /\ DOMAIN b.mem = 1 .. b.size /\ b.len < b.size
    BY DEF Good, InBounds, IsNull
  <1>2. len + 1 \in 1 .. b.size /\ len + 1 > from /\ (len + 1) + to - from = b.len + 1
        /\ len <= b.len
    BY <1>1
  <1> DEFINE m == Moved(b, from, to, len)
  <1>3. m.len = len /\ m.mem[len + 1] = b.mem[b.len + 1]
    BY <1>1, <1>2 DEF Moved
  <1> HIDE DEF m
  <1>4. Ends(b, m, most)
    BY <1>1, <1>2, <1>3 DEF Ends, Terminated
  <1> QED
    BY <1>4 DEF m

LEMMA MoveToBeginEnds ==
  ASSUME NEW b, Good(b), NEW pos \in Nat, NEW most
  PROVE  Ends(b, MoveToBegin(b, pos), most)
  <1>1. b.len \in Nat
    BY DEF Good, InBounds
  <1>2. CASE pos = 0
    BY <1>2, SameEnds DEF MoveToBegin
  <1>3. CASE pos > 0 /\ pos >= b.len
    BY <1>3, CleanEnds DEF MoveToBegin
  <1>4. CASE pos > 0 /\ pos < b.len
    <2>1. MoveToBegin(b, pos) = Moved(b, 0, pos, b.len - pos)
      BY <1>1, <1>4 DEF MoveToBegin
    <2>2. /\ 0 \in Nat /\ pos >= 0 /\ pos <= b.len /\ 0 < b.len /\ b.len - pos = b.len - (pos - 0)
      BY <1>1, <1>4
    <2> QED
      BY <2>1, <2>2, MovedEnds
  <1> QED
    BY <1>1, <1>2, <1>3, <1>4

LEMMA DropEndingEnds ==
  ASSUME NEW b, Good(b), NEW num \in Nat, NEW most
  PROVE  Ends(b, DropEnding(b, num), most)
  <1> DEFINE len == b.len - (IF num < b.len THEN num ELSE b.len)
  <1>1. b.len \in Nat /\ len \in Nat /\ len <= b.len
    BY DEF Good, InBounds
  <1> HIDE DEF len
  <1>2. Ends(b, Ended(b, b.mem, len), most)
    BY <1>1, EndedKeeps
  <1> QED
    BY <1>2, SameEnds DEF DropEnding, len

\* Taking out a chunk of the text brings its end down with it.
LEMMA RemoveChunkIs ==
  ASSUME NEW b, Good(b), b.len < Word, NEW from \in Nat, NEW len \in Nat, Chunk(b, from, len)
  PROVE  \/ from >= b.len /\ RemoveChunk(b, from, len) = b
         \/ from = 0 /\ from < b.len /\ len >= b.len /\ RemoveChunk(b, from, len) = Clean(b)
         \/ /\ from < b.len /\ from + len <= b.len
            /\ RemoveChunk(b, from, len) = Moved(b, from, from + len, b.len - len)
  <1>1. b.len \in Nat
    BY DEF Good, InBounds
  <1>2. CASE from >= b.len
    BY <1>1, <1>2 DEF RemoveChunk
  <1>3. CASE from = 0 /\ from < b.len /\ len >= b.len
    BY <1>1, <1>3 DEF RemoveChunk
  <1>4. CASE from < b.len /\ ~(from = 0 /\ len >= b.len)
    <2>1. from + len <= b.len /\ b.len - len \in Nat /\ b.len - len < Word
      BY <1>1, <1>4, WordAssumption DEF Chunk
    <2>2. (IF from + len < b.len THEN from + len ELSE b.len) = from + len
      BY <1>1, <2>1
    <2>3. (b.len - len) % Word = b.len - len
      BY <2>1, WordAssumption
    <2> QED
      BY <1>1, <1>4, <2>1, <2>2, <2>3 DEF RemoveChunk
  <1> QED
    BY <1>1, <1>2, <1>3, <1>4

LEMMA RemoveChunkEnds ==
  ASSUME NEW b, Good(b), b.len < Word, NEW from \in Nat, NEW len \in Nat, Chunk(b, from, len),
         NEW most
  PROVE  Ends(b, RemoveChunk(b, from, len), most)
  <1>1. b.len \in Nat
    BY DEF Good, InBounds
  <1>2. ASSUME from < b.len, from + len <= b.len
        PROVE  Ends(b, Moved(b, from, from + len, b.len - len), most)
    <2>1. /\ from + len \in Nat /\ from + len >= from
          /\ b.len - len = b.len - ((from + len) - from)
      BY <1>1
    <2> QED
      BY <1>2, <2>1, MovedEnds
  <1> QED
    BY <1>2, SameEnds, CleanEnds, RemoveChunkIs

LEMMA ReadFileEnds ==
  ASSUME NEW b, Good(b), NEW size \in Nat, NEW txt, Len(txt) \in 0 .. size, NEW fails, NEW ok
  PROVE  Ends(b, ReadFile(b, txt, size, fails, ok).buf, b.len + size)
  <1> DEFINE room == WithSize(b, b.len + size + 1)
  <1>1. b.len \in Nat /\ room.len = b.len /\ Len(<<>>) = 0
    BY WithSizeRoom DEF Good, InBounds
  <1> HIDE DEF room
  <1>2. /\ Ends(b, AddAll(room, txt), b.len + Len(txt))
        /\ Ends(b, AddAll(room, <<>>), b.len + 0)
    BY <1>1, AddAllEnds
  <1>3. Ends(b, AddAll(room, txt), b.len + size) /\ Ends(b, AddAll(room, <<>>), b.len + size)
    <2>1. AddAll(room, txt).len = b.len + Len(txt) /\ AddAll(room, <<>>).len = b.len + 0
      BY <1>1 DEF AddAll, Ended
    <2> QED
      BY <1>1, <1>2, <2>1 DEF Ends
  <1> QED
    BY <1>3, AllocatedEnds DEF ReadFile, Returns, room

LEMMA ReadFromFdEnds ==
  ASSUME NEW b, Good(b), NEW size \in Nat, NEW txt, Len(txt) \in 0 .. size, NEW ok
  PROVE  Ends(b, ReadFromFd(b, txt, size, ok).buf, b.len + size)
  <1> DEFINE room == EnsureAddlen(b, size, ok)
  <1>1. b.len \in Nat /\ room.buf.len = b.len /\ Ends(b, room.buf, b.len + size)
    BY EnsureAddlenEnds DEF Good, InBounds
  <1> HIDE DEF room
  <1>2. Ends(b, AddAll(room.buf, txt), b.len + size)
    <2>1. Ends(b, AddAll(room.buf, txt), b.len + Len(txt))
      BY <1>1, AddAllEnds
    <2>2. AddAll(room.buf, txt).len = b.len + Len(txt)
      BY <1>1 DEF AddAll, Ended
    <2> QED
      BY <1>1, <2>1, <2>2 DEF Ends
  <1> QED
    BY <1>1, <1>2 DEF ReadFromFd, Returns, room

-----------------------------------------------------------------------------
(* Every call of the client leaves the end *)

\* No text is longer than the longest one imported.
BothShort == buf.len <= MaxLen + 1 /\ other.len <= MaxLen + 1

\* What a step has to show.
Kept ==
  /\ BothShort'
  /\ \/ Terminated(buf) /\ Terminated(other) => Terminated(buf') /\ Terminated(other')
     \/ Overprinted

LEMMA EndsKept ==
  ASSUME BothShort, BothGood, NEW r, NEW most \in Nat, most <= MaxLen + 1, Ends(buf, r, most),
         r.len \in Nat, buf' = r, UNCHANGED other
  PROVE  Kept
  <1>1. r.len <= MaxLen + 1
    BY TextsAssumption DEF Ends, BothShort, BothGood, Good, InBounds
  <1> QED
    BY <1>1 DEF Kept, BothShort, Ends

\* The client adds no more than fits in the bound.
LEMMA FitsIs ==
  ASSUME BothGood, NEW n \in Nat, Fits(n)
  PROVE  buf.len + n \in Nat /\ buf.len + n <= MaxLen /\ buf.len + n <= MaxLen + 1
  BY TextsAssumption DEF BothGood, Good, InBounds, Fits

LEMMA LenIsNat ==
  ASSUME NEW b, Good(b)
  PROVE  b.len \in Nat
  BY DEF Good, InBounds

LEMMA TextStepKept ==
  ASSUME BothGood, BothShort, NEW txt \in Texts, NEW n \in Numbers, NEW ok,
         \/ Chars(txt, n, ok) \/ PutBefore(txt, n, ok)
         \/ \E fails \in BOOLEAN : Read(txt, n, fails, ok)
  PROVE  Kept
  <1>1. n \in Nat /\ Len(txt) \in Nat /\ Good(buf) /\ Good(other)
    BY TextsAreSeqs, NumbersAreNat DEF BothGood
  <1>2. CASE Chars(txt, n, ok)
    <2>1. Fits(n) /\ UNCHANGED other
      BY <1>2 DEF Chars, Becomes
    <2>2. \/ n = 1 /\ buf' = AddChar(buf, txt[1], ok).buf
          \/ buf' = AddCharN(buf, txt[1], n, ok).buf
      BY <1>2 DEF Chars, Becomes
    <2>3. Ends(buf, buf', buf.len + n) /\ Good(buf')
      BY <1>1, <2>2, AddCharEnds, AddCharNEnds, AddCharGood, AddCharNGood
    <2> QED
      BY <1>1, <2>1, <2>3, FitsIs, EndsKept, LenIsNat
  <1>3. CASE PutBefore(txt, n, ok)
    <2>1. Fits(Len(txt)) /\ UNCHANGED other
      BY <1>3 DEF PutBefore, Becomes
    <2>2. \/ buf' = Insert(buf, txt, n, ok).buf
          \/ buf' = Prepend(buf, txt, ok).buf
      BY <1>3 DEF PutBefore, Becomes
    <2>3. Ends(buf, buf', buf.len + Len(txt)) /\ Good(buf')
      BY <1>1, <2>2, InsertEnds, PrependEnds, InsertGood, PrependGood
    <2> QED
      BY <1>1, <2>1, <2>3, FitsIs, EndsKept, LenIsNat
  <1>4. ASSUME NEW fails \in BOOLEAN, Read(txt, n, fails, ok)
        PROVE  Kept
    <2> DEFINE some == IF fails THEN <<>> ELSE txt
    <2>1. Len(txt) \in 0 .. n /\ Len(some) \in 0 .. n
      <3>1. Len(txt) <= n /\ Len(<<>>) = 0
        BY <1>4 DEF Read
      <3> QED
        BY <1>1, <3>1
    <2>2. \/ buf' = ReadFile(buf, txt, n, fails, ok).buf
          \/ buf' = ReadFromFd(buf, some, n, ok).buf
      BY <1>4 DEF Read, Becomes
    <2>3. UNCHANGED other /\ Fits(n)
      BY <1>4 DEF Read, Becomes
    <2> HIDE DEF some
    <2>4. Ends(buf, buf', buf.len + n) /\ Good(buf')
      BY <1>1, <2>1, <2>2, ReadFileEnds, ReadFromFdEnds, ReadFileGood, ReadFromFdGood
    <2> QED
      BY <1>1, <2>3, <2>4, FitsIs, EndsKept, LenIsNat
  <1> QED
    BY <1>2, <1>3, <1>4

\* A print is the one call that may leave a text without an end, when what it
\* prints does not fit.
LEMMA PrintStepKept ==
  ASSUME BothGood, BothShort, NEW txt \in Texts,
         \/ VaFixed(txt)
         \/ \E again \in Texts, n \in {0, MaxLen}, ok, okAgain \in BOOLEAN :
              Va(txt, n, again, ok, okAgain)
  PROVE  Kept
  <1>1. txt \in Seq(Octets) /\ Len(txt) \in Nat /\ Good(buf) /\ Good(other)
        /\ buf.len \in Nat /\ MaxLen \in Nat
    BY TextsAreSeqs, LenIsNat, TextsAssumption DEF BothGood
  <1>2. CASE VaFixed(txt)
    <2>1. Fits(Len(txt)) /\ UNCHANGED other /\ buf' = AddVaFixed(buf, txt).buf
      BY <1>2 DEF VaFixed, Becomes
    <2>2. Good(buf') /\ buf'.len <= buf.len + Len(txt)
      BY <1>1, <2>1, AddVaFixedGood, AddVaFixedEnds
    <2>3. CASE AddVaFixed(buf, txt).ret = "error"
      <3>1. Overprinted
        BY <2>1, <2>3 DEF Overprinted
      <3>2. BothShort'
        <4>1. buf'.len \in Nat
          BY <2>2, LenIsNat
        <4>2. buf.len + Len(txt) <= MaxLen + 1
          BY <1>1, <2>1, FitsIs
        <4> QED
          BY <1>1, <2>1, <2>2, <4>1, <4>2 DEF BothShort
      <3> QED
        BY <3>1, <3>2 DEF Kept
    <2>4. CASE AddVaFixed(buf, txt).ret # "error"
      <3>1. Ends(buf, buf', buf.len + Len(txt))
        BY <1>1, <2>1, <2>4, AddVaFixedEnds
      <3> QED
        BY <1>1, <2>1, <2>2, <3>1, FitsIs, EndsKept, LenIsNat
    <2> QED
      BY <2>3, <2>4
  <1>3. ASSUME NEW again \in Texts, NEW n \in {0, MaxLen}, NEW ok \in BOOLEAN,
               NEW okAgain \in BOOLEAN, Va(txt, n, again, ok, okAgain)
        PROVE  Kept
    <2> DEFINE r == AddVaList(buf, txt, n, again, ok, okAgain)
    <2>1. again \in Seq(Octets) /\ Len(again) \in Nat /\ n \in Nat /\ n \in Numbers
      BY TextsAreSeqs, TextsAssumption DEF Numbers
    <2>2. Fits(Len(txt)) /\ Fits(Len(again)) /\ UNCHANGED other /\ buf' = r.buf
      BY <1>3 DEF Va, Becomes
    <2>3. buf.len + Len(txt) <= MaxLen /\ buf.len + Len(again) <= MaxLen
      BY <1>1, <2>1, <2>2, FitsIs
    <2>4. Good(r.buf) /\ r.buf.len \in Nat
      BY <1>1, <2>1, AddVaListGood, LenIsNat
    <2>5. /\ r.buf.len <= MaxLen
          /\ \/ Ends(buf, r.buf, MaxLen)
             \/ Overprints(buf, txt, n, again, okAgain, r)
      BY <1>1, <2>1, <2>3, AddVaListEnds
    <2> HIDE DEF r
    <2>6. CASE Ends(buf, r.buf, MaxLen)
      BY <1>1, <2>2, <2>4, <2>6, EndsKept
    <2>7. CASE Overprints(buf, txt, n, again, okAgain, r)
      <3>1. Overprinted
        BY <2>1, <2>2, <2>7 DEF Overprinted, Overprints
      <3>2. BothShort'
        BY <1>1, <2>2, <2>4, <2>5 DEF BothShort
      <3> QED
        BY <3>1, <3>2 DEF Kept
    <2> QED
      BY <2>5, <2>6, <2>7
  <1> QED
    BY <1>2, <1>3

LEMMA GrowStepKept ==
  ASSUME BothGood, BothShort, NEW ok,
         \/ \E txt \in Texts : AddText(txt, ok) \/ Digits(txt, ok)
         \/ \E n \in Numbers : InsertOther(n, ok) \/ Times(n, ok) \/ Reserve(n, ok)
         \/ \E begin, end \in Offsets : SliceOther(begin, end, ok)
         \/ AddOther(ok) \/ Shrink(ok)
  PROVE  Kept
  <1>1. Good(buf) /\ Good(other) /\ other.len \in Nat /\ MaxLen \in Nat /\ buf.len \in Nat
    BY LenIsNat, TextsAssumption DEF BothGood
  <1>2. ASSUME NEW txt \in Texts, AddText(txt, ok) \/ Digits(txt, ok)
        PROVE  Kept
    <2>1. Len(txt) \in Nat /\ Fits(Len(txt)) /\ UNCHANGED other
      BY <1>2, TextsAreSeqs DEF AddText, Digits, Becomes
    <2>2. buf' = Add(buf, txt, ok).buf \/ buf' = AddDigits(buf, txt, ok).buf
      BY <1>2 DEF AddText, Digits, Becomes
    <2>3. Ends(buf, buf', buf.len + Len(txt)) /\ Good(buf')
      BY <1>1, <2>1, <2>2, AddEnds, AddDigitsEnds, AddGood, AddDigitsGood
    <2> QED
      BY <2>1, <2>3, FitsIs, EndsKept, LenIsNat
  <1>3. ASSUME NEW n \in Numbers, InsertOther(n, ok) \/ Times(n, ok) \/ Reserve(n, ok)
        PROVE  Kept
    <2>1. n \in Nat
      BY NumbersAreNat
    <2>2. CASE InsertOther(n, ok)
      <3>1. Fits(other.len) /\ UNCHANGED other /\ buf' = InsertBuffer(buf, other, n, ok).buf
        BY <2>2 DEF InsertOther, Becomes
      <3>2. Ends(buf, buf', buf.len + other.len) /\ Good(buf')
        BY <1>1, <2>1, <3>1, InsertBufferEnds, InsertBufferGood
      <3> QED
        BY <1>1, <3>1, <3>2, FitsIs, EndsKept, LenIsNat
    <2>3. CASE Times(n, ok)
      <3> DEFINE size == buf.len * n
      <3>1. size \in Nat
        BY <1>1, <2>1, TimesNat
      <3>2. size <= MaxLen /\ UNCHANGED other /\ buf' = Multiply(buf, n, ok).buf
        BY <2>3 DEF Times, Becomes
      <3>3. Ends(buf, buf', size) /\ Good(buf')
        BY <1>1, <2>1, <3>2, MultiplyEnds, MultiplyGood
      <3> HIDE DEF size
      <3>4. size <= MaxLen + 1
        BY <1>1, <3>1, <3>2
      <3> QED
        BY <3>1, <3>2, <3>3, <3>4, EndsKept, LenIsNat
    <2>4. CASE Reserve(n, ok)
      <3>1. UNCHANGED other
        BY <2>4 DEF Reserve, Becomes
      <3>2. buf' = EnsureSize(buf, n, ok).buf \/ buf' = EnsureAddlen(buf, n, ok).buf
        BY <2>4 DEF Reserve, Becomes
      <3>3. Ends(buf, buf', MaxLen) /\ Good(buf')
        BY <1>1, <2>1, <3>2, EnsureSizeEnds, EnsureAddlenEnds, EnsureSizeGood, EnsureAddlenGood
      <3> QED
        BY <1>1, <3>1, <3>3, EndsKept, LenIsNat
    <2> QED
      BY <1>3, <2>2, <2>3, <2>4
  <1>4. ASSUME NEW begin \in Offsets, NEW end \in Offsets, SliceOther(begin, end, ok)
        PROVE  Kept
    <2>1. begin \in Int \cup {None} /\ end \in Int \cup {None}
      BY TextsAssumption DEF Offsets
    <2>2. Fits(other.len) /\ UNCHANGED other /\ buf' = AddSlice(buf, other, begin, end, ok).buf
      BY <1>4 DEF SliceOther, Becomes
    <2>3. Ends(buf, buf', buf.len + other.len) /\ Good(buf')
      BY <1>1, <2>1, <2>2, AddSliceEnds, AddSliceGood
    <2> QED
      BY <1>1, <2>2, <2>3, FitsIs, EndsKept, LenIsNat
  <1>5. CASE AddOther(ok)
    <2>1. Fits(other.len) /\ UNCHANGED other /\ buf' = AddBuffer(buf, other, ok).buf
      BY <1>5 DEF AddOther, Becomes
    <2>2. Ends(buf, buf', buf.len + other.len) /\ Good(buf')
      BY <1>1, <2>1, AddBufferEnds, AddBufferGood
    <2> QED
      BY <1>1, <2>1, <2>2, FitsIs, EndsKept, LenIsNat
  <1>6. CASE Shrink(ok)
    <2>1. UNCHANGED other /\ buf' = Retract(buf, ok).buf
      BY <1>6 DEF Shrink, Becomes
    <2>2. Ends(buf, buf', MaxLen) /\ Good(buf')
      BY <1>1, <2>1, RetractEnds, RetractGood
    <2> QED
      BY <1>1, <2>1, <2>2, EndsKept, LenIsNat
  <1> QED
    BY <1>2, <1>3, <1>4, <1>5, <1>6

\* Removing relies on lengths that fit in a word.
LEMMA OtherStepKept ==
  ASSUME MaxLen + 1 < Word, BothGood, BothShort,
         \/ \E from, len \in 0 .. MaxLen + 1 : Remove(from, len)
         \/ \E txt \in Texts, n \in 0 .. MaxLen + 2 : Reset(txt, n)
         \/ Copy \/ Swap
  PROVE  Kept
  <1>1. Good(buf) /\ Good(other) /\ MaxLen \in Nat /\ buf.len \in Nat /\ buf.len < Word
        /\ Word \in Nat
    BY LenIsNat, TextsAssumption, WordAssumption DEF BothGood, BothShort
  <1>2. ASSUME NEW from \in 0 .. MaxLen + 1, NEW len \in 0 .. MaxLen + 1, Remove(from, len)
        PROVE  Kept
    <2>1. from \in Nat /\ len \in Nat
      OBVIOUS
    <2>2. UNCHANGED other
      BY <1>2 DEF Remove, Change
    <2>3. \/ Chunk(buf, from, len) /\ buf' = RemoveChunk(buf, from, len)
          \/ buf' = MoveToBegin(buf, from)
          \/ buf' = DropEnding(buf, len)
      BY <1>2 DEF Remove, Change
    <2>4. Ends(buf, buf', MaxLen) /\ Good(buf')
      BY <1>1, <2>1, <2>3, RemoveChunkEnds, MoveToBeginEnds, DropEndingEnds,
         RemoveChunkGood, MoveToBeginGood, DropEndingGood
    <2> QED
      BY <1>1, <2>2, <2>4, EndsKept, LenIsNat
  <1>3. ASSUME NEW txt \in Texts, NEW n \in 0 .. MaxLen + 2, Reset(txt, n)
        PROVE  Kept
    <2>1. Len(txt) \in Nat /\ n \in Nat
      BY TextsAreSeqs
    <2>2. UNCHANGED other
      BY <1>3 DEF Reset, Change
    <2>3. CASE buf' = Clean(buf) \/ buf' = Empty
      <3>1. Ends(buf, buf', MaxLen) /\ Good(buf')
        BY <1>1, <2>3, CleanEnds, EmptyEnds, CleanGood, EmptyGood
      <3> QED
        BY <1>1, <2>2, <3>1, EndsKept, LenIsNat
    <2>4. CASE n > Len(txt) /\ n <= MaxLen + 2 /\ buf' = Import(txt, n)
      <3>1. Terminated(buf') /\ buf'.len = Len(txt)
        BY <2>1, <2>4, EndedEnds DEF Import
      <3>2. Len(txt) <= MaxLen + 1
        BY <1>1, <2>1, <2>4
      <3> QED
        BY <2>2, <3>1, <3>2 DEF Kept, BothShort
    <2> QED
      BY <1>3, <2>3, <2>4 DEF Reset, Change
  <1>4. CASE Copy
    <2>1. buf.len < MaxLen /\ other' = Dup(buf) /\ buf' = buf
      BY <1>4 DEF Copy
    <2>2. other'.len = buf.len
      BY <2>1 DEF Dup
    <2>3. BothShort'
      BY <1>1, <2>1, <2>2 DEF BothShort
    <2> QED
      BY <1>1, <2>1, <2>3, DupEnds DEF Kept
  <1>5. CASE Swap
    BY <1>5 DEF Swap, Kept, BothShort
  <1> QED
    BY <1>2, <1>3, <1>4, <1>5

LEMMA StepKept ==
  ASSUME MaxLen + 1 < Word, BothGood, BothShort, [ClientNext]_bvars
  PROVE  Kept
  <1>1. CASE UNCHANGED bvars
    BY <1>1 DEF bvars, Kept, BothShort
  <1>2. CASE ClientNext
    BY <1>2, TextStepKept, PrintStepKept, GrowStepKept, OtherStepKept DEF ClientNext
  <1> QED
    BY <1>1, <1>2

LEMMA InitShort == ClientInit => BothShort
  BY TextsAssumption DEF ClientInit, BothShort, Empty

\* Whatever is called, whichever calls find no memory, a text that had a Nul
\* behind it has one afterwards, unless a print did not fit; as long as no text
\* is as long as a uint32_t can count, as every length here is one.
THEOREM EndsStay == ASSUME MaxLen + 1 < Word PROVE ClientSpec => EndKept
  <1>1. BothGood /\ BothShort /\ [ClientNext]_bvars => BothShort'
    BY StepKept DEF Kept
  <1>2. BothGood /\ BothShort /\ [ClientNext]_bvars
        => [Terminated(buf) /\ Terminated(other)
            => (Terminated(buf') /\ Terminated(other')) \/ Overprinted]_bvars
    BY StepKept DEF Kept
  <1> QED
    BY <1>1, <1>2, InitGood, StepGood, InitShort, PTL DEF ClientSpec, EndKept

-----------------------------------------------------------------------------
(* A call without memory *)

\* r has not changed b if it reports that there is no memory.
Spares(b, r) == r.ret = "nomem" => r.buf = b

LEMMA OkSpares ==
  ASSUME NEW b, NEW r
  PROVE  Spares(b, Returns("ok", r)) /\ Spares(b, Returns("error", r))
  BY DEF Spares, Returns

LEMMA AllocatedSpares ==
  ASSUME NEW b, NEW resized, NEW ok, NEW done
  PROVE  Spares(b, Allocated(b, resized, ok, done))
  BY DEF Spares, Allocated, Returns

LEMMA AddingSpares ==
  ASSUME NEW b, NEW txt, NEW n, NEW c
  PROVE  /\ Spares(b, Add(b, txt, FALSE)) /\ Spares(b, Prepend(b, txt, FALSE))
         /\ Spares(b, Insert(b, txt, n, FALSE)) /\ Spares(b, AddDigits(b, txt, FALSE))
         /\ Spares(b, AddCharN(b, c, n, FALSE)) /\ Spares(b, AddChar(b, c, FALSE))
         /\ Spares(b, Multiply(b, n, FALSE))
  <1>1. Spares(b, Add(b, txt, FALSE))
    BY OkSpares, AllocatedSpares DEF Add
  <1>2. Spares(b, Prepend(b, txt, FALSE))
    BY OkSpares, AllocatedSpares DEF Prepend
  <1>3. Spares(b, Insert(b, txt, n, FALSE))
    BY OkSpares, AllocatedSpares DEF Insert
  <1>4. Spares(b, AddDigits(b, txt, FALSE))
    BY AllocatedSpares DEF AddDigits
  <1>5. Spares(b, AddCharN(b, c, n, FALSE))
    BY OkSpares, AllocatedSpares DEF AddCharN
  <1>6. Spares(b, AddChar(b, c, FALSE))
    BY AllocatedSpares DEF AddChar
  <1>7. Spares(b, Multiply(b, n, FALSE))
    BY AllocatedSpares DEF Multiply
  <1> QED
    BY <1>1, <1>2, <1>3, <1>4, <1>5, <1>6, <1>7

LEMMA ReservingSpares ==
  ASSUME NEW b, NEW txt, NEW n
  PROVE  /\ Spares(b, EnsureSize(b, n, FALSE)) /\ Spares(b, EnsureAddlen(b, n, FALSE))
         /\ Spares(b, Retract(b, FALSE)) /\ Spares(b, ReadFile(b, txt, n, FALSE, FALSE))
         /\ Spares(b, ReadFromFd(b, txt, n, FALSE))
  <1>1. \A m : Spares(b, EnsureSize(b, m, FALSE))
    BY AllocatedSpares DEF EnsureSize
  <1>2. Spares(b, EnsureAddlen(b, n, FALSE))
    BY <1>1, OkSpares DEF EnsureAddlen
  <1>3. Spares(b, Retract(b, FALSE))
    BY OkSpares, AllocatedSpares DEF Retract
  <1>4. Spares(b, ReadFile(b, txt, n, FALSE, FALSE))
    BY AllocatedSpares DEF ReadFile
  <1>5. Spares(b, ReadFromFd(b, txt, n, FALSE))
    BY <1>2, OkSpares DEF ReadFromFd
  <1> QED
    BY <1>1, <1>2, <1>3, <1>4, <1>5

\* In every state, whatever is called: a call that returns ret_nomem leaves
\* the buffer as it was, also one that works in two steps.
THEOREM NoMemoryIsHarmless == ClientSpec => []NoMemKeepsText
  <1>1. ASSUME NEW r \in NoMemory
        PROVE  Spares(buf, r)
    <2> DEFINE Calls(txt, n) ==
                 {Add(buf, txt, FALSE), Prepend(buf, txt, FALSE), Insert(buf, txt, n, FALSE),
                  AddDigits(buf, txt, FALSE), AddCharN(buf, Nul, n, FALSE),
                  AddChar(buf, Nul, FALSE), Multiply(buf, n, FALSE),
                  EnsureSize(buf, n, FALSE), EnsureAddlen(buf, n, FALSE),
                  Retract(buf, FALSE), ReadFile(buf, txt, n, FALSE, FALSE),
                  ReadFromFd(buf, txt, Len(txt), FALSE)}
    <2>1. NoMemory = UNION {Calls(txt, n) : txt \in Texts, n \in Numbers}
      BY DEF NoMemory
    <2> HIDE DEF Calls
    <2>2. PICK txt \in Texts, n \in Numbers : r \in Calls(txt, n)
      BY <2>1
    <2> DEFINE k == Len(txt)
    <2>3. /\ Spares(buf, Add(buf, txt, FALSE)) /\ Spares(buf, Prepend(buf, txt, FALSE))
          /\ Spares(buf, Insert(buf, txt, n, FALSE)) /\ Spares(buf, AddDigits(buf, txt, FALSE))
          /\ Spares(buf, AddCharN(buf, Nul, n, FALSE)) /\ Spares(buf, AddChar(buf, Nul, FALSE))
          /\ Spares(buf, Multiply(buf, n, FALSE))
      BY AddingSpares
    <2>4. /\ Spares(buf, EnsureSize(buf, n, FALSE)) /\ Spares(buf, EnsureAddlen(buf, n, FALSE))
          /\ Spares(buf, Retract(buf, FALSE)) /\ Spares(buf, ReadFile(buf, txt, n, FALSE, FALSE))
          /\ Spares(buf, ReadFromFd(buf, txt, k, FALSE))
      BY ReservingSpares
    <2> QED
      BY <2>3, <2>4, <2>2 DEF Calls
  <1>2. NoMemKeepsText
    BY <1>1 DEF NoMemKeepsText, Spares
  <1> QED
    BY <1>2, PTL

-----------------------------------------------------------------------------
(* What a call makes of the text *)

LEMMA TextIs ==
  ASSUME NEW b, b.len \in Nat
  PROVE  /\ Text(b) \in Seq({b.mem[i] : i \in 1 .. b.len})
         /\ Len(Text(b)) = b.len
         /\ \A i \in 1 .. b.len : Text(b)[i] = b.mem[i]
  BY DEF Text

LEMMA TextsEqual ==
  ASSUME NEW b, b.len \in Nat, NEW S, NEW t \in Seq(S), Len(t) = b.len,
         \A i \in 1 .. b.len : t[i] = b.mem[i]
  PROVE  Text(b) = t
  <1> DEFINE U == S \cup {b.mem[i] : i \in 1 .. b.len}
  <1>1. Text(b) \in Seq(U) /\ Len(Text(b)) = b.len
        /\ \A i \in 1 .. b.len : Text(b)[i] = b.mem[i]
    <2>1. {b.mem[i] : i \in 1 .. b.len} \subseteq U
      OBVIOUS
    <2> HIDE DEF U
    <2> QED
      BY <2>1, TextIs, SeqMonotonic
  <1>2. t \in Seq(U)
    <2>1. S \subseteq U
      OBVIOUS
    <2> HIDE DEF U
    <2> QED
      BY <2>1, SeqMonotonic
  <1> HIDE DEF U
  <1> QED
    BY <1>1, <1>2, SeqEqual

LEMMA Join ==
  ASSUME NEW S, NEW s \in Seq(S), NEW T, NEW t \in Seq(T)
  PROVE  /\ s \o t \in Seq(S \cup T)
         /\ Len(s \o t) = Len(s) + Len(t)
         /\ \A i \in 1 .. Len(s) + Len(t) :
              (s \o t)[i] = IF i <= Len(s) THEN s[i] ELSE t[i - Len(s)]
  <1>1. s \in Seq(S \cup T) /\ t \in Seq(S \cup T)
    BY SeqMonotonic
  <1> QED
    BY <1>1, ConcatProperties

\* The text of b is s followed by t.
LEMMA TextIsJoin ==
  ASSUME NEW b, NEW S, NEW s \in Seq(S), NEW T, NEW t \in Seq(T), b.len = Len(s) + Len(t),
         \A i \in 1 .. Len(s) : b.mem[i] = s[i],
         \A i \in 1 .. Len(t) : b.mem[Len(s) + i] = t[i]
  PROVE  Text(b) = s \o t
  <1>1. /\ Len(s) \in Nat /\ Len(t) \in Nat /\ b.len \in Nat
        /\ s \o t \in Seq(S \cup T) /\ Len(s \o t) = b.len
        /\ \A i \in 1 .. b.len : (s \o t)[i] = IF i <= Len(s) THEN s[i] ELSE t[i - Len(s)]
    BY Join
  <1>2. ASSUME NEW i \in 1 .. b.len
        PROVE  (s \o t)[i] = b.mem[i]
    <2>1. CASE i <= Len(s)
      BY <1>1, <2>1
    <2>2. CASE i > Len(s)
      <3>1. i - Len(s) \in 1 .. Len(t) /\ Len(s) + (i - Len(s)) = i
        BY <1>1, <2>2
      <3> QED
        BY <1>1, <2>2, <3>1
    <2> QED
      BY <1>1, <2>1, <2>2
  <1> QED
    BY <1>1, <1>2, TextsEqual

LEMMA EndedMem ==
  ASSUME NEW b, NEW mem, NEW len \in Nat, 1 .. len \subseteq DOMAIN mem
  PROVE  Ended(b, mem, len).len = len
         /\ \A i \in 1 .. len : Ended(b, mem, len).mem[i] = mem[i]
  <1> DEFINE r == Ended(b, mem, len)
  <1>1. r.len = len
    BY DEF Ended
  <1>2. ASSUME NEW i \in 1 .. len
        PROVE  r.mem[i] = mem[i]
    <2>1. i \in DOMAIN mem /\ i <= len
      OBVIOUS
    <2> QED
      BY <2>1 DEF Ended
  <1> QED
    BY <1>1, <1>2

\* r has the text of b, in more memory or less.
Holds(r, b) == r.len = b.len /\ \A i \in 1 .. b.len : r.mem[i] = b.mem[i]

LEMMA ResizedHolds ==
  ASSUME NEW b, Good(b), NEW size \in Nat, b.len < size
  PROVE  Holds(Resized(b, size), b)
  <1>1. b.len \in Nat /\ b.size \in Nat /\ DOMAIN b.mem = 1 .. b.size /\ b.len <= b.size
    BY DEF Good, InBounds, IsNull
  <1> QED
    BY <1>1 DEF Holds, Resized

LEMMA WithSizeHolds ==
  ASSUME NEW b, Good(b), NEW n \in Nat
  PROVE  Holds(WithSize(b, b.len + n + 1), b)
  <1>1. b.len + n + 1 \in Nat /\ b.len < b.len + n + 1
    BY DEF Good, InBounds
  <1>2. Holds(b, b)
    BY DEF Holds
  <1> QED
    BY <1>1, <1>2, ResizedHolds DEF WithSize

LEMMA RoomHolds ==
  ASSUME NEW b, Good(b), NEW n \in Nat
  PROVE  Holds(Room(b, n), b)
  <1>1. b.len \in Nat /\ b.size \in Nat
    BY DEF Good, InBounds
  <1>2. CASE b.size - b.len < n + 1
    <2> DEFINE size == b.size + (n - (b.size - b.len)) + Extra + 1
    <2>1. size \in Nat /\ b.len < size
      BY <1>1, ExtraAssumption
    <2>2. Room(b, n) = Resized(b, size)
      BY <1>2 DEF Room, IncBufsize
    <2> HIDE DEF size
    <2> QED
      BY <2>1, <2>2, ResizedHolds
  <1>3. CASE ~(b.size - b.len < n + 1)
    BY <1>3 DEF Room, Holds
  <1> QED
    BY <1>2, <1>3

\* Behind k octets there is room for l more in z cells.
LEMMA Behind ==
  ASSUME NEW k \in Nat, NEW l \in Nat, NEW z \in Nat, k + l < z, NEW i \in 1 .. l
  PROVE  /\ k + i \in 1 .. k + l /\ k + i \in 1 .. z
         /\ k + i >= k + 1 /\ k + i < k + 1 + l
         /\ (k + i) - (k + 1) + 1 = i
  OBVIOUS

\* What is put behind the text is what comes after it.
LEMMA AddAllMem ==
  ASSUME NEW b, Good(b), NEW room, NEW txt, Len(txt) \in Nat, HasRoom(room, Len(txt)),
         Holds(room, b)
  PROVE  /\ AddAll(room, txt).len = b.len + Len(txt)
         /\ \A i \in 1 .. b.len : AddAll(room, txt).mem[i] = b.mem[i]
         /\ \A i \in 1 .. Len(txt) : AddAll(room, txt).mem[b.len + i] = txt[i]
  <1> DEFINE n == b.len + Len(txt)
             mem == Put(room.mem, room.len + 1, txt)
             r   == AddAll(room, txt)
  <1>1. /\ b.len \in Nat /\ Len(txt) \in Nat /\ room.len = b.len /\ room.size \in Nat
        /\ n < room.size /\ n \in Nat /\ DOMAIN room.mem = 1 .. room.size
        /\ \A i \in 1 .. b.len : room.mem[i] = b.mem[i]
    BY DEF Good, InBounds, HasRoom, Holds
  <1>2. /\ DOMAIN mem = 1 .. room.size
        /\ \A i \in 1 .. room.size : mem[i] = IF i >= b.len + 1 /\ i < b.len + 1 + Len(txt)
                                              THEN txt[i - (b.len + 1) + 1] ELSE room.mem[i]
    <2> DEFINE first == b.len + 1
    <2>1. first \in Nat \ {0} /\ first + Len(txt) <= room.size + 1
          /\ mem = Put(room.mem, first, txt)
      BY <1>1
    <2> HIDE DEF first, mem
    <2>2. /\ DOMAIN mem = 1 .. room.size
          /\ \A i \in 1 .. room.size : mem[i] = IF i >= first /\ i < first + Len(txt)
                                                THEN txt[i - first + 1] ELSE room.mem[i]
      BY <1>1, <2>1 DEF Put
    <2> QED
      BY <2>2 DEF first
  <1>3. r = Ended(room, mem, n)
    BY <1>1 DEF AddAll
  <1> HIDE DEF mem, r
  <1>4. r.len = n /\ \A i \in 1 .. n : r.mem[i] = mem[i]
    BY <1>1, <1>2, <1>3, EndedMem
  <1>5. ASSUME NEW i \in 1 .. b.len
        PROVE  r.mem[i] = b.mem[i]
    BY <1>1, <1>2, <1>4
  <1>6. ASSUME NEW i \in 1 .. Len(txt)
        PROVE  r.mem[b.len + i] = txt[i]
    <2>1. /\ b.len + i \in 1 .. n /\ b.len + i \in 1 .. room.size
          /\ b.len + i >= b.len + 1 /\ b.len + i < b.len + 1 + Len(txt)
          /\ (b.len + i) - (b.len + 1) + 1 = i
      BY <1>1, Behind
    <2> QED
      BY <1>2, <1>4, <2>1
  <1> QED
    BY <1>4, <1>5, <1>6 DEF r

LEMMA AddAllText ==
  ASSUME NEW b, Good(b), NEW room, NEW S, NEW txt \in Seq(S), HasRoom(room, Len(txt)),
         Holds(room, b)
  PROVE  Text(AddAll(room, txt)) = Text(b) \o txt
  <1> DEFINE s == Text(b)
             r == AddAll(room, txt)
  <1>1. b.len \in Nat /\ Len(txt) \in Nat
    BY DEF Good, InBounds
  <1>2. s \in Seq({b.mem[i] : i \in 1 .. b.len})
    BY <1>1, TextIs
  <1>3. Len(s) = b.len /\ \A i \in 1 .. b.len : s[i] = b.mem[i]
    BY <1>1, TextIs
  <1>4. /\ r.len = Len(s) + Len(txt)
        /\ \A i \in 1 .. Len(s) : r.mem[i] = s[i]
        /\ \A i \in 1 .. Len(txt) : r.mem[Len(s) + i] = txt[i]
    <2> HIDE DEF s
    <2> QED
      BY <1>1, <1>3, AddAllMem
  <1> HIDE DEF s, r
  <1>5. Text(r) = s \o txt
    BY <1>2, <1>4, TextIsJoin
  <1> QED
    BY <1>5 DEF s, r

\* A call gives that text.
Gives(r, t) == r.ret = "ok" /\ Text(r.buf) = t

LEMMA AllocatedGives ==
  ASSUME NEW b, NEW resized, NEW done, NEW t, Text(done) = t
  PROVE  Gives(Allocated(b, resized, TRUE, done), t)
  BY DEF Gives, Allocated, Returns

LEMMA NothingToAdd ==
  ASSUME NEW b, Good(b)
  PROVE  Text(b) \o <<>> = Text(b) /\ <<>> \o Text(b) = Text(b)
  <1>1. Text(b) \in Seq({b.mem[i] : i \in 1 .. b.len})
    BY TextIs DEF Good, InBounds
  <1> QED
    BY <1>1, ConcatEmptySeq

LEMMA AddGives ==
  ASSUME NEW b, Good(b), NEW S, NEW txt \in Seq(S)
  PROVE  Gives(Add(b, txt, TRUE), Text(b) \o txt)
  <1>1. Len(txt) \in Nat
    OBVIOUS
  <1>2. CASE txt = <<>>
    BY <1>2, NothingToAdd DEF Add, Returns, Gives
  <1>3. CASE txt # <<>>
    <2>1. Text(AddAll(Room(b, Len(txt)), txt)) = Text(b) \o txt
      BY <1>1, RoomGood, RoomHolds, AddAllText
    <2> QED
      BY <1>3, <2>1, AllocatedGives DEF Add
  <1> QED
    BY <1>2, <1>3

LEMMA AddDigitsGives ==
  ASSUME NEW b, Good(b), NEW S, NEW txt \in Seq(S)
  PROVE  Gives(AddDigits(b, txt, TRUE), Text(b) \o txt)
  <1> DEFINE newlen == b.len + Len(txt)
             room   == IF newlen >= b.size THEN NewBufsize(b, newlen) ELSE b
  <1>1. b.len \in Nat /\ b.size \in Nat /\ Len(txt) \in Nat /\ newlen \in Nat
    BY DEF Good, InBounds
  <1>2. HasRoom(room, Len(txt)) /\ Holds(room, b)
    <2>1. CASE newlen >= b.size
      <3>1. newlen + Extra + 1 \in Nat /\ b.len < newlen + Extra + 1
            /\ newlen < newlen + Extra + 1
        BY <1>1, ExtraAssumption
      <3>2. room = Resized(b, newlen + Extra + 1)
        BY <2>1 DEF NewBufsize
      <3> HIDE DEF room
      <3> QED
        BY <3>1, <3>2, ResizedGood, ResizedHolds DEF HasRoom
    <2>2. CASE ~(newlen >= b.size)
      BY <1>1, <2>2 DEF HasRoom, Holds
    <2> QED
      BY <2>1, <2>2
  <1> HIDE DEF room
  <1>3. Text(AddAll(room, txt)) = Text(b) \o txt
    BY <1>2, AddAllText
  <1> QED
    BY <1>3, AllocatedGives DEF AddDigits, room

LEMMA PrependGives ==
  ASSUME NEW b, Good(b), NEW S, NEW txt \in Seq(S)
  PROVE  Gives(Prepend(b, txt, TRUE), txt \o Text(b))
  <1> DEFINE k    == Len(txt)
             s    == Text(b)
             room == Room(b, k)
             up   == Put(room.mem, k + 1, s)
             mem  == Put(up, 1, txt)
             r    == Ended(room, mem, b.len + k)
  <1>1. k \in Nat /\ b.len \in Nat
    BY DEF Good, InBounds
  <1>2. s \in Seq({b.mem[i] : i \in 1 .. b.len}) /\ Len(s) = b.len
    BY <1>1, TextIs
  <1>3. CASE txt = <<>>
    BY <1>3, NothingToAdd DEF Prepend, Returns, Gives
  <1>4. CASE txt # <<>>
    <2>1. /\ room.size \in Nat /\ room.len = b.len /\ room.len + k < room.size
          /\ DOMAIN room.mem = 1 .. room.size
      BY <1>1, RoomGood DEF HasRoom, Good, InBounds
    <2> HIDE DEF k, s, room
    <2>2. /\ DOMAIN up = 1 .. room.size
          /\ \A i \in 1 .. room.size : up[i] = IF i >= k + 1 /\ i < k + 1 + Len(s)
                                               THEN s[i - (k + 1) + 1] ELSE room.mem[i]
      <3> DEFINE first == k + 1
      <3>1. /\ first \in Nat \ {0} /\ first + Len(s) <= room.size + 1 /\ Len(s) \in Nat
            /\ up = Put(room.mem, first, s)
            /\ room.size \in Nat /\ DOMAIN room.mem = 1 .. room.size
        BY <1>1, <1>2, <2>1
      <3> HIDE DEF first, up
      <3>2. /\ DOMAIN up = 1 .. room.size
            /\ \A i \in 1 .. room.size : up[i] = IF i >= first /\ i < first + Len(s)
                                                 THEN s[i - first + 1] ELSE room.mem[i]
        BY <3>1 DEF Put
      <3> QED
        BY <3>2 DEF first
    <2> HIDE DEF up
    <2>3. /\ DOMAIN mem = 1 .. room.size
          /\ \A i \in 1 .. room.size : mem[i] = IF i >= 1 /\ i < 1 + k
                                                THEN txt[i - 1 + 1] ELSE up[i]
      <3> DEFINE first == 1
      <3>1. /\ first \in Nat \ {0} /\ first + Len(txt) <= room.size + 1 /\ Len(txt) \in Nat
            /\ mem = Put(up, first, txt)
            /\ room.size \in Nat /\ DOMAIN up = 1 .. room.size
        BY <1>1, <2>1, <2>2 DEF k
      <3> HIDE DEF first, mem
      <3>2. /\ DOMAIN mem = 1 .. room.size
            /\ \A i \in 1 .. room.size : mem[i] = IF i >= first /\ i < first + Len(txt)
                                                  THEN txt[i - first + 1] ELSE up[i]
        BY <3>1 DEF Put
      <3> QED
        BY <3>2 DEF first, k
    <2> HIDE DEF mem
    <2>4. r.len = b.len + k /\ \A i \in 1 .. b.len + k : r.mem[i] = mem[i]
      <3>1. 1 .. b.len + k \subseteq DOMAIN mem /\ b.len + k \in Nat
        BY <1>1, <2>1, <2>3
      <3> QED
        BY <3>1, EndedMem
    <2> HIDE DEF r
    <2>5. ASSUME NEW i \in 1 .. k
          PROVE  r.mem[i] = txt[i]
      <3>1. i \in 1 .. b.len + k /\ i \in 1 .. room.size /\ i >= 1 /\ i < 1 + k /\ i - 1 + 1 = i
        BY <1>1, <2>1
      <3> QED
        BY <2>3, <2>4, <3>1
    <2>6. ASSUME NEW i \in 1 .. Len(s)
          PROVE  r.mem[k + i] = s[i]
      <3>1. /\ k + i \in 1 .. b.len + k /\ k + i \in 1 .. room.size /\ ~(k + i < 1 + k)
            /\ k + i >= k + 1 /\ k + i < k + 1 + Len(s) /\ (k + i) - (k + 1) + 1 = i
        BY <1>1, <1>2, <2>1, SMTT(30)
      <3> QED
        BY <2>2, <2>3, <2>4, <3>1
    <2>7. r.len = Len(txt) + Len(s)
      BY <1>1, <1>2, <2>4 DEF k
    <2>8. Text(r) = txt \o s
      BY <1>2, <2>5, <2>6, <2>7, TextIsJoin, ZenonT(40) DEF k
    <2>9. Prepend(b, txt, TRUE) = Allocated(b, room, TRUE, r)
      BY <1>4 DEF Prepend, r, mem, up, room, s, k
    <2> QED
      BY <2>8, <2>9, AllocatedGives DEF s
  <1> QED
    BY <1>3, <1>4

LEMMA InsertGives ==
  ASSUME NEW b, Good(b), NEW S, NEW txt \in Seq(S), NEW n \in Nat, n <= b.len
  PROVE  Gives(Insert(b, txt, n, TRUE),
               SubSeq(Text(b), 1, n) \o txt \o SubSeq(Text(b), n + 1, Len(Text(b))))
  <1> DEFINE k     == Len(txt)
             s     == Text(b)
             front == SubSeq(s, 1, n)
             back  == SubSeq(s, n + 1, b.len)
             room  == WithSize(b, b.len + k + 1)
             up    == Put(room.mem, n + k + 1, back)
             mem   == Put(up, n + 1, txt)
             r     == Ended(room, mem, b.len + k)
             C     == {b.mem[i] : i \in 1 .. b.len}
  <1>1. k \in Nat /\ b.len \in Nat
    BY DEF Good, InBounds
  <1>2. s \in Seq(C) /\ Len(s) = b.len /\ \A i \in 1 .. b.len : s[i] = b.mem[i]
    BY <1>1, TextIs
  <1> HIDE DEF C
  <1>3. \A i \in 1 .. Len(s) : s[i] \in C
    BY <1>2, ElementOfSeq
  <1>4. /\ front \in Seq(C)
        /\ Len(front) = n
        /\ \A i \in 1 .. n : front[i] = s[i]
    <2> HIDE DEF s
    <2>1. 1 \in Int /\ n \in Int /\ \A i \in 1 .. n : s[i] \in C
      BY <1>1, <1>2, <1>3
    <2>2. /\ front \in Seq(C) /\ Len(front) = IF 1 <= n THEN n - 1 + 1 ELSE 0
          /\ \A i \in 1 .. n - 1 + 1 : front[i] = s[1 + i - 1]
      BY <2>1, SubSeqProperties
    <2> QED
      BY <2>2
  <1>5. /\ back \in Seq(C) /\ Len(back) = b.len - n
        /\ \A i \in 1 .. b.len - n : back[i] = s[n + i]
    <2> HIDE DEF s
    <2>1. n + 1 \in Int /\ b.len \in Int /\ \A i \in n + 1 .. b.len : s[i] \in C
      BY <1>1, <1>2, <1>3
    <2>2. /\ back \in Seq(C) /\ Len(back) = IF n + 1 <= b.len THEN b.len - (n + 1) + 1 ELSE 0
          /\ \A i \in 1 .. b.len - (n + 1) + 1 : back[i] = s[(n + 1) + i - 1]
      BY <2>1, SubSeqProperties
    <2>3. \A i \in 1 .. b.len - n : (n + 1) + i - 1 = n + i
      BY <1>1
    <2> QED
      BY <1>1, <2>2, <2>3
  <1> HIDE DEF front, back
  <1>6. front \in Seq(C) /\ back \in Seq(C)
    BY <1>4, <1>5
  <1>7. CASE txt = <<>>
    <2>1. front \o txt = front
      BY <1>4, <1>7, ConcatEmptySeq
    <2>2. Text(b) = front \o back
      <3>1. b.len = Len(front) + Len(back)
        BY <1>1, <1>4, <1>5
      <3>2. ASSUME NEW i \in 1 .. Len(front)
            PROVE  b.mem[i] = front[i]
        <4>1. i \in 1 .. n /\ i \in 1 .. b.len
          BY <1>1, <1>4
        <4> HIDE DEF s
        <4> QED
          BY <1>2, <1>4, <4>1
      <3>3. ASSUME NEW i \in 1 .. Len(back)
            PROVE  b.mem[Len(front) + i] = back[i]
        <4>1. i \in 1 .. b.len - n /\ n + i \in 1 .. b.len /\ Len(front) + i = n + i
          BY <1>1, <1>4, <1>5
        <4> HIDE DEF s
        <4> QED
          BY <1>2, <1>5, <4>1
      <3> QED
        BY <1>6, <3>1, <3>2, <3>3, TextIsJoin
    <2> QED
      BY <1>2, <1>7, <2>1, <2>2 DEF Insert, Returns, Gives, front, back
  <1>8. CASE txt # <<>>
    <2>1. /\ room.size \in Nat /\ room.len = b.len /\ b.len + k < room.size
          /\ DOMAIN room.mem = 1 .. room.size
          /\ \A i \in 1 .. b.len : room.mem[i] = b.mem[i]
      BY <1>1, WithSizeRoom, WithSizeHolds DEF HasRoom, Good, InBounds, Holds
    <2> HIDE DEF k, s, room
    <2>2. /\ DOMAIN up = 1 .. room.size
          /\ \A i \in 1 .. room.size :
               up[i] = IF i >= n + k + 1 /\ i < n + k + 1 + Len(back)
                       THEN back[i - (n + k + 1) + 1] ELSE room.mem[i]
      <3> DEFINE first == n + k + 1
      <3>1. /\ first \in Nat \ {0} /\ first + Len(back) <= room.size + 1 /\ Len(back) \in Nat
            /\ up = Put(room.mem, first, back)
            /\ room.size \in Nat /\ DOMAIN room.mem = 1 .. room.size
        BY <1>1, <1>5, <2>1, SMTT(30)
      <3> HIDE DEF first, up
      <3>2. /\ DOMAIN up = 1 .. room.size
            /\ \A i \in 1 .. room.size : up[i] = IF i >= first /\ i < first + Len(back)
                                                 THEN back[i - first + 1] ELSE room.mem[i]
        BY <3>1 DEF Put
      <3> QED
        BY <3>2 DEF first
    <2> HIDE DEF up
    <2>3. /\ DOMAIN mem = 1 .. room.size
          /\ \A i \in 1 .. room.size : mem[i] = IF i >= n + 1 /\ i < n + 1 + k
                                                THEN txt[i - (n + 1) + 1] ELSE up[i]
      <3> DEFINE first == n + 1
      <3>1. /\ first \in Nat \ {0} /\ first + Len(txt) <= room.size + 1 /\ Len(txt) \in Nat
            /\ mem = Put(up, first, txt)
            /\ room.size \in Nat /\ DOMAIN up = 1 .. room.size
        BY <1>1, <2>1, <2>2 DEF k
      <3> HIDE DEF first, mem
      <3>2. /\ DOMAIN mem = 1 .. room.size
            /\ \A i \in 1 .. room.size : mem[i] = IF i >= first /\ i < first + Len(txt)
                                                  THEN txt[i - first + 1] ELSE up[i]
        BY <3>1 DEF Put
      <3> QED
        BY <3>2 DEF first, k
    <2> HIDE DEF mem
    <2>4. r.len = b.len + k /\ \A i \in 1 .. b.len + k : r.mem[i] = mem[i]
      <3>1. 1 .. b.len + k \subseteq DOMAIN mem /\ b.len + k \in Nat
        BY <1>1, <2>1, <2>3
      <3> QED
        BY <3>1, EndedMem
    <2> HIDE DEF r
    <2> DEFINE half == front \o txt
    <2>5. /\ half \in Seq(C \cup S)
           /\ Len(half) = Len(front) + Len(txt)
           /\ \A i \in 1 .. Len(front) + Len(txt) :
                half[i] = IF i <= Len(front) THEN front[i] ELSE txt[i - Len(front)]
      BY <1>6, Join
    <2> HIDE DEF half
    <2>6. half \in Seq(C \cup S)
      BY <2>5
    <2>7. /\ Len(half) = n + k
          /\ \A i \in 1 .. n + k : half[i] = IF i <= n THEN front[i] ELSE txt[i - n]
      BY <1>4, <2>5 DEF k
    <2>8. \A i \in 1 .. b.len : s[i] = b.mem[i]
      BY <1>2 DEF s
    <2>9. ASSUME NEW i \in 1 .. n + k
          PROVE  r.mem[i] = half[i]
      <3>1. i \in 1 .. b.len + k /\ i \in 1 .. room.size /\ ~(i >= n + k + 1)
        BY <1>1, <2>1
      <3>2. CASE i <= n
        <4>1. ~(i >= n + 1) /\ i \in 1 .. n /\ i \in 1 .. b.len
          BY <1>1, <3>2
        <4> QED
          BY <1>4, <2>1, <2>2, <2>3, <2>4, <2>7, <2>8, <3>1, <3>2, <4>1
      <3>3. CASE ~(i <= n)
        <4>1. i >= n + 1 /\ i < n + 1 + k /\ i - (n + 1) + 1 = i - n
          BY <1>1, <3>3
        <4> QED
          BY <2>3, <2>4, <2>7, <3>1, <3>3, <4>1
      <3> QED
        BY <3>2, <3>3
    <2>10. ASSUME NEW i \in 1 .. Len(back)
          PROVE  r.mem[Len(half) + i] = back[i]
      <3>1. Len(back) = b.len - n /\ k \in Nat /\ b.len \in Nat /\ room.size \in Nat
            /\ b.len + k < room.size
        BY <1>1, <1>5, <2>1
      <3> DEFINE l == b.len
                 z == room.size
      <3> HIDE DEF l, z
      <3>2. /\ n + k + i \in 1 .. b.len + k /\ n + k + i \in 1 .. room.size
            /\ n + k + i >= n + k + 1 /\ n + k + i < n + k + 1 + Len(back)
            /\ (n + k + i) - (n + k + 1) + 1 = i
            /\ ~(n + k + i < n + 1 + k)
        BY <3>1, SMTT(30)
      <3> QED
        BY <2>2, <2>3, <2>4, <2>7, <3>2, ZenonT(40)
    <2>11. r.len = Len(half) + Len(back)
      BY <1>1, <1>5, <2>4, <2>7
    <2>12. Text(r) = half \o back
      <3>1. \A i \in 1 .. Len(half) : r.mem[i] = half[i]
        BY <2>7, <2>9
      <3> QED
        BY <1>6, <2>6, <3>1, <2>10, <2>11, TextIsJoin
    <2>13. Insert(b, txt, n, TRUE) = Allocated(b, room, TRUE, r)
      <3>1. (IF n < b.len THEN n ELSE b.len) = n
        BY <1>1
      <3> QED
        BY <1>8, <3>1 DEF Insert, r, mem, up, room, back, s, k
    <2> QED
      BY <1>2, <2>12, <2>13, AllocatedGives DEF half, front, back, s
  <1> QED
    BY <1>7, <1>8

\* A print that was given enough, and one into what there is.
LEMMA AddVaListGives ==
  ASSUME NEW b, Good(b), NEW S, NEW txt \in Seq(S), NEW n \in Nat, Len(txt) <= n, NEW again,
         NEW okAgain
  PROVE  Gives(AddVaList(b, txt, n, again, TRUE, okAgain), Text(b) \o txt)
  <1> DEFINE room == WithSize(b, b.len + n + 2)
             r    == AddVaList(b, txt, n, again, TRUE, okAgain)
  <1>1. Len(txt) \in Nat /\ b.len \in Nat /\ n + 1 \in Nat
    BY DEF Good, InBounds
  <1>2. Len(txt) \in Nat /\ b.len \in Nat /\ n + 1 \in Nat /\ b.len + (n + 1) + 1 = b.len + n + 2
    BY <1>1, OneAndOne
  <1>3. HasRoom(room, n + 1) /\ room.len = b.len /\ Holds(room, b)
    BY <1>2, WithSizeRoom, WithSizeHolds
  <1>4. Len(txt) < room.size - room.len
        => r = Returns("ok", Printed(room, txt))
    BY DEF AddVaList
  <1> HIDE DEF room, r
  <1>5. room.size \in Nat /\ Len(txt) < room.size - room.len /\ HasRoom(room, Len(txt))
    BY <1>2, <1>3, SMTT(30) DEF HasRoom, Good, InBounds
  <1>6. Text(AddAll(room, txt)) = Text(b) \o txt
    BY <1>3, <1>5, AddAllText
  <1> QED
    <2>1. Printed(room, txt) = AddAll(room, txt)
      BY <1>5 DEF Printed
    <2>2. Gives(r, Text(b) \o txt)
      BY <1>4, <1>5, <1>6, <2>1 DEF Gives, Returns
    <2> QED
      BY <2>2 DEF r

LEMMA AddVaFixedGives ==
  ASSUME NEW b, Good(b), NEW S, NEW txt \in Seq(S), AddVaFixed(b, txt).ret = "ok"
  PROVE  Gives(AddVaFixed(b, txt), Text(b) \o txt)
  <1>1. b.len \in Nat /\ b.size \in Nat /\ Len(txt) \in Nat
    BY DEF Good, InBounds
  <1>2. Len(txt) < b.size - b.len /\ AddVaFixed(b, txt) = Returns("ok", AddAll(b, txt))
    BY DEF AddVaFixed, Returns, Printed
  <1>3. HasRoom(b, Len(txt)) /\ Holds(b, b)
    BY <1>1, <1>2 DEF HasRoom, Holds
  <1> QED
    BY <1>2, <1>3, AddAllText DEF Gives, Returns

LEMMA QuotientUnique ==
  ASSUME NEW n \in Nat, NEW p \in Nat, NEW q \in Nat, NEW r \in 0 .. n - 1,
         NEW s \in 0 .. n - 1, p * n + r = q * n + s
  PROVE  r = s
  <1>1. ASSUME NEW u \in Nat, NEW v \in Nat, NEW x \in 0 .. n - 1, NEW y \in 0 .. n - 1,
               u < v, u * n + x = v * n + y
        PROVE  FALSE
    <2>1. PICK k \in Nat : v = u + 1 + k
      <3>1. v - u - 1 \in Nat /\ v = u + 1 + (v - u - 1)
        BY <1>1
      <3> QED
        BY <3>1
    <2>2. v * n = u * n + n + k * n /\ u * n \in Nat /\ k * n \in Nat
      BY <2>1
    <2> QED
      BY <1>1, <2>2
  <1>2. ~(p < q) /\ ~(q < p)
    BY <1>1
  <1>3. p = q /\ p * n \in Nat
    BY <1>2
  <1> QED
    BY <1>3

LEMMA ModAgain ==
  ASSUME NEW n \in Nat, n > 0, NEW x \in Nat
  PROVE  /\ x % n \in 0 .. n - 1
         /\ x < n => x % n = x
         /\ (x + n) % n = x % n
  <1> DEFINE q == x \div n
             r == x % n
             y == x + n
             p == y \div n
             t == y % n
  <1>1. q \in Nat /\ r \in 0 .. n - 1 /\ x = q * n + r
    OBVIOUS
  <1>2. x < n => r = x
    OBVIOUS
  <1>3. p \in Nat /\ t \in 0 .. n - 1 /\ y = p * n + t
    <2>1. y \in Nat
      OBVIOUS
    <2> HIDE DEF y
    <2> QED
      BY <2>1
  <1> HIDE DEF q, r, p, t
  <1>4. (q + 1) * n + r = p * n + t /\ q + 1 \in Nat
    <2>1. (q + 1) * n = q * n + n /\ q * n \in Nat /\ p * n \in Nat
      BY <1>1, <1>3
    <2> QED
      BY <1>1, <1>3, <2>1
  <1>5. r = t
    BY <1>1, <1>3, <1>4, QuotientUnique
  <1> QED
    BY <1>1, <1>2, <1>5 DEF r, t

\* Multiplying repeats the text; what was reserved is enough for all of it, so
\* the memory the copies are taken from stays where it is.
LEMMA MultiplyGives ==
  ASSUME NEW b, Good(b), NEW num \in Nat
  PROVE  Gives(Multiply(b, num, TRUE),
               [i \in 1 .. Len(Text(b)) * (IF num = 0 THEN 1 ELSE num) |->
                  Text(b)[((i - 1) % Len(Text(b))) + 1]])
  <1> DEFINE len    == b.len
             s      == Text(b)
             all    == len * (IF num = 0 THEN 1 ELSE num)
             size   == len * num
             more   == len * (num - 1)
             room   == WithSize(b, size + 1)
             grown  == Room(room, more)
             copies == [i \in 1 .. more |->
                          IF grown.size = room.size THEN b.mem[((i - 1) % b.len) + 1] ELSE Junk]
             done   == IF num <= 1 \/ len = 0 THEN room ELSE AddAll(grown, copies)
             told   == [i \in 1 .. all |-> s[((i - 1) % len) + 1]]
  <1>1. /\ len \in Nat /\ size \in Nat /\ all \in Nat
        /\ num > 1 => more \in Nat /\ len + more = size /\ all = size
        /\ num <= 1 => all = len
        /\ len = 0 => all = 0
    <2>1. len \in Nat
      BY DEF Good, InBounds
    <2> HIDE DEF len
    <2>2. len * 1 = len /\ 0 * num = 0 /\ 0 * 1 = 0
      BY <2>1
    <2>3. CASE num = 0
      BY <2>1, <2>2, <2>3, TimesNat
    <2>4. CASE num = 1
      BY <2>1, <2>2, <2>4, TimesNat
    <2>5. CASE num > 1
      <3>1. all = size /\ (len = 0 => size = 0)
        BY <2>2, <2>5
      <3>2. size \in Nat /\ more \in Nat /\ len + more = size
        BY <2>1, <2>5, TimesNat
      <3> HIDE DEF all, size, more
      <3> QED
        BY <2>1, <2>5, <3>1, <3>2
    <2> QED
      BY <2>3, <2>4, <2>5
  <1>2. Len(s) = len /\ \A i \in 1 .. len : s[i] = b.mem[i]
    BY <1>1, TextIs
  <1>3. Multiply(b, num, TRUE) = Allocated(b, room, TRUE, done)
    BY DEF Multiply
  <1> HIDE DEF all, size, more, s
  <1>4. Holds(room, b) /\ Good(room) /\ (num > 1 => room.size > size)
    <2>1. CASE len <= size
      <3>1. size - len \in Nat /\ len + (size - len) + 1 = size + 1
        BY <1>1, <2>1
      <3>2. HasRoom(room, size - len) /\ room.len = len /\ Holds(room, b)
        BY <3>1, WithSizeRoom, WithSizeHolds
      <3> HIDE DEF room
      <3> QED
        BY <1>1, <3>1, <3>2 DEF HasRoom, Good, InBounds
    <2>2. CASE size < len
      <3>1. num <= 1
        BY <1>1, <2>2
      <3>2. size + 1 <= b.size
        BY <1>1, <2>2 DEF Good, InBounds, IsNull
      <3>3. room = b
        BY <3>2 DEF WithSize
      <3> QED
        BY <3>1, <3>3 DEF Holds
    <2> QED
      BY <1>1, <2>1, <2>2
  <1>5. done.len = all /\ \A i \in 1 .. all : done.mem[i] = s[((i - 1) % len) + 1]
    <2>1. CASE num <= 1 \/ len = 0
      <3>1. done = room /\ all = len
        BY <1>1, <2>1
      <3>2. ASSUME NEW i \in 1 .. all
            PROVE  room.mem[i] = s[((i - 1) % len) + 1]
        <4>1. i - 1 \in Nat /\ i - 1 < len /\ len > 0 /\ i \in 1 .. len /\ (i - 1) + 1 = i
          BY <1>1, <3>1
        <4>2. (i - 1) % len = i - 1
          <5> DEFINE x == i - 1
          <5>1. x \in Nat /\ x < len
            BY <4>1
          <5> HIDE DEF x, len
          <5>2. x % len = x
            BY <1>1, <4>1, <5>1, ModAgain
          <5> QED
            BY <5>2 DEF x
        <4> HIDE DEF len, room
        <4> QED
          BY <1>2, <1>4, <4>1, <4>2 DEF Holds, len
      <3> QED
        BY <1>4, <3>1, <3>2 DEF Holds
    <2>2. CASE num > 1 /\ len > 0
      <3>1. more \in Nat /\ len + more = size /\ all = size
        BY <1>1, <2>2
      <3>2. room.len = len /\ room.size \in Nat /\ room.size - room.len >= more + 1
        BY <1>1, <1>4, <2>2, <3>1 DEF Holds, Good, InBounds
      <3>3. grown = room
        <4> DEFINE l == room.len
                   z == room.size
        <4>1. l \in Nat /\ z \in Nat /\ z - l >= more + 1
          BY <1>1, <3>2
        <4> HIDE DEF l, z
        <4>2. ~(z - l < more + 1)
          BY <3>1, <4>1
        <4> HIDE DEF room, len
        <4> QED
          BY <4>2 DEF Room, l, z
      <3> HIDE DEF len, room, grown
      <3>4. Len(copies) = more /\ \A i \in 1 .. more : copies[i] = b.mem[((i - 1) % len) + 1]
        BY <3>1, <3>3 DEF len
      <3>5. done = AddAll(room, copies)
        BY <1>1, <2>2, <3>3
      <3> HIDE DEF copies, done
      <3>6. HasRoom(room, Len(copies))
        BY <1>1, <1>4, <3>1, <3>2, <3>4 DEF HasRoom
      <3>7. /\ done.len = len + more
            /\ \A i \in 1 .. len : done.mem[i] = b.mem[i]
            /\ \A i \in 1 .. more : done.mem[len + i] = copies[i]
        <4>1. /\ AddAll(room, copies).len = b.len + Len(copies)
              /\ \A i \in 1 .. b.len : AddAll(room, copies).mem[i] = b.mem[i]
              /\ \A i \in 1 .. Len(copies) : AddAll(room, copies).mem[b.len + i] = copies[i]
          BY <1>4, <3>1, <3>4, <3>6, AddAllMem, SMTT(30)
        <4> QED
          BY <3>4, <3>5, <4>1 DEF len
      <3>8. ASSUME NEW i \in 1 .. all
            PROVE  done.mem[i] = s[((i - 1) % len) + 1]
        <4>1. CASE i <= len
          <5> DEFINE x == i - 1
          <5>1. x \in Nat /\ x < len /\ i \in 1 .. len /\ x + 1 = i
            BY <1>1, <4>1
          <5> HIDE DEF x
          <5>2. x % len = x
            BY <1>1, <2>2, <5>1, ModAgain
          <5>3. done.mem[i] = s[(x % len) + 1]
            BY <1>2, <3>7, <5>1, <5>2
          <5> QED
            BY <5>3 DEF x
        <4>2. CASE ~(i <= len)
          <5> DEFINE j == i - len
                     x == j - 1
                     k == (x % len) + 1
          <5>1. j \in 1 .. more /\ len + j = i /\ x \in Nat /\ x + len = i - 1
            BY <1>1, <3>1, <4>2
          <5>2. done.mem[i] = b.mem[k]
            <6> HIDE DEF j
            <6> QED
              BY <3>4, <3>7, <5>1
          <5>3. (x + len) % len = x % len /\ x % len \in 0 .. len - 1
            <6> HIDE DEF x
            <6> QED
              BY <1>1, <2>2, <5>1, ModAgain
          <5>4. k \in 1 .. len
            BY <1>1, <5>3
          <5> HIDE DEF x
          <5>5. ((i - 1) % len) + 1 = k
            BY <5>1, <5>3
          <5> HIDE DEF k
          <5> QED
            BY <1>2, <5>2, <5>4, <5>5
        <4> QED
          BY <4>1, <4>2
      <3> QED
        BY <3>1, <3>7, <3>8
    <2>3. (num <= 1 \/ len = 0) \/ (num > 1 /\ len > 0)
      BY <1>1
    <2> HIDE DEF done, len, all, s
    <2> QED
      BY ONLY <2>1, <2>2, <2>3
  <1> HIDE DEF done, room, len
  <1>6. Text(done) = told
    BY <1>5 DEF Text
  <1>7. Gives(Multiply(b, num, TRUE), told)
    <2> HIDE DEF told
    <2>1. Gives(Allocated(b, room, TRUE, done), told)
      BY <1>6, AllocatedGives
    <2> QED
      BY <1>3, <2>1
  <1> QED
    BY <1>2, <1>7 DEF all, s

\* What is left when the n octets behind from are taken out of len.
Left(len, from, n) == {i \in 1 .. len : i <= from \/ i > from + n}

LEMMA AllLeft ==
  ASSUME NEW len \in Nat, NEW from \in Int, NEW n \in Nat, from >= len
  PROVE  Cardinality(Left(len, from, n)) = len
  <1>1. Left(len, from, n) = 1 .. len
    BY DEF Left
  <1>2. Cardinality(1 .. len) = IF 1 > len THEN 0 ELSE len - 1 + 1
    BY FS_Interval
  <1> QED
    BY <1>1, <1>2

LEMMA SomeLeft ==
  ASSUME NEW len \in Nat, NEW from \in Int, NEW n \in Nat, 0 <= from, from + n <= len
  PROVE  Cardinality(Left(len, from, n)) = len - n
  <1> DEFINE A == 1 .. from
             k == from + n + 1
             B == k .. len
  <1>1. Left(len, from, n) = A \cup B /\ A \cap B = {} /\ k \in Int
    BY DEF Left
  <1>2. IsFiniteSet(A) /\ Cardinality(A) = IF 1 > from THEN 0 ELSE from - 1 + 1
    BY FS_Interval
  <1>3. IsFiniteSet(B) /\ Cardinality(B) = IF k > len THEN 0 ELSE len - k + 1
    <2> HIDE DEF k
    <2> QED
      BY <1>1, FS_Interval
  <1>4. Cardinality(A) = from /\ Cardinality(B) = len - (from + n)
    BY <1>2, <1>3
  <1> HIDE DEF A, B
  <1>5. Cardinality(A \cup B) = Cardinality(A) + Cardinality(B) - Cardinality({})
    BY <1>1, <1>2, <1>3, FS_Union
  <1>6. Cardinality({}) = 0
    BY FS_EmptySet
  <1>7. Cardinality(Left(len, from, n)) = from + (len - (from + n)) - 0
    BY <1>1, <1>4, <1>5, <1>6
  <1> QED
    BY <1>7

LEMMA NoneLeft ==
  ASSUME NEW len \in Nat, NEW from \in Int, NEW n \in Nat, from <= 0, from + n >= len
  PROVE  Cardinality(Left(len, from, n)) = 0
  <1>1. Left(len, from, n) = {}
    BY DEF Left
  <1> QED
    BY <1>1, FS_EmptySet

\* r holds what is left of b.
LEMMA TextWithout ==
  ASSUME NEW b, Good(b), NEW from \in Int, NEW n \in Nat, NEW r,
         \/ from >= b.len /\ r.len = b.len
         \/ 0 <= from /\ from + n <= b.len /\ r.len = b.len - n
         \/ from <= 0 /\ from + n >= b.len /\ r.len = 0,
         \A i \in 1 .. r.len : r.mem[i] = b.mem[IF i <= from THEN i ELSE i + n]
  PROVE  Text(r) = Without(Text(b), from, n)
  <1> DEFINE s    == Text(b)
             len  == b.len
             left == {i \in DOMAIN s : i <= from \/ i > from + n}
             c    == Cardinality(left)
  <1>1. len \in Nat
    BY DEF Good, InBounds
  <1>2. /\ DOMAIN s = 1 .. len
        /\ \A i \in 1 .. len : s[i] = b.mem[i]
    BY DEF Text
  <1>3. Without(s, from, n) = [i \in 1 .. c |-> s[IF i <= from THEN i ELSE i + n]]
    BY DEF Without
  <1>4. /\ from >= len => c = len
        /\ 0 <= from /\ from + n <= len => c = len - n
        /\ from <= 0 /\ from + n >= len => c = 0
    <2>1. left = Left(len, from, n)
      BY <1>2 DEF Left
    <2> HIDE DEF len, left
    <2>2. from >= len => Cardinality(Left(len, from, n)) = len
      BY <1>1, AllLeft
    <2>3. 0 <= from /\ from + n <= len => Cardinality(Left(len, from, n)) = len - n
      BY <1>1, SomeLeft
    <2>4. from <= 0 /\ from + n >= len => Cardinality(Left(len, from, n)) = 0
      BY <1>1, NoneLeft
    <2> QED
      BY <2>1, <2>2, <2>3, <2>4
  <1> HIDE DEF c
  <1>5. r.len = c /\ c \in 0 .. len /\ \A i \in 1 .. c : (IF i <= from THEN i ELSE i + n) \in 1 .. len
    <2>1. CASE from >= len /\ r.len = len
      BY <1>1, <1>4, <2>1
    <2>2. CASE 0 <= from /\ from + n <= len /\ r.len = len - n
      <3> HIDE DEF len
      <3> QED
        BY <1>1, <1>4, <2>2
    <2>3. CASE from <= 0 /\ from + n >= len /\ r.len = 0
      BY <1>1, <1>4, <2>3
    <2> QED
      BY <2>1, <2>2, <2>3
  <1> HIDE DEF s, len
  <1>6. \A i \in 1 .. c : r.mem[i] = s[IF i <= from THEN i ELSE i + n]
    BY <1>2, <1>5
  <1>7. Text(r) = [i \in 1 .. c |-> s[IF i <= from THEN i ELSE i + n]]
    BY <1>5, <1>6 DEF Text
  <1>8. Text(r) = Without(s, from, n)
    BY <1>3, <1>7
  <1> QED
    BY <1>8 DEF s

LEMMA MovedMem ==
  ASSUME NEW b, Good(b), NEW from \in Nat, NEW n \in Nat, from < b.len, from + n <= b.len
  PROVE  LET r == Moved(b, from, from + n, b.len - n)
         IN  /\ r.len = b.len - n
             /\ \A i \in 1 .. r.len : r.mem[i] = b.mem[IF i <= from THEN i ELSE i + n]
  <1> DEFINE r == Moved(b, from, from + n, b.len - n)
             l == b.len
             z == b.size
  <1>1. l \in Nat /\ z \in Nat /\ DOMAIN b.mem = 1 .. z /\ l < z
    BY DEF Good, InBounds, IsNull
  <1>2. r.len = l - n
    BY DEF Moved
  <1>3. ASSUME NEW i \in 1 .. l - n
        PROVE  r.mem[i] = b.mem[IF i <= from THEN i ELSE i + n]
    <2> HIDE DEF l, z
    <2>1. i \in DOMAIN b.mem /\ i + (from + n) - from = i + n /\ i + n <= l + 1 /\ i \in Int
      BY <1>1
    <2> QED
      BY <2>1 DEF Moved, l
  <1> HIDE DEF r
  <1>4. r.len = b.len - n /\ \A i \in 1 .. r.len : r.mem[i] = b.mem[IF i <= from THEN i ELSE i + n]
    BY <1>2, <1>3
  <1> QED
    BY <1>4 DEF r

LEMMA CleanLen ==
  ASSUME NEW b, Good(b)
  PROVE  Clean(b).len = 0
  <1>1. CASE IsNull(b)
    <2>1. b = [mem |-> b.mem, len |-> b.len, size |-> b.size]
      BY DEF Good
    <2>2. Clean(b) = [mem |-> b.mem, len |-> 0, size |-> b.size]
      BY <1>1, <2>1 DEF Clean
    <2> QED
      BY <2>2
  <1>2. CASE ~IsNull(b)
    BY <1>2 DEF Clean, Ended
  <1> QED
    BY <1>1, <1>2

LEMMA RemoveChunkText ==
  ASSUME NEW b, Good(b), b.len < Word, NEW from \in Nat, NEW n \in Nat, Chunk(b, from, n)
  PROVE  Text(RemoveChunk(b, from, n)) = Without(Text(b), from, n)
  <1> DEFINE r == RemoveChunk(b, from, n)
  <1>1. b.len \in Nat /\ from \in Int
    BY DEF Good, InBounds
  <1>2. \/ from >= b.len /\ r = b
        \/ from = 0 /\ from < b.len /\ n >= b.len /\ r = Clean(b)
        \/ from < b.len /\ from + n <= b.len /\ r = Moved(b, from, from + n, b.len - n)
    BY RemoveChunkIs
  <1> HIDE DEF r
  <1>3. CASE from >= b.len /\ r = b
    <2>1. \A i \in 1 .. b.len : i <= from
      BY <1>1, <1>3
    <2>2. \A i \in 1 .. r.len : r.mem[i] = b.mem[IF i <= from THEN i ELSE i + n]
      BY <1>3, <2>1
    <2>3. Text(r) = Without(Text(b), from, n)
      BY <1>1, <1>3, <2>2, TextWithout
    <2> QED
      BY <2>3 DEF r
  <1>4. CASE from = 0 /\ from < b.len /\ n >= b.len /\ r = Clean(b)
    <2>1. r.len = 0 /\ from <= 0 /\ from + n >= b.len
      BY <1>1, <1>4, CleanLen
    <2>2. \A i \in 1 .. r.len : r.mem[i] = b.mem[IF i <= from THEN i ELSE i + n]
      BY <2>1
    <2>3. Text(r) = Without(Text(b), from, n)
      BY <1>1, <2>1, <2>2, TextWithout
    <2> QED
      BY <2>3 DEF r
  <1>5. CASE from < b.len /\ from + n <= b.len /\ r = Moved(b, from, from + n, b.len - n)
    <2>1. /\ r.len = b.len - n
          /\ \A i \in 1 .. r.len : r.mem[i] = b.mem[IF i <= from THEN i ELSE i + n]
      BY <1>5, MovedMem
    <2>2. 0 <= from
      OBVIOUS
    <2>3. Text(r) = Without(Text(b), from, n)
      BY <1>1, <1>5, <2>1, <2>2, TextWithout
    <2> QED
      BY <2>3 DEF r
  <1> QED
    BY <1>2, <1>3, <1>4, <1>5

LEMMA MoveToBeginText ==
  ASSUME NEW b, Good(b), NEW n \in Nat
  PROVE  Text(MoveToBegin(b, n)) = Without(Text(b), 0, n)
  <1> DEFINE r == MoveToBegin(b, n)
  <1>1. b.len \in Nat /\ 0 \in Int
    BY DEF Good, InBounds
  <1>2. r.len = IF n < b.len THEN b.len - n ELSE 0
    BY <1>1, CleanLen DEF MoveToBegin, Moved
  <1>3. \A i \in 1 .. r.len : r.mem[i] = b.mem[IF i <= 0 THEN i ELSE i + n]
    <2>1. CASE n < b.len /\ n > 0
      <3>1. r = Moved(b, 0, 0 + n, b.len - n) /\ 0 < b.len /\ 0 + n <= b.len /\ 0 \in Nat
        BY <1>1, <2>1 DEF MoveToBegin
      <3> HIDE DEF r
      <3> QED
        BY <3>1, MovedMem
    <2>2. CASE n = 0
      <3>1. r = b
        BY <2>2 DEF MoveToBegin
      <3> QED
        BY <1>1, <2>2, <3>1
    <2>3. CASE n > 0 /\ n >= b.len
      BY <1>1, <1>2, <2>3
    <2> QED
      BY <1>1, <2>1, <2>2, <2>3
  <1>4. \/ 0 <= 0 /\ 0 + n <= b.len /\ r.len = b.len - n
        \/ 0 <= 0 /\ 0 + n >= b.len /\ r.len = 0
    BY <1>1, <1>2
  <1> HIDE DEF r
  <1>5. Text(r) = Without(Text(b), 0, n)
    BY <1>1, <1>3, <1>4, TextWithout
  <1> QED
    BY <1>5 DEF r

LEMMA DropEndingText ==
  ASSUME NEW b, Good(b), NEW n \in Nat
  PROVE  Text(DropEnding(b, n)) = Without(Text(b), Len(Text(b)) - n, n)
  <1> DEFINE r    == DropEnding(b, n)
             l    == b.len
             from == l - n
             len  == l - (IF n < l THEN n ELSE l)
  <1>1. l \in Nat /\ from \in Int /\ Len(Text(b)) = l /\ len \in Nat /\ len <= l
    <2>1. l \in Nat
      BY DEF Good, InBounds
    <2>2. Len(Text(b)) = l
      BY <2>1, TextIs
    <2> HIDE DEF l
    <2> QED
      BY <2>1, <2>2
  <1>2. r.len = len /\ \A i \in 1 .. len : r.mem[i] = b.mem[i]
    <2>1. CASE IsNull(b)
      <3>1. l = 0 /\ r = b
        BY <2>1 DEF Good, InBounds, DropEnding
      <3> QED
        BY <3>1
    <2>2. CASE ~IsNull(b)
      <3>1. r = Ended(b, b.mem, len)
        BY <2>2 DEF DropEnding
      <3>2. 1 .. len \subseteq DOMAIN b.mem
        BY <1>1, <2>2 DEF Good, InBounds
      <3> HIDE DEF r, len
      <3> QED
        BY <1>1, <3>1, <3>2, EndedMem
    <2> QED
      BY <2>1, <2>2
  <1>3. \A i \in 1 .. len : i <= from
    BY <1>1
  <1>4. \/ 0 <= from /\ from + n <= l /\ r.len = l - n
        \/ from <= 0 /\ from + n >= l /\ r.len = 0
    <2> HIDE DEF l, r
    <2> QED
      BY <1>1, <1>2
  <1> HIDE DEF r, len, from
  <1>5. \A i \in 1 .. r.len : r.mem[i] = b.mem[IF i <= from THEN i ELSE i + n]
    BY <1>2, <1>3
  <1>6. Text(r) = Without(Text(b), from, n)
    BY <1>1, <1>4, <1>5, TextWithout, ZenonT(40)
  <1> QED
    BY <1>1, <1>6 DEF r, from

\* What is copied of the other is the part of it that was asked for.
LEMMA AddSliceGives ==
  ASSUME NEW b, Good(b), NEW b2, Good(b2), b2.len < Word, NEW begin, NEW end,
         begin # None => begin \in Int /\ begin # 0 /\ begin <= b2.len /\ -begin <= b2.len,
         end # None => end \in Int /\ end # 0 /\ end <= b2.len /\ -end <= b2.len
  PROVE  Gives(AddSlice(b, b2, begin, end, TRUE), Text(b) \o Between(Text(b2), begin, end))
  <1> DEFINE len   == b2.len
             s     == Text(b2)
             At(x) == IF x < 0 THEN len + x ELSE x
             from  == IF begin = None THEN 0 ELSE At(begin)
             to    == IF end = None THEN len ELSE At(end)
             Pos(x) == IF x > 0 THEN x ELSE (len + x) % Word
             stop  == CASE end = None -> len
                        [] end # None -> IF end > 0 THEN end ELSE len + end
             start == CASE begin = None -> 0
                        [] begin # None -> IF begin >= len THEN len
                                           ELSE IF begin >= 0 THEN begin
                                           ELSE IF -begin < len THEN len + begin ELSE 0
             nothing == \/ len = 0
                        \/ begin # None /\ end # None /\ Pos(end) <= Pos(begin)
                        \/ stop < 0 \/ stop > len \/ stop < start
             part  == SubSeq(s, from + 1, to)
             r     == AddSlice(b, b2, begin, end, TRUE)
             C     == {b2.mem[i] : i \in 1 .. len}
  <1>1. len \in Nat /\ Word \in Nat
    BY WordAssumption DEF Good, InBounds
  <1>2. s \in Seq(C) /\ Len(s) = len
    BY <1>1, TextIs
  <1>3. Between(s, begin, end) = part
    BY <1>2 DEF Between
  <1>4. r = IF nothing THEN Returns("ok", b) ELSE Add(b, SubSeq(s, start + 1, stop), TRUE)
    BY DEF AddSlice
  <1> HIDE DEF s, r, C
  <1>5. from \in 0 .. len /\ to \in 0 .. len
    BY <1>1
  <1>6. start = from /\ stop = to
    BY <1>1
  <1>7. ASSUME NEW x \in Int, x # 0, x <= len, -x <= len
        PROVE  Pos(x) = At(x)
    <2> DEFINE y == len + x
    <2>1. y \in Int /\ (x < 0 => y \in Nat /\ y < Word)
      BY <1>1, <1>7
    <2> HIDE DEF y
    <2>2. x < 0 => y % Word = y
      BY <1>1, <2>1
    <2> QED
      BY <1>1, <1>7, <2>2 DEF y
  <1>8. (begin # None => Pos(begin) = from) /\ (end # None => Pos(end) = to)
    BY <1>7
  <1> HIDE DEF start, stop, Pos
  <1>9. nothing => to <= from
    BY <1>1, <1>5, <1>6, <1>8
  <1>10. ~nothing => r = Add(b, part, TRUE)
    BY <1>4, <1>6
  <1>11. nothing => r = Returns("ok", b)
    BY <1>4
  <1> HIDE DEF nothing, from, to
  <1>12. CASE nothing
    <2>1. part = <<>>
      <3>1. from + 1 \in Int /\ to \in Int /\ to < from + 1
        BY <1>1, <1>5, <1>9, <1>12
      <3> QED
        BY <3>1, SubSeqEmpty
    <2> HIDE DEF part
    <2>2. Gives(r, Text(b) \o part)
      BY <1>11, <1>12, <2>1, NothingToAdd DEF Gives, Returns
    <2> QED
      BY <1>3, <2>2 DEF r, s
  <1>13. CASE ~nothing
    <2>1. part \in Seq(C)
      <3>1. from + 1 \in Int /\ to \in Int /\ \A i \in from + 1 .. to : i \in 1 .. Len(s)
        BY <1>1, <1>2, <1>5
      <3>2. \A i \in from + 1 .. to : s[i] \in C
        BY <1>2, <3>1, ElementOfSeq
      <3> QED
        BY <3>1, <3>2, SubSeqProperties
    <2> HIDE DEF part
    <2>2. Gives(r, Text(b) \o part)
      BY <1>10, <1>13, <2>1, AddGives
    <2> QED
      BY <1>3, <2>2 DEF r, s
  <1> QED
    BY <1>12, <1>13

LEMMA ToldForTexts ==
  ASSUME BothGood, NEW t \in Texts, NEW n \in Numbers
  PROVE  /\ Gives(Add(buf, t, TRUE), Text(buf) \o t)
         /\ Gives(AddDigits(buf, t, TRUE), Text(buf) \o t)
         /\ Gives(Prepend(buf, t, TRUE), t \o Text(buf))
         /\ n <= Len(Text(buf)) =>
              Gives(Insert(buf, t, n, TRUE),
                    SubSeq(Text(buf), 1, n) \o t \o SubSeq(Text(buf), n + 1, Len(Text(buf))))
         /\ Len(t) <= n => Gives(AddVaList(buf, t, n, <<>>, TRUE, TRUE), Text(buf) \o t)
         /\ AddVaFixed(buf, t).ret = "ok" => Gives(AddVaFixed(buf, t), Text(buf) \o t)
         /\ Gives(Multiply(buf, n, TRUE),
                  [i \in 1 .. Len(Text(buf)) * (IF n = 0 THEN 1 ELSE n) |->
                     Text(buf)[((i - 1) % Len(Text(buf))) + 1]])
  <1>1. t \in Seq(Octets) /\ n \in Nat /\ Good(buf)
    BY TextsAreSeqs, NumbersAreNat DEF BothGood
  <1>2. buf.len \in Nat /\ Len(Text(buf)) = buf.len
    BY <1>1, LenIsNat, TextIs
  <1>3. Gives(Add(buf, t, TRUE), Text(buf) \o t)
    BY <1>1, AddGives
  <1>4. Gives(AddDigits(buf, t, TRUE), Text(buf) \o t)
    BY <1>1, AddDigitsGives
  <1>5. Gives(Prepend(buf, t, TRUE), t \o Text(buf))
    BY <1>1, PrependGives
  <1>6. ASSUME n <= Len(Text(buf))
        PROVE  Gives(Insert(buf, t, n, TRUE),
                     SubSeq(Text(buf), 1, n) \o t \o SubSeq(Text(buf), n + 1, Len(Text(buf))))
    <2>1. n <= buf.len
      BY <1>2, <1>6
    <2> QED
      BY <1>1, <2>1, InsertGives
  <1>7. ASSUME Len(t) <= n
        PROVE  Gives(AddVaList(buf, t, n, <<>>, TRUE, TRUE), Text(buf) \o t)
    BY <1>1, <1>7, AddVaListGives
  <1>8. AddVaFixed(buf, t).ret = "ok" => Gives(AddVaFixed(buf, t), Text(buf) \o t)
    BY <1>1, AddVaFixedGives
  <1>9. Gives(Multiply(buf, n, TRUE),
              [i \in 1 .. Len(Text(buf)) * (IF n = 0 THEN 1 ELSE n) |->
                 Text(buf)[((i - 1) % Len(Text(buf))) + 1]])
    BY <1>1, MultiplyGives
  <1> QED
    BY <1>3, <1>4, <1>5, <1>6, <1>7, <1>8, <1>9

LEMMA ToldForChunks ==
  ASSUME BothGood, BothShort, MaxLen + 1 < Word, NEW from \in Numbers, NEW n \in Numbers
  PROVE  /\ Chunk(buf, from, n) =>
              Text(RemoveChunk(buf, from, n)) = Without(Text(buf), from, n)
         /\ Text(MoveToBegin(buf, from)) = Without(Text(buf), 0, from)
         /\ Text(DropEnding(buf, n)) = Without(Text(buf), Len(Text(buf)) - n, n)
  <1>1. from \in Nat /\ n \in Nat /\ Good(buf)
    BY NumbersAreNat DEF BothGood
  <1>2. buf.len < Word
    BY <1>1, LenIsNat, TextsAssumption, WordAssumption DEF BothShort
  <1> QED
    BY <1>1, <1>2, RemoveChunkText, MoveToBeginText, DropEndingText

LEMMA ToldForSlices ==
  ASSUME BothGood, BothShort, MaxLen + 1 < Word,
         NEW begin \in Offsets \ {0}, NEW end \in Offsets \ {0},
         \A x \in {begin, end} \ {None} : x <= other.len /\ -x <= other.len
  PROVE  Gives(AddSlice(buf, other, begin, end, TRUE),
               Text(buf) \o Between(Text(other), begin, end))
  <1>1. Good(buf) /\ Good(other) /\ other.len \in Nat
    BY LenIsNat DEF BothGood
  <1>2. other.len < Word
    BY <1>1, TextsAssumption, WordAssumption DEF BothShort
  <1>3. /\ begin # None => begin \in Int /\ begin # 0 /\ begin <= other.len /\ -begin <= other.len
        /\ end # None => end \in Int /\ end # 0 /\ end <= other.len /\ -end <= other.len
    BY TextsAssumption DEF Offsets
  <1> QED
    BY <1>1, <1>2, <1>3, AddSliceGives

\* In every state, with memory, each call makes of the text what it promises:
\* all of what is added in its place, the chunk gone and nothing else, the
\* slice that was asked for, also when the memory had to be grown for it.
THEOREM CallsDoTheirWork == ASSUME MaxLen + 1 < Word PROVE ClientSpec => []CallsDoAsTold
  <1>1. BothGood /\ BothShort /\ [ClientNext]_bvars => BothShort'
    BY StepKept DEF Kept
  <1>2. BothGood /\ BothShort => CallsDoAsTold
    <2> SUFFICES ASSUME BothGood, BothShort
                 PROVE  CallsDoAsTold
      OBVIOUS
    <2> QED
      BY ToldForTexts, ToldForChunks, ToldForSlices DEF CallsDoAsTold, Gives
  <1> QED
    BY <1>1, <1>2, InitGood, StepGood, InitShort, PTL DEF ClientSpec
=============================================================================
