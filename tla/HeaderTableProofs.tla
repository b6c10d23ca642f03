------------------------- MODULE HeaderTableProofs -------------------------
(***************************************************************************)
(* Theorems about the header table, for every value of the constants.      *)
(***************************************************************************)
EXTENDS HeaderTable, TLAPS

(* Arithmetic of the circular buffers. *)

LEMMA ModRange ==
  ASSUME NEW n \in Nat, n > 0, NEW x \in Int
  PROVE  x % n \in 0 .. n - 1
  OBVIOUS

LEMMA DistIs ==
  ASSUME NEW n \in Nat, n > 0, NEW h \in 0 .. n, NEW x \in 0 .. n - 1
  PROVE  Dist(h, x, n) = IF h <= x THEN x - h ELSE x - h + n
  BY DEF Dist

LEMMA DistRange ==
  ASSUME NEW n \in Nat, n > 0, NEW h \in Int, NEW x \in Int
  PROVE  Dist(h, x, n) \in 0 .. n - 1
  BY DEF Dist

LEMMA CbMoveIs ==
  ASSUME NEW n \in Nat, n > 0, NEW x \in 0 .. n - 1, NEW inc \in 0 .. n
  PROVE  CbMove(x, inc, n) = IF x + inc < n THEN x + inc ELSE x + inc - n
  BY DEF CbMove

LEMMA CbMoveRange ==
  ASSUME NEW n \in Nat, n > 0, NEW x \in Int, NEW inc \in Int
  PROVE  CbMove(x, inc, n) \in 0 .. n - 1
  BY DEF CbMove

-----------------------------------------------------------------------------
(* What the assumptions and the type invariant say of the numbers alone. *)

LEMMA Sizes ==
  /\ Entries \in Nat /\ Entries > 1 /\ DataSize \in Nat /\ DataSize > 1
  /\ InfoSize \in Nat /\ InfoSize > 0 /\ Overhead \in Nat /\ InfoSize <= Overhead
  /\ U16 \in Nat /\ DataSize < U16 /\ Horizon \in Nat
  BY SizesAssumption

LEMMA ByteDist ==
  ASSUME NEW h \in Bytes, NEW x \in Bytes
  PROVE  /\ Dist(h, x, DataSize) = IF h <= x THEN x - h ELSE x - h + DataSize
         /\ Dist(h, x, DataSize) \in 0 .. DataSize - 1
<1>1. h \in 0 .. DataSize /\ x \in 0 .. DataSize - 1 /\ DataSize \in Nat /\ DataSize > 0
  BY Sizes DEF Bytes
<1> QED
  BY <1>1, DistIs

LEMMA ByteMove ==
  ASSUME NEW x \in Bytes, NEW inc \in Nat
  PROVE  /\ CbMove(x, inc, DataSize) \in Bytes
         /\ x + inc < DataSize => CbMove(x, inc, DataSize) = x + inc
<1>1. x \in 0 .. DataSize - 1 /\ DataSize \in Nat /\ DataSize > 0
  BY Sizes DEF Bytes
<1> QED
  BY <1>1 DEF Bytes, CbMove

LEMMA SlotDist ==
  ASSUME NEW h \in Slots, NEW x \in Slots
  PROVE  /\ Dist(h, x, Entries) = IF h <= x THEN x - h ELSE x - h + Entries
         /\ Dist(h, x, Entries) \in 0 .. Entries - 1
<1>1. h \in 0 .. Entries /\ x \in 0 .. Entries - 1 /\ Entries \in Nat /\ Entries > 0
  BY Sizes DEF Slots
<1> QED
  BY <1>1, DistIs

LEMMA SlotNext ==
  ASSUME NEW s \in Slots
  PROVE  /\ CbMove(s, 1, Entries) \in Slots
         /\ CbMove(s, 1, Entries) = IF s = Entries - 1 THEN 0 ELSE s + 1
<1>1. s \in 0 .. Entries - 1 /\ 1 \in 0 .. Entries /\ Entries \in Nat /\ Entries > 0
  BY Sizes DEF Slots
<1> QED
  BY <1>1, CbMoveIs DEF Slots

LEMMA Lengths ==
  ASSUME NEW f \in Fields
  PROVE  /\ NameLen[f] \in Nat /\ ValueLen[f] \in Nat
         /\ BodyLen(f) = NameLen[f] + ValueLen[f]
         /\ RecordLen(f) = InfoSize + NameLen[f] + ValueLen[f]
         /\ FieldSize(f) = IF BodyLen(f) = 0 THEN 0 ELSE BodyLen(f) + Overhead
         /\ BodyLen(f) \in Nat /\ RecordLen(f) \in Nat /\ FieldSize(f) \in Nat
<1>1. NameLen[f] \in Nat /\ ValueLen[f] \in Nat
  BY FieldsAssumption
<1> QED
  BY <1>1, Sizes DEF BodyLen, RecordLen, FieldSize

LEMMA Positions ==
  ASSUME TypeOK
  PROVE  /\ offs_head \in 0 .. Entries - 1 /\ offs_tail \in 0 .. Entries - 1
         /\ data_head \in 0 .. DataSize - 1 /\ data_tail \in 0 .. DataSize - 1
         /\ num_headers \in 0 .. Entries - 1
         /\ used_data \in 0 .. U16 - 1 /\ max_data \in 0 .. DataSize
         /\ limit \in 0 .. DataSize /\ stored \in Nat
  BY DEF TypeOK, Slots, Bytes

LEMMA InfoLensType ==
  ASSUME NEW o, NEW n \in InfoLens(o)
  PROVE  n \in Nat
<1>1. \A f \in Fields : BodyLen(f) \in Nat
  BY Lengths
<1>2. GarbageLens \subseteq Nat
  BY FieldsAssumption
<1> QED
  BY <1>1, <1>2 DEF InfoLens

-----------------------------------------------------------------------------
(* Storing a record. *)

LEMMA StoredType ==
  ASSUME TypeOK, NEW f \in Fields
  PROVE  /\ DataFree \in 0 .. DataSize - 1
         /\ InfoStored(f) \in Nat
         /\ NameStored(f) \in Nat
         /\ ValueStored(f) \in Nat
         /\ Stored(f) \in 0 .. DataFree
<1>1. /\ data_tail + 1 \in Int /\ data_head \in Int
      /\ DataSize \in Nat /\ DataSize > 0
  BY Positions, Sizes
<1>2. DataFree \in 0 .. DataSize - 1
  BY <1>1, DistRange DEF DataFree
<1> QED
  BY <1>2, Sizes, Lengths DEF InfoStored, NameStored, ValueStored, Stored

LEMMA DataWithType ==
  ASSUME TypeOK, NEW f \in Fields
  PROVE  DataWith(f) \in [Bytes -> Cells \cup {Junk}]
<1>1. ASSUME NEW p \in Bytes
      PROVE  RecordByte(f, Dist(data_tail, p, DataSize)) \in Int
  <2>1. Dist(data_tail, p, DataSize) \in Nat
    BY <1>1, ByteDist DEF TypeOK
  <2> QED
    BY <2>1, StoredType, Sizes, Lengths DEF RecordByte
<1>2. ASSUME NEW p \in Bytes, Dist(data_tail, p, DataSize) < Stored(f)
      PROVE  RecordByte(f, Dist(data_tail, p, DataSize)) >= 0
  <2>1. Dist(data_tail, p, DataSize) \in Nat
    BY <1>2, ByteDist DEF TypeOK
  <2> QED
    BY <1>2, <2>1, StoredType, Sizes, Lengths DEF RecordByte, Stored
<1>3. ASSUME NEW p \in Bytes
      PROVE  DataWith(f)[p] \in Cells \cup {Junk}
  <2>1. data[p] \in Cells \cup {Junk}
    BY <1>3 DEF TypeOK
  <2>2. DataWith(f)[p] = IF Dist(data_tail, p, DataSize) < Stored(f)
                           THEN <<f, RecordByte(f, Dist(data_tail, p, DataSize))>>
                           ELSE data[p]
    BY <1>3 DEF DataWith
  <2> QED
    BY <1>1, <1>2, <1>3, <2>1, <2>2 DEF Cells
<1> QED
  BY <1>3 DEF DataWith

-----------------------------------------------------------------------------
(* The ring of offsets. *)

LEMMA RingCountIs ==
  ASSUME TypeOK
  PROVE  /\ RingCount = IF offs_head <= offs_tail THEN offs_tail - offs_head
                                                  ELSE offs_tail - offs_head + Entries
         /\ RingCount \in 0 .. Entries - 1
  BY SlotDist DEF RingCount, OffsDist, TypeOK

LEMMA FullIs ==
  ASSUME TypeOK
  PROVE  OffsetsFull <=> offs_tail = IF offs_head = 0 THEN Entries - 1 ELSE offs_head - 1
<1>1. 1 \in Slots /\ offs_head \in Slots
  BY Sizes DEF TypeOK, Slots
<1>2. Dist(1, offs_head, Entries) = IF 1 <= offs_head THEN offs_head - 1
                                                    ELSE offs_head - 1 + Entries
  BY <1>1, SlotDist
<1> QED
  BY <1>2, Positions, Sizes DEF OffsetsFull

LEMMA RingAfterEviction ==
  ASSUME TypeOK, RingHoldsLive, num_headers > 0
  PROVE  Dist(CbMove(offs_head, 1, Entries), offs_tail, Entries) = RingCount - 1
<1> DEFINE head == CbMove(offs_head, 1, Entries)
<1>1. head \in Slots /\ head = IF offs_head = Entries - 1 THEN 0 ELSE offs_head + 1
  BY SlotNext DEF TypeOK
<1>2. Dist(head, offs_tail, Entries) = IF head <= offs_tail THEN offs_tail - head
                                       ELSE offs_tail - head + Entries
  BY <1>1, SlotDist DEF TypeOK
<1>3. RingCount >= 1
  BY Positions, RingCountIs DEF RingHoldsLive
<1> QED
  BY <1>1, <1>2, <1>3, RingCountIs, Positions, Sizes

LEMMA RingAfterStore ==
  ASSUME TypeOK, ~ OffsetsFull
  PROVE  /\ RingCount + 1 < Entries
         /\ Dist(offs_head, CbMove(offs_tail, 1, Entries), Entries) = RingCount + 1
<1> DEFINE tail == CbMove(offs_tail, 1, Entries)
<1>1. tail \in Slots /\ tail = IF offs_tail = Entries - 1 THEN 0 ELSE offs_tail + 1
  BY SlotNext DEF TypeOK
<1>2. Dist(offs_head, tail, Entries) = IF offs_head <= tail THEN tail - offs_head
                                       ELSE tail - offs_head + Entries
  BY <1>1, SlotDist DEF TypeOK
<1> QED
  BY <1>1, <1>2, FullIs, RingCountIs, Positions, Sizes

-----------------------------------------------------------------------------
(* Type correctness and the occupancy of the ring.  They are proved        *)
(* together: num_headers keeps to its type because the ring holds it.      *)

RingInv == TypeOK /\ RingHoldsLive

LEMMA RingInvInit == Init => RingInv
<1> SUFFICES ASSUME Init PROVE RingInv
  OBVIOUS
<1>1. 0 \in Slots /\ 0 \in Bytes /\ Dist(0, 0, Entries) \in Nat
  BY Sizes, SlotDist DEF Slots, Bytes
<1>2. TypeOK
  BY <1>1, Sizes, FieldsAssumption DEF Init, TypeOK
<1>3. RingHoldsLive
  BY <1>1 DEF Init, RingHoldsLive, RingCount, OffsDist
<1> QED
  BY <1>2, <1>3 DEF RingInv

\* The conjuncts of TypeOK about the table, and those about the call.
TableType ==
  /\ offsets \in [Slots -> Bytes]
  /\ offs_head \in Slots /\ offs_tail \in Slots
  /\ data \in [Bytes -> Cells \cup {Junk}]
  /\ data_head \in Bytes /\ data_tail \in Bytes
  /\ num_headers \in Slots
  /\ used_data \in 0 .. U16 - 1
  /\ max_data \in 0 .. DataSize
  /\ stored \in Nat

CallType ==
  /\ pc \in {"idle", "add", "set_max"}
  /\ field \in Fields \cup {NoField}
  /\ pc = "add" => field \in Fields
  /\ limit \in 0 .. DataSize
  /\ evicted \subseteq Slots
  /\ ret \in {"ok", "error"}
  /\ tracked \subseteq Slots

LEMMA TypeSplit == TypeOK <=> TableType /\ CallType
  BY DEF TypeOK, TableType, CallType

LEMMA ClearRing ==
  ASSUME RingInv, ClearTable, max_data' \in 0 .. DataSize
  PROVE  TableType' /\ RingHoldsLive'
<1>1. 0 \in Slots /\ 0 \in Bytes /\ Dist(0, 0, Entries) \in Nat
  BY Sizes, SlotDist DEF Slots, Bytes
<1>2. TableType'
  BY <1>1, Sizes, TypeSplit DEF RingInv, TableType, ClearTable
<1>3. RingHoldsLive'
  BY <1>1 DEF ClearTable, RingHoldsLive, RingCount, OffsDist
<1> QED
  BY <1>2, <1>3

LEMMA SameRing ==
  ASSUME RingInv, UNCHANGED <<ring, bytes, num_headers, used_data, stored>>,
         max_data' \in 0 .. DataSize
  PROVE  TableType' /\ RingHoldsLive'
<1> USE DEF ring, bytes
<1>1. TableType'
  BY TypeSplit DEF RingInv, TableType
<1>2. RingHoldsLive'
  BY DEF RingInv, RingHoldsLive, RingCount, OffsDist
<1> QED
  BY <1>1, <1>2

LEMMA EvictOldestRing ==
  ASSUME RingInv, EvictOldest
  PROVE  TableType' /\ RingHoldsLive'
<1>1. PICK n \in InfoLens(data_head) :
        /\ data_head' = CbMove(data_head, InfoSize + n, DataSize)
        /\ used_data' = (used_data - (n + Overhead)) % U16
  BY DEF EvictOldest, Released
<1>2. n \in Nat
  BY <1>1, InfoLensType
<1>3. data_head' \in Bytes
  <2>1. InfoSize + n \in Nat
    BY <1>2, Sizes
  <2> QED
    BY <1>1, <2>1, ByteMove DEF RingInv, TypeOK
<1>4. used_data' \in 0 .. U16 - 1
  <2>1. used_data - (n + Overhead) \in Int /\ U16 \in Nat /\ U16 > 0
    BY <1>2, Sizes, Positions DEF RingInv
  <2> QED
    BY <1>1, <2>1, ModRange
<1>5. offs_head' \in Slots
  BY SlotNext DEF EvictOldest, RingInv, TypeOK
<1>6. num_headers' \in Slots
  BY Positions, Sizes DEF EvictOldest, RingInv, Slots
<1>7. TableType'
  BY <1>3, <1>4, <1>5, <1>6, TypeSplit DEF EvictOldest, Reported, RingInv, TableType
<1>8. RingHoldsLive'
  <2>1. RingCount' = Dist(CbMove(offs_head, 1, Entries), offs_tail, Entries)
    BY DEF EvictOldest, RingCount, OffsDist
  <2>2. RingCount' = RingCount - 1
    BY <2>1, RingAfterEviction DEF EvictOldest, RingInv
  <2> QED
    BY <2>2, RingCountIs, Positions DEF EvictOldest, RingInv, RingHoldsLive
<1> QED
  BY <1>7, <1>8

LEMMA EvictRing ==
  ASSUME RingInv, Evict
  PROVE  /\ TableType' /\ RingHoldsLive'
         /\ CallType'
<1>1. CASE EvictNothing
  <2>1. max_data' \in 0 .. DataSize
    BY <1>1, Positions DEF EvictNothing, sums, RingInv
  <2>2. TableType' /\ RingHoldsLive'
    BY <1>1, <2>1, SameRing DEF EvictNothing, sums
  <2>3. CallType'
    BY <1>1, TypeSplit DEF EvictNothing, call, RingInv, CallType
  <2> QED
    BY <2>2, <2>3
<1>2. CASE EvictMismatch
  <2>1. max_data' \in 0 .. DataSize
    BY <1>2, Positions DEF EvictMismatch, sums, RingInv
  <2>2. TableType' /\ RingHoldsLive'
    BY <1>2, <2>1, SameRing DEF EvictMismatch, sums
  <2>3. CallType'
    BY <1>2, TypeSplit, Sizes DEF EvictMismatch, Return, RingInv, CallType
  <2> QED
    BY <2>2, <2>3
<1>3. CASE EvictOldest
  <2>1. CallType'
    BY <1>3, TypeSplit DEF EvictOldest, Reported, call, RingInv, TypeOK, CallType
  <2> QED
    BY <1>3, <2>1, EvictOldestRing
<1> QED
  BY <1>1, <1>2, <1>3 DEF Evict

LEMMA AddStoreRing ==
  ASSUME RingInv, AddStore
  PROVE  TableType' /\ RingHoldsLive' /\ CallType'
<1>1. field \in Fields
  BY DEF AddStore, RingInv, TypeOK
<1>2. TypeOK /\ ~ OffsetsFull
  BY DEF AddStore, RingInv
<1>3. offs_tail' \in Slots /\ offs_head' \in Slots
  BY <1>2, SlotNext DEF AddStore, TypeOK
<1>4. data_tail' \in Bytes
  <2>1. Stored(field) \in Nat
    BY <1>1, <1>2, StoredType
  <2> QED
    BY <1>2, <2>1, ByteMove DEF AddStore, TypeOK
<1>5. data' \in [Bytes -> Cells \cup {Junk}]
  BY <1>1, <1>2, DataWithType DEF AddStore
<1>6. RingCount' = RingCount + 1 /\ RingCount + 1 < Entries
  BY <1>2, RingAfterStore DEF AddStore, RingCount, OffsDist
<1>7. num_headers' \in {num_headers, num_headers + 1}
  BY DEF AddStore
<1>8. RingHoldsLive' /\ num_headers' \in Slots
  BY <1>2, <1>6, <1>7, RingCountIs, Positions, Sizes DEF RingInv, RingHoldsLive, Slots
<1>9. used_data' \in 0 .. U16 - 1
  <2>1. used_data + FieldSize(field) \in Int /\ U16 \in Nat /\ U16 > 0
    BY <1>1, <1>2, Lengths, Sizes, Positions
  <2>2. (used_data + FieldSize(field)) % U16 \in 0 .. U16 - 1
    BY <2>1, ModRange
  <2> QED
    BY <1>2, <2>2, Positions DEF AddStore
<1>10. stored' \in Nat
  BY <1>1, <1>2, Lengths, Positions DEF AddStore
<1>11. offsets' \in [Slots -> Bytes]
  BY <1>2 DEF AddStore, TypeOK
<1>12. TableType'
  BY <1>2, <1>3, <1>4, <1>5, <1>8, <1>9, <1>10, <1>11
     DEF AddStore, TypeOK, TableType
<1>13. CallType'
  BY <1>2, Sizes DEF AddStore, Return, TypeOK, CallType
<1> QED
  BY <1>8, <1>12, <1>13

LEMMA StepRing ==
  ASSUME RingInv, Step
  PROVE  TableType' /\ RingHoldsLive' /\ CallType'
<1>1. CASE AddEvict
  BY <1>1, EvictRing DEF AddEvict
<1>2. CASE AddNoOffset
  <2>1. max_data' \in 0 .. DataSize
    BY <1>2, Positions DEF AddNoOffset, sums, RingInv
  <2>2. TableType' /\ RingHoldsLive'
    BY <1>2, <2>1, SameRing DEF AddNoOffset, sums
  <2>3. CallType'
    BY <1>2, Sizes DEF AddNoOffset, Return, RingInv, TypeOK, CallType
  <2> QED
    BY <2>2, <2>3
<1>3. CASE AddStore
  BY <1>3, AddStoreRing
<1>4. CASE SetMaxEvict
  BY <1>4, EvictRing DEF SetMaxEvict
<1>5. CASE SetMaxEnd
  <2>1. max_data' \in 0 .. DataSize
    BY <1>5, Positions DEF SetMaxEnd, RingInv
  <2>2. TableType' /\ RingHoldsLive'
    BY <1>5, <2>1, SameRing DEF SetMaxEnd
  <2>3. CallType'
    BY <1>5, Sizes DEF SetMaxEnd, Return, RingInv, TypeOK, CallType
  <2> QED
    BY <2>2, <2>3
<1> QED
  BY <1>1, <1>2, <1>3, <1>4, <1>5 DEF Step

LEMMA StartRing ==
  ASSUME RingInv, Start
  PROVE  TableType' /\ RingHoldsLive' /\ CallType'
<1> USE Sizes DEF RingInv, TypeOK, CallType, Return
<1>1. CASE Clear
  <2>1. TableType' /\ RingHoldsLive'
    BY <1>1, ClearRing DEF Clear
  <2>2. CallType'
    BY <1>1 DEF Clear
  <2> QED
    BY <2>1, <2>2
<1>2. ASSUME NEW f \in Fields, AddTooLarge(f)
      PROVE  TableType' /\ RingHoldsLive' /\ CallType'
  <2>1. TableType' /\ RingHoldsLive'
    BY <1>2, ClearRing DEF AddTooLarge
  <2>2. CallType'
    BY <1>2 DEF AddTooLarge
  <2> QED
    BY <2>1, <2>2
<1>3. ASSUME NEW f \in Fields, AddBegin(f)
      PROVE  TableType' /\ RingHoldsLive' /\ CallType'
  <2>1. TableType' /\ RingHoldsLive'
    BY <1>3, SameRing DEF AddBegin, sums
  <2>2. CallType'
    BY <1>3 DEF AddBegin
  <2> QED
    BY <2>1, <2>2
<1>4. CASE SetMaxZero
  <2>1. TableType' /\ RingHoldsLive'
    BY <1>4, ClearRing DEF SetMaxZero
  <2>2. CallType'
    BY <1>4 DEF SetMaxZero
  <2> QED
    BY <2>1, <2>2
<1>5. ASSUME NEW m \in MaxSizes, SetMaxRefused(m)
      PROVE  TableType' /\ RingHoldsLive' /\ CallType'
  <2>1. TableType' /\ RingHoldsLive'
    BY <1>5, SameRing DEF SetMaxRefused, sums
  <2>2. CallType'
    BY <1>5 DEF SetMaxRefused
  <2> QED
    BY <2>1, <2>2
<1>6. ASSUME NEW m \in MaxSizes, SetMaxBegin(m)
      PROVE  TableType' /\ RingHoldsLive' /\ CallType'
  <2>1. TableType' /\ RingHoldsLive'
    BY <1>6, SameRing DEF SetMaxBegin, sums
  <2>2. CallType'
    BY <1>6 DEF SetMaxBegin
  <2> QED
    BY <2>1, <2>2
<1> QED
  BY <1>1, <1>2, <1>3, <1>4, <1>5, <1>6 DEF Start

LEMMA RingInvStep == RingInv /\ [Next]_vars => RingInv'
<1> SUFFICES ASSUME RingInv, [Next]_vars PROVE RingInv'
  OBVIOUS
<1>1. CASE Step
  BY <1>1, StepRing, TypeSplit DEF RingInv, TypeOK, TableType, CallType
<1>2. CASE Start
  BY <1>2, StartRing, TypeSplit DEF RingInv, TypeOK, TableType, CallType
<1>3. CASE UNCHANGED vars
  BY <1>3 DEF vars, ring, bytes, sums, call, RingInv, TypeOK, RingHoldsLive,
              RingCount, OffsDist
<1> QED
  BY <1>1, <1>2, <1>3 DEF Next

\* No operation of the table, whatever fields and sizes it is given and
\* however badly an eviction misreads a length, takes a position out of the
\* buffers or a counter out of its width (header_table.c:271-728).
THEOREM TypeCorrect == Spec => []TypeOK
<1>1. RingInv => TypeOK
  BY DEF RingInv
<1> QED
  BY <1>1, RingInvInit, RingInvStep, PTL DEF Spec

\* The ring of offsets always holds at least the fields that are counted:
\* the slot that the next add writes never belongs to a live field.
THEOREM RingHoldsLiveAlways == Spec => []RingHoldsLive
<1>1. RingInv => RingHoldsLive
  BY DEF RingInv
<1> QED
  BY <1>1, RingInvInit, RingInvStep, PTL DEF Spec

-----------------------------------------------------------------------------
(* Nothing in use is ever overwritten. *)

LEMMA FreeIs ==
  ASSUME TypeOK
  PROVE  /\ DataUsed = IF data_head <= data_tail THEN data_tail - data_head
                                                 ELSE data_tail - data_head + DataSize
         /\ DataFree = DataSize - 1 - DataUsed
<1>1. DataUsed = IF data_head <= data_tail THEN data_tail - data_head
                                          ELSE data_tail - data_head + DataSize
  BY ByteDist DEF DataUsed, DataDist, TypeOK
<1>2. /\ data_tail + 1 \in 0 .. DataSize /\ data_head \in 0 .. DataSize - 1
      /\ DataSize \in Nat /\ DataSize > 0
  BY Positions, Sizes
<1>3. DataFree = IF data_tail + 1 <= data_head THEN data_head - (data_tail + 1)
                                              ELSE data_head - (data_tail + 1) + DataSize
  BY <1>2, DistIs DEF DataFree
<1> QED
  BY <1>1, <1>2, <1>3, Positions

LEMMA DataWithKeeps ==
  ASSUME TypeOK, NEW f \in Fields, NEW b \in UsedBytes
  PROVE  DataWith(f)[b] = data[b]
<1>1. b \in Bytes /\ DataDist(b) < DataUsed
  BY DEF UsedBytes
<1>2. DataDist(b) = IF data_head <= b THEN b - data_head ELSE b - data_head + DataSize
  BY <1>1, ByteDist DEF DataDist, TypeOK
<1>3. Dist(data_tail, b, DataSize) = IF data_tail <= b THEN b - data_tail
                                                       ELSE b - data_tail + DataSize
  BY <1>1, ByteDist DEF TypeOK
<1>4. b \in 0 .. DataSize - 1
  BY <1>1 DEF Bytes
<1>5. ~ (Dist(data_tail, b, DataSize) < Stored(f))
  BY <1>1, <1>2, <1>3, <1>4, FreeIs, StoredType, Positions, Sizes
<1> QED
  BY <1>1, <1>5 DEF DataWith

LEMMA TailNotLive ==
  ASSUME RingInv
  PROVE  offs_tail \notin Live
  BY RingCountIs, Positions DEF RingInv, RingHoldsLive, RingCount, Live

LEMMA StepKeepsUsed ==
  ASSUME RingInv, [Next]_vars
  PROVE  /\ \A s \in Live \cap Live' : offsets'[s] = offsets[s]
         /\ \A b \in UsedBytes : data'[b] = data[b]
<1>1. CASE AddStore
  <2>1. field \in Fields /\ TypeOK
    BY <1>1 DEF AddStore, RingInv, TypeOK
  <2>2. \A b \in UsedBytes : data'[b] = data[b]
    BY <1>1, <2>1, DataWithKeeps DEF AddStore
  <2>3. \A s \in Live : s # offs_tail
    BY TailNotLive
  <2>4. \A s \in Live : offsets'[s] = offsets[s]
    BY <1>1, <2>1, <2>3 DEF AddStore, TypeOK, Live
  <2> QED
    BY <2>2, <2>4
<1>2. CASE ~ AddStore
  <2>1. UNCHANGED <<offsets, data>>
    <3>1. CASE Step
      BY <1>2, <3>1 DEF Step, AddEvict, SetMaxEvict, Evict, EvictNothing, EvictMismatch,
           EvictOldest, AddNoOffset, SetMaxEnd, ring, bytes
    <3>2. CASE Start
      BY <3>2 DEF Start, Clear, ClearTable, AddTooLarge, AddBegin, SetMaxZero,
           SetMaxRefused, SetMaxBegin, ring, bytes
    <3>3. CASE UNCHANGED vars
      BY <3>3 DEF vars, ring, bytes
    <3> QED
      BY <3>1, <3>2, <3>3 DEF Next
  <2> QED
    BY <2>1
<1> QED
  BY <1>1, <1>2

\* An add that finds the table full, or that stores only part of its record,
\* still never writes over the offset of a live field or over a byte in use
\* (header_offs_is_full, header_data_free).
THEOREM NothingOverwritten == Spec => NoOverwrite
<1>1. RingInv /\ [Next]_vars =>
        [/\ \A s \in Live \cap Live' : offsets'[s] = offsets[s]
         /\ \A b \in UsedBytes : data'[b] = data[b]]_vars
  BY StepKeepsUsed
<1> QED
  BY <1>1, RingInvInit, RingInvStep, PTL DEF Spec, NoOverwrite
=============================================================================
