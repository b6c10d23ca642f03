---------------------- MODULE HeaderTableRegimeProofs ----------------------
(***************************************************************************)
(* What the header table promises in the regime in which its reads are     *)
(* right: until half its octets have been stored since the last clear, for *)
(* fields that are not empty and have buffers, and for maxima other than   *)
(* zero.  It never wraps there, and the records lie in it end to end.      *)
(***************************************************************************)
EXTENDS HeaderTableProofs

\* The regime.  A table full of the smallest fields takes fewer slots than
\* there are.
Regime ==
  /\ 2 * Horizon <= DataSize
  /\ Entries * (Overhead + 1) > DataSize
  /\ NullName = {} /\ \A f \in Fields : BodyLen(f) > 0
  /\ 0 \notin MaxSizes

NextSlot(s) == CbMove(s, 1, Entries)

\* The whole record of f lies at offset o.
IsRecord(o, f) ==
  /\ f \in Fields
  /\ o + RecordLen(f) <= data_tail
  /\ \A i \in 0 .. RecordLen(f) - 1 : data[o + i] = <<f, i>>

\* Each live field has its record whole, the records lie end to end, and what
\* lies behind one has room for the fields that are younger.
RecordOf(s) ==
  /\ IsRecord(offsets[s], FieldAt(s))
  /\ s = offs_head => offsets[s] = data_head
  /\ offsets[s] + RecordLen(FieldAt(s)) =
       IF NextSlot(s) = offs_tail THEN data_tail ELSE offsets[NextSlot(s)]
  /\ data_tail - offsets[s] >= (num_headers - OffsDist(s)) * (InfoSize + 1)

RecordsIntact == \A s \in Live : RecordOf(s)

Layout ==
  /\ data_tail = stored /\ stored <= Horizon /\ data_head <= data_tail
  /\ num_headers = RingCount
  /\ num_headers = 0 => data_head = data_tail
  /\ used_data = (data_tail - data_head) + num_headers * (Overhead - InfoSize)
  /\ used_data <= max_data

CallFits ==
  /\ pc = "add" => stored + RecordLen(field) <= Horizon /\ FieldSize(field) <= max_data
  /\ pc = "set_max" => limit > 0

\* The evicted set of a call, and what its caller makes of it.
Reports ==
  /\ evicted \cap Live = {}
  /\ pc = "idle" => tracked = Live
  /\ pc # "idle" => tracked \ evicted = Live /\ offs_tail \notin evicted

RegimeInv == RingInv /\ Layout /\ RecordsIntact /\ CallFits /\ Reports

-----------------------------------------------------------------------------
(* Slots *)

LEMMA LiveSlot ==
  ASSUME RingInv, NEW s \in Live
  PROVE  s \in Slots /\ OffsDist(s) \in 0 .. num_headers - 1
  BY SlotDist, Positions DEF Live, OffsDist, RingInv, TypeOK

LEMMA HeadLive ==
  ASSUME RingInv, num_headers > 0
  PROVE  offs_head \in Live /\ OffsDist(offs_head) = 0
<1>1. offs_head \in Slots /\ offs_head \in 0 .. Entries - 1
  BY Positions DEF RingInv, TypeOK
<1>2. OffsDist(offs_head) = 0
  BY <1>1, SlotDist DEF OffsDist
<1> QED
  BY <1>1, <1>2 DEF Live

\* Slots are told apart by their distance from the head.
LEMMA DistInjective ==
  ASSUME RingInv, NEW s \in Slots, NEW t \in Slots, OffsDist(s) = OffsDist(t)
  PROVE  s = t
<1>1. /\ offs_head \in Slots /\ offs_head \in 0 .. Entries - 1
      /\ s \in 0 .. Entries - 1 /\ t \in 0 .. Entries - 1
  BY Positions DEF RingInv, TypeOK, Slots
<1>2. /\ OffsDist(s) = IF offs_head <= s THEN s - offs_head ELSE s - offs_head + Entries
      /\ OffsDist(t) = IF offs_head <= t THEN t - offs_head ELSE t - offs_head + Entries
  BY <1>1, SlotDist DEF OffsDist
<1> DEFINE d == OffsDist(s)
<1>3. OffsDist(t) = d
  OBVIOUS
<1> HIDE DEF d
<1>4. s = IF offs_head + d < Entries THEN offs_head + d ELSE offs_head + d - Entries
  BY <1>1, <1>2, Sizes DEF d
<1>5. t = IF offs_head + d < Entries THEN offs_head + d ELSE offs_head + d - Entries
  BY <1>1, <1>2, <1>3, Sizes
<1> QED
  BY <1>4, <1>5

LEMMA NextDist ==
  ASSUME RingInv, NEW s \in Slots, OffsDist(s) < RingCount
  PROVE  NextSlot(s) \in Slots /\ OffsDist(NextSlot(s)) = OffsDist(s) + 1
<1> DEFINE t == NextSlot(s)
<1>1. /\ offs_head \in Slots /\ offs_head \in 0 .. Entries - 1 /\ s \in 0 .. Entries - 1
  BY Positions DEF RingInv, TypeOK, Slots
<1>2. t \in Slots /\ t = IF s = Entries - 1 THEN 0 ELSE s + 1
  BY SlotNext DEF NextSlot
<1> HIDE DEF t
<1>3. /\ OffsDist(s) = IF offs_head <= s THEN s - offs_head ELSE s - offs_head + Entries
      /\ OffsDist(t) = IF offs_head <= t THEN t - offs_head ELSE t - offs_head + Entries
  BY <1>1, <1>2, SlotDist DEF OffsDist
<1>4. RingCount \in 0 .. Entries - 1
  BY RingCountIs DEF RingInv
<1>5. OffsDist(t) = OffsDist(s) + 1
  BY <1>1, <1>2, <1>3, <1>4, Sizes
<1> QED
  BY <1>2, <1>5 DEF t

LEMMA NextDiffers ==
  ASSUME NEW s \in Slots, NEW t \in Slots, NextSlot(s) = NextSlot(t)
  PROVE  s = t
<1>1. s \in 0 .. Entries - 1 /\ t \in 0 .. Entries - 1
  BY DEF Slots
<1>2. /\ NextSlot(s) = IF s = Entries - 1 THEN 0 ELSE s + 1
      /\ NextSlot(t) = IF t = Entries - 1 THEN 0 ELSE t + 1
  BY SlotNext DEF NextSlot
<1> DEFINE n == NextSlot(s)
<1>3. NextSlot(t) = n
  OBVIOUS
<1> HIDE DEF n
<1>4. s = IF n = 0 THEN Entries - 1 ELSE n - 1
  BY <1>1, <1>2, Sizes DEF n
<1>5. t = IF n = 0 THEN Entries - 1 ELSE n - 1
  BY <1>1, <1>2, <1>3, Sizes
<1> QED
  BY <1>4, <1>5

LEMMA LiveAfterEviction ==
  ASSUME RingInv, num_headers > 0,
         offs_head' = NextSlot(offs_head), num_headers' = num_headers - 1
  PROVE  /\ Live' = Live \ {offs_head}
         /\ \A s \in Live' : OffsDist(s)' = OffsDist(s) - 1
<1>1. /\ offs_head \in Slots /\ offs_head \in 0 .. Entries - 1
      /\ num_headers \in 0 .. Entries - 1
  BY Positions DEF RingInv, TypeOK
<1>2. offs_head' \in Slots /\ offs_head' = IF offs_head = Entries - 1 THEN 0 ELSE offs_head + 1
  BY <1>1, SlotNext DEF NextSlot
<1>3. ASSUME NEW s \in Slots
      PROVE  IF s = offs_head THEN OffsDist(s) = 0 /\ OffsDist(s)' = Entries - 1
                              ELSE OffsDist(s)' = OffsDist(s) - 1
  <2>1. /\ OffsDist(s) = IF offs_head <= s THEN s - offs_head ELSE s - offs_head + Entries
        /\ OffsDist(s)' = IF offs_head' <= s THEN s - offs_head' ELSE s - offs_head' + Entries
    BY <1>1, <1>2, <1>3, SlotDist DEF OffsDist
  <2>2. s \in 0 .. Entries - 1
    BY <1>3 DEF Slots
  <2> QED
    BY <1>1, <1>2, <2>1, <2>2, Sizes
<1>4. \A s \in Slots : OffsDist(s) \in 0 .. Entries - 1
  BY <1>1, SlotDist DEF OffsDist
<1>5. \A s \in Slots : s \in Live' <=> s \in Live \ {offs_head}
  <2> SUFFICES ASSUME NEW s \in Slots PROVE s \in Live' <=> s \in Live \ {offs_head}
    OBVIOUS
  <2>1. s \in Live' <=> OffsDist(s)' < num_headers - 1
    BY DEF Live
  <2>2. s \in Live <=> OffsDist(s) < num_headers
    BY DEF Live
  <2>3. OffsDist(s) \in 0 .. Entries - 1
    BY <1>4
  <2> QED
    BY <1>1, <1>3, <2>1, <2>2, <2>3, Sizes
<1>6. Live' \subseteq Slots /\ Live \subseteq Slots
  BY DEF Live, Slots
<1>7. Live' = Live \ {offs_head}
  BY <1>5, <1>6
<1> QED
  BY <1>3, <1>6, <1>7

LEMMA LiveAfterStore ==
  ASSUME RingInv, num_headers = RingCount,
         offs_head' = offs_head, num_headers' = num_headers + 1
  PROVE  /\ Live' = Live \cup {offs_tail} /\ offs_tail \notin Live
         /\ OffsDist(offs_tail) = num_headers
         /\ \A s \in Slots : OffsDist(s)' = OffsDist(s)
<1>1. offs_tail \in Slots /\ OffsDist(offs_tail) = num_headers
  BY DEF RingInv, TypeOK, RingCount
<1>2. \A s \in Slots : OffsDist(s)' = OffsDist(s)
  BY DEF OffsDist
<1>3. \A s \in Slots : OffsDist(s) \in Int
  BY SlotDist DEF OffsDist, RingInv, TypeOK
<1>4. \A s \in Slots : OffsDist(s) < num_headers + 1 <=> s = offs_tail \/ OffsDist(s) < num_headers
  <2> SUFFICES ASSUME NEW s \in Slots
               PROVE OffsDist(s) < num_headers + 1 <=> s = offs_tail \/ OffsDist(s) < num_headers
    OBVIOUS
  <2>1. OffsDist(s) = num_headers => s = offs_tail
    BY <1>1, DistInjective
  <2> QED
    BY <1>1, <1>3, <2>1, Positions DEF RingInv
<1>5. Live' = {s \in Slots : OffsDist(s) < num_headers + 1}
  BY <1>2 DEF Live, Slots
<1> QED
  BY <1>1, <1>2, <1>4, <1>5, TailNotLive DEF Live

-----------------------------------------------------------------------------
(* Records *)

LEMMA ReadWithin ==
  ASSUME RingInv, Regime, Layout, NEW o \in Nat, NEW i \in Nat, o + i < data_tail
  PROVE  ReadCell(o, i) = data[o + i]
<1>1. /\ data_head \in Nat /\ data_tail \in Nat /\ data_head <= data_tail /\ data_tail < DataSize
      /\ data_tail <= Horizon /\ 2 * Horizon <= DataSize
      /\ DataSize \in Nat /\ Horizon \in Nat
  BY Positions, Sizes DEF RingInv, Layout, Regime
<1> DEFINE to_end == DataSize - o - data_head
<1>2. i < to_end /\ o + i \in Bytes
  BY <1>1 DEF Bytes
<1> HIDE DEF to_end
<1> QED
  BY <1>2 DEF ReadCell, to_end

LEMMA RecordReads ==
  ASSUME RingInv, Regime, Layout, NEW o \in Nat, NEW f, IsRecord(o, f),
         NEW k \in Nat, NEW n \in Nat, k + n <= RecordLen(f)
  PROVE  ReadsAs(o + k, f, k, n)
<1> SUFFICES ASSUME NEW i \in 0 .. n - 1 PROVE ReadCell(o + k, i) = <<f, k + i>>
  BY DEF ReadsAs
<1>1. f \in Fields /\ RecordLen(f) \in Nat /\ o + RecordLen(f) <= data_tail /\ data_tail \in Nat
  BY Lengths, Positions DEF IsRecord, RingInv
<1>2. o + k \in Nat /\ i \in Nat /\ (o + k) + i < data_tail /\ k + i \in 0 .. RecordLen(f) - 1
  BY <1>1
<1>3. ReadCell(o + k, i) = data[(o + k) + i]
  BY <1>2, ReadWithin
<1>4. data[o + (k + i)] = <<f, k + i>>
  BY <1>2 DEF IsRecord
<1>5. (o + k) + i = o + (k + i)
  BY <1>2
<1> QED
  BY <1>3, <1>4, <1>5

\* A record is read as that of one field only.
LEMMA OneRecord ==
  ASSUME RingInv, Regime, Layout, NEW o \in Nat, NEW f, IsRecord(o, f),
         NEW g, InfoReadsAs(o, g)
  PROVE  g = f
<1>1. f \in Fields /\ RecordLen(f) >= InfoSize /\ InfoSize \in Nat /\ InfoSize > 0
      /\ data_tail \in Nat /\ RecordLen(f) \in Nat /\ o + RecordLen(f) <= data_tail
  BY Lengths, Sizes, Positions DEF IsRecord, RingInv
<1>2. 0 \in 0 .. InfoSize - 1 /\ 0 \in 0 .. RecordLen(f) - 1 /\ o + 0 < data_tail
  BY <1>1
<1>3. ReadCell(o, 0) = <<g, 0 + 0>>
  BY <1>2 DEF InfoReadsAs, ReadsAs
<1>4. ReadCell(o, 0) = data[o + 0]
  BY <1>2, ReadWithin
<1>5. data[o + 0] = <<f, 0>>
  BY <1>2 DEF IsRecord
<1> QED
  BY <1>3, <1>4, <1>5

LEMMA RecordInfo ==
  ASSUME RingInv, Regime, Layout, NEW o \in Nat, NEW f, IsRecord(o, f)
  PROVE  InfoReadsAs(o, f) /\ InfoLens(o) = {BodyLen(f)}
<1>1. f \in Fields /\ 0 + InfoSize <= RecordLen(f) /\ InfoSize \in Nat /\ o + 0 = o
  BY Lengths, Sizes DEF IsRecord
<1>2. InfoReadsAs(o, f)
  BY <1>1, RecordReads DEF InfoReadsAs
<1>3. {g \in Fields : InfoReadsAs(o, g)} = {f}
  BY <1>1, <1>2, OneRecord
<1> QED
  BY <1>2, <1>3 DEF InfoLens

LEMMA LiveOffset ==
  ASSUME RingInv, NEW s \in Live
  PROVE  offsets[s] \in 0 .. DataSize - 1
  BY LiveSlot DEF RingInv, TypeOK, Bytes

\* The octets counted for each field are at least the overhead.
LEMMA Products ==
  ASSUME NEW n \in Nat, NEW c \in Nat
  PROVE  /\ n * c \in Nat /\ (n + 1) * c = n * c + c
         /\ n > 0 => (n - 1) * c \in Nat /\ n * c = (n - 1) * c + c
  OBVIOUS

-----------------------------------------------------------------------------
(* Evicting *)

\* In the regime the oldest field is found, read right and taken away whole.
LEMMA EvictIs ==
  ASSUME RingInv, Regime, Layout, RecordsIntact, num_headers > 0, Evict,
         NEW f, f = FieldAt(offs_head)
  PROVE  /\ EvictOldest /\ f \in Fields
         /\ data_head' = data_head + RecordLen(f) /\ data_head' <= data_tail
         /\ data_head' = IF NextSlot(offs_head) = offs_tail THEN data_tail
                         ELSE offsets[NextSlot(offs_head)]
         /\ used_data' = used_data - BodyLen(f) - Overhead
         /\ used_data' = (data_tail - data_head') + (num_headers - 1) * (Overhead - InfoSize)
<1>1. offs_head \in Live
  BY HeadLive
<1>2. /\ IsRecord(data_head, f) /\ offsets[offs_head] = data_head
      /\ data_head + RecordLen(f) = IF NextSlot(offs_head) = offs_tail THEN data_tail
                                    ELSE offsets[NextSlot(offs_head)]
  BY <1>1 DEF RecordsIntact, RecordOf
<1>3. EvictOldest
  BY <1>2 DEF Evict, EvictNothing, EvictMismatch
<1>4. data_head \in Nat /\ data_tail \in Nat /\ data_tail < DataSize
      /\ num_headers \in Nat /\ used_data \in 0 .. U16 - 1
  BY Positions, Sizes DEF RingInv
<1>5. f \in Fields /\ data_head + RecordLen(f) <= data_tail
  BY <1>2 DEF IsRecord
<1>6. BodyLen(f) \in Nat /\ RecordLen(f) = InfoSize + BodyLen(f) /\ RecordLen(f) \in Nat
  BY <1>5, Lengths DEF RecordLen
<1>7. InfoLens(data_head) = {BodyLen(f)}
  BY <1>2, <1>4, RecordInfo
<1>8. /\ data_head' = CbMove(data_head, RecordLen(f), DataSize)
      /\ used_data' = (used_data - (BodyLen(f) + Overhead)) % U16
  BY <1>3, <1>6, <1>7 DEF EvictOldest, Released
<1>9. data_head' = data_head + RecordLen(f)
  <2>1. data_head \in Bytes /\ data_head + RecordLen(f) < DataSize
    BY <1>4, <1>5, <1>6, Sizes DEF RingInv, TypeOK
  <2> QED
    BY <1>6, <1>8, <2>1, ByteMove
<1> DEFINE c    == Overhead - InfoSize
           left == (num_headers - 1) * c
<1>10. c \in Nat /\ left \in Nat /\ num_headers * c = left + c
  BY <1>4, Products, Sizes
<1>11. used_data = (data_tail - data_head) + num_headers * c
  BY DEF Layout
<1>12. used_data - (BodyLen(f) + Overhead) = (data_tail - data_head') + left
  <2>1. c + InfoSize = Overhead
    BY Sizes
  <2> HIDE DEF c, left
  <2> QED
    BY <1>4, <1>6, <1>9, <1>10, <1>11, <2>1, Sizes
<1> HIDE DEF left, c
<1>13. used_data - (BodyLen(f) + Overhead) \in 0 .. U16 - 1
  BY <1>4, <1>5, <1>6, <1>9, <1>10, <1>12, Sizes
<1>14. \A x \in 0 .. U16 - 1 : x % U16 = x
  BY Sizes
<1>15. used_data' = used_data - (BodyLen(f) + Overhead)
  BY <1>8, <1>13, <1>14
<1>16. used_data' = used_data - BodyLen(f) - Overhead
  BY <1>4, <1>6, <1>15, Sizes
<1>17. used_data' = (data_tail - data_head') + (num_headers - 1) * (Overhead - InfoSize)
  BY <1>12, <1>15 DEF left, c
<1> QED
  BY <1>2, <1>3, <1>5, <1>9, <1>16, <1>17

LEMMA EvictKeepsLayout ==
  ASSUME RingInv, Regime, Layout, RecordsIntact, num_headers > 0, Evict
  PROVE  Layout'
<1> DEFINE f == FieldAt(offs_head)
<1>1. /\ EvictOldest /\ f \in Fields
      /\ data_head' <= data_tail
      /\ data_head' = IF NextSlot(offs_head) = offs_tail THEN data_tail
                      ELSE offsets[NextSlot(offs_head)]
      /\ used_data' = used_data - BodyLen(f) - Overhead
      /\ used_data' = (data_tail - data_head') + (num_headers - 1) * (Overhead - InfoSize)
  BY EvictIs
<1> HIDE DEF f
<1>2. /\ offs_head' = NextSlot(offs_head) /\ num_headers' = num_headers - 1
      /\ UNCHANGED <<offsets, offs_tail, data, data_tail, max_data, stored>>
  BY <1>1 DEF EvictOldest, NextSlot
<1>3. RingCount' = RingCount - 1
  <2>1. RingCount' = Dist(CbMove(offs_head, 1, Entries), offs_tail, Entries)
    BY <1>2 DEF RingCount, OffsDist, NextSlot
  <2> QED
    BY <2>1, RingAfterEviction DEF RingInv
<1>4. num_headers' = 0 => data_head' = data_tail
  <2> SUFFICES ASSUME num_headers' = 0 PROVE NextSlot(offs_head) = offs_tail
    BY <1>1
  <2>1. offs_head \in Slots /\ offs_tail \in Slots /\ OffsDist(offs_head) = 0
        /\ num_headers = 1 /\ RingCount = 1
    BY <1>2, HeadLive, Positions DEF RingInv, TypeOK, Layout
  <2>2. NextSlot(offs_head) \in Slots /\ OffsDist(NextSlot(offs_head)) = 1
    BY <2>1, NextDist
  <2> QED
    BY <2>1, <2>2, DistInjective DEF RingCount
<1>5. used_data' <= max_data
  <2>1. BodyLen(f) \in Nat /\ Overhead \in Nat /\ used_data \in Int /\ max_data \in Int
        /\ used_data <= max_data
    BY <1>1, Lengths, Sizes, Positions DEF RingInv, Layout
  <2> QED
    BY <1>1, <2>1
<1>6. data_tail = stored /\ stored <= Horizon /\ num_headers = RingCount
  BY DEF Layout
<1>7. used_data' = (data_tail - data_head') + num_headers' * (Overhead - InfoSize)
  BY <1>1, <1>2
<1> QED
  BY <1>1, <1>2, <1>3, <1>4, <1>5, <1>6, <1>7 DEF Layout

LEMMA EvictKeepsRecords ==
  ASSUME RingInv, Regime, Layout, RecordsIntact, num_headers > 0, Evict
  PROVE  RecordsIntact'
<1>1. /\ EvictOldest
      /\ data_head' = IF NextSlot(offs_head) = offs_tail THEN data_tail
                      ELSE offsets[NextSlot(offs_head)]
  BY EvictIs
<1>2. /\ offs_head' = NextSlot(offs_head) /\ num_headers' = num_headers - 1
      /\ UNCHANGED <<offsets, offs_tail, data, data_tail>>
  BY <1>1 DEF EvictOldest, NextSlot
<1>3. Live' = Live \ {offs_head} /\ \A s \in Live' : OffsDist(s)' = OffsDist(s) - 1
  BY <1>2, LiveAfterEviction
<1> SUFFICES ASSUME NEW s \in Live' PROVE RecordOf(s)'
  BY DEF RecordsIntact
<1>4. s \in Live /\ RecordOf(s) /\ s # offs_tail
  BY <1>3, TailNotLive DEF RecordsIntact
<1>5. FieldAt(s)' = FieldAt(s)
  BY <1>2 DEF FieldAt
<1>6. IsRecord(offsets[s], FieldAt(s))'
  BY <1>2, <1>4, <1>5 DEF RecordOf, IsRecord
<1>7. s = offs_head' => offsets[s] = data_head'
  BY <1>1, <1>2, <1>4
<1>8. num_headers' - OffsDist(s)' = num_headers - OffsDist(s)
  <2>1. num_headers \in Int /\ OffsDist(s) \in Int
    BY <1>4, LiveSlot, Positions DEF RingInv
  <2> QED
    BY <1>2, <1>3, <2>1
<1>9. (data_tail - offsets[s] >= (num_headers - OffsDist(s)) * (InfoSize + 1))'
  BY <1>2, <1>4, <1>8 DEF RecordOf
<1>10. (offsets[s] + RecordLen(FieldAt(s)) =
         IF NextSlot(s) = offs_tail THEN data_tail ELSE offsets[NextSlot(s)])'
  BY <1>2, <1>4, <1>5 DEF RecordOf
<1> QED
  BY <1>2, <1>6, <1>7, <1>9, <1>10 DEF RecordOf

LEMMA EvictKeepsReports ==
  ASSUME RegimeInv, Regime, num_headers > 0, Evict, pc # "idle"
  PROVE  CallFits' /\ Reports'
<1>1. EvictOldest
  BY EvictIs DEF RegimeInv
<1>2. /\ offs_head' = NextSlot(offs_head) /\ num_headers' = num_headers - 1
      /\ evicted' = evicted \cup {offs_head}
      /\ UNCHANGED <<offs_tail, max_data, pc, field, limit, tracked, stored>>
  BY <1>1 DEF EvictOldest, NextSlot, Reported, call
<1>3. Live' = Live \ {offs_head}
  BY <1>2, LiveAfterEviction DEF RegimeInv
<1>4. offs_head \in Live /\ offs_tail \notin Live
  BY HeadLive, TailNotLive DEF RegimeInv
<1>5. CallFits'
  BY <1>2 DEF RegimeInv, CallFits
<1>6. evicted \cap Live = {} /\ tracked \ evicted = Live /\ offs_tail \notin evicted
  BY DEF RegimeInv, Reports
<1>7. tracked \ (evicted \cup {offs_head}) = Live \ {offs_head}
      /\ (evicted \cup {offs_head}) \cap (Live \ {offs_head}) = {}
      /\ offs_tail \notin evicted \cup {offs_head}
  BY <1>4, <1>6
<1>8. Reports'
  BY <1>2, <1>3, <1>7 DEF Reports
<1> QED
  BY <1>5, <1>8

-----------------------------------------------------------------------------
(* Storing *)

\* All of the record fits, behind the others and without wrapping.
LEMMA StoresAll ==
  ASSUME RingInv, Regime, Layout, NEW f \in Fields, stored + RecordLen(f) <= Horizon
  PROVE  /\ AllStored(f) /\ Stored(f) = RecordLen(f)
         /\ \A j \in Nat : RecordByte(f, j) = j
         /\ data_tail + RecordLen(f) < DataSize
<1>1. /\ data_head \in Nat /\ data_tail \in Nat /\ data_head <= data_tail
      /\ data_tail + RecordLen(f) <= Horizon /\ 2 * Horizon <= DataSize
      /\ DataSize \in Nat /\ Horizon \in Nat
  BY Positions, Sizes DEF RingInv, Layout, Regime
<1>2. /\ NameLen[f] \in Nat /\ ValueLen[f] \in Nat /\ InfoSize \in Nat /\ InfoSize > 0
      /\ RecordLen(f) = InfoSize + NameLen[f] + ValueLen[f] /\ f \notin NullName
  BY Lengths, Sizes DEF Regime
<1>3. DataFree = DataSize - 1 - (data_tail - data_head)
  BY <1>1, FreeIs DEF RingInv
<1>4. RecordLen(f) <= DataFree /\ data_tail + RecordLen(f) < DataSize
  BY <1>1, <1>2, <1>3
<1>5. InfoStored(f) = InfoSize
  BY <1>1, <1>2, <1>3, <1>4 DEF InfoStored
<1>6. NameStored(f) = NameLen[f]
  BY <1>1, <1>2, <1>3, <1>4, <1>5 DEF NameStored
<1>7. ValueStored(f) = ValueLen[f]
  BY <1>1, <1>2, <1>3, <1>4, <1>5, <1>6 DEF ValueStored
<1>8. Stored(f) = RecordLen(f) /\ AllStored(f)
  BY <1>2, <1>5, <1>6, <1>7 DEF Stored, AllStored
<1>9. ASSUME NEW j \in Nat PROVE RecordByte(f, j) = j
  BY <1>2, <1>5, <1>6 DEF RecordByte
<1> QED
  BY <1>4, <1>8, <1>9

\* The octets behind the tail are the record, those before it are kept.
LEMMA StoredData ==
  ASSUME RingInv, Regime, Layout, NEW f \in Fields, stored + RecordLen(f) <= Horizon
  PROVE  /\ \A i \in 0 .. RecordLen(f) - 1 : DataWith(f)[data_tail + i] = <<f, i>>
         /\ \A p \in Nat : p < data_tail => DataWith(f)[p] = data[p]
<1>1. /\ data_tail \in Bytes /\ data_tail \in Nat /\ DataSize \in Nat /\ RecordLen(f) \in Nat
      /\ data_tail + RecordLen(f) < DataSize
      /\ Stored(f) = RecordLen(f) /\ \A j \in Nat : RecordByte(f, j) = j
  BY StoresAll, Positions, Lengths, Sizes DEF RingInv, TypeOK
<1>2. ASSUME NEW i \in 0 .. RecordLen(f) - 1
      PROVE  DataWith(f)[data_tail + i] = <<f, i>>
  <2>1. data_tail + i \in Bytes /\ i \in Nat /\ i < RecordLen(f) /\ data_tail <= data_tail + i
    BY <1>1 DEF Bytes
  <2>2. Dist(data_tail, data_tail + i, DataSize) = i
    BY <1>1, <2>1, ByteDist
  <2> QED
    BY <1>1, <2>1, <2>2 DEF DataWith
<1>3. ASSUME NEW p \in Nat, p < data_tail
      PROVE  DataWith(f)[p] = data[p]
  <2>1. p \in Bytes /\ ~(data_tail <= p)
    BY <1>1, <1>3 DEF Bytes
  <2>2. Dist(data_tail, p, DataSize) = p - data_tail + DataSize
    BY <1>1, <2>1, ByteDist
  <2>3. ~(Dist(data_tail, p, DataSize) < Stored(f))
    BY <1>1, <1>3, <2>2
  <2> QED
    BY <2>1, <2>3 DEF DataWith
<1> QED
  BY <1>2, <1>3

LEMMA Distribute ==
  ASSUME NEW n \in Nat, NEW a \in Nat, NEW b \in Nat
  PROVE  n * a + n * b = n * (a + b)
  OBVIOUS

\* There is a slot for every field that there is room for.
LEMMA SlotLeft ==
  ASSUME RegimeInv, Regime, pc = "add", AddFits
  PROVE  ~ OffsetsFull
<1> SUFFICES ASSUME OffsetsFull PROVE FALSE
  OBVIOUS
<1>1. RingInv /\ TypeOK /\ Layout
  BY DEF RegimeInv, RingInv
<1>2. RingCount = Entries - 1
  BY <1>1, FullIs, RingCountIs, Positions, Sizes
<1>3. num_headers = Entries - 1 /\ num_headers > 0 /\ num_headers \in Nat
  BY <1>1, <1>2, Sizes DEF Layout
<1>4. offs_head \in Live /\ OffsDist(offs_head) = 0
  BY <1>1, <1>3, HeadLive
<1> DEFINE a == num_headers * (InfoSize + 1)
           b == num_headers * (Overhead - InfoSize)
<1>5. data_tail - data_head >= a
  <2>1. RecordOf(offs_head)
    BY <1>4 DEF RegimeInv, RecordsIntact
  <2>2. data_tail - data_head >= (num_headers - 0) * (InfoSize + 1)
    BY <1>4, <2>1 DEF RecordOf
  <2>3. num_headers - 0 = num_headers
    BY <1>3
  <2> QED
    BY <2>2, <2>3
<1>6. InfoSize + 1 \in Nat /\ Overhead - InfoSize \in Nat
      /\ (InfoSize + 1) + (Overhead - InfoSize) = Overhead + 1
  BY Sizes
<1>7. a \in Nat /\ b \in Nat /\ a + b = num_headers * (Overhead + 1)
  BY <1>3, <1>6, Distribute, Products
<1> DEFINE all == num_headers * (Overhead + 1)
<1>8. Entries * (Overhead + 1) = all + (Overhead + 1) /\ all \in Nat
  <2>1. Entries = num_headers + 1 /\ Overhead + 1 \in Nat
    BY <1>3, Sizes
  <2> QED
    BY <1>3, <2>1, Products
<1>9. used_data = (data_tail - data_head) + b
  BY <1>1 DEF Layout
<1>10. field \in Fields /\ FieldSize(field) >= Overhead + 1 /\ FieldSize(field) \in Nat
  <2>1. field \in Fields
    BY <1>1 DEF TypeOK
  <2> QED
    BY <2>1, Lengths, Sizes DEF Regime
<1>11. FieldSize(field) <= max_data - used_data /\ max_data <= DataSize
       /\ max_data \in Nat /\ used_data \in Nat /\ data_tail \in Nat /\ data_head \in Nat
  BY <1>1, Positions DEF AddFits
<1>12. Entries * (Overhead + 1) > DataSize
  BY DEF Regime
<1> HIDE DEF a, b, all
<1> DEFINE limited == Entries * (Overhead + 1)
<1> HIDE DEF limited
<1>13. limited = all + (Overhead + 1) /\ limited > DataSize
  BY <1>8, <1>12 DEF limited
<1>14. a + b = all
  BY <1>7 DEF all
<1> QED
  BY <1>5, <1>7, <1>8, <1>9, <1>10, <1>11, <1>13, <1>14, Sizes

LEMMA StoreIs ==
  ASSUME RegimeInv, Regime, AddStore
  PROVE  /\ field \in Fields
         /\ offsets' = [offsets EXCEPT ![offs_tail] = data_tail]
         /\ offs_tail' = NextSlot(offs_tail) /\ offs_head' = offs_head
         /\ data' = DataWith(field) /\ data_head' = data_head
         /\ data_tail' = data_tail + RecordLen(field)
         /\ used_data' = used_data + FieldSize(field) /\ used_data' <= max_data
         /\ num_headers' = num_headers + 1
         /\ tracked' = (tracked \ evicted) \cup {offs_tail}
         /\ stored' = stored + RecordLen(field) /\ stored' <= Horizon
         /\ max_data' = max_data /\ evicted' = evicted /\ pc' = "idle" /\ ret' = "ok"
<1>1. RingInv /\ TypeOK /\ Layout /\ field \in Fields
  BY DEF RegimeInv, RingInv, AddStore, TypeOK
<1>2. stored + RecordLen(field) <= Horizon
  BY DEF RegimeInv, CallFits, AddStore
<1>3. AllStored(field) /\ Stored(field) = RecordLen(field) /\ data_tail + RecordLen(field) < DataSize
  BY <1>1, <1>2, StoresAll
<1>4. data_tail' = data_tail + RecordLen(field)
  <2>1. data_tail \in Bytes /\ RecordLen(field) \in Nat
    BY <1>1, Lengths DEF TypeOK
  <2> QED
    BY <1>3, <2>1, ByteMove DEF AddStore
<1>5. used_data + FieldSize(field) <= max_data /\ used_data + FieldSize(field) \in 0 .. U16 - 1
  <2>1. /\ used_data \in Nat /\ max_data \in 0 .. DataSize /\ FieldSize(field) \in Nat
        /\ FieldSize(field) <= max_data - used_data
    BY <1>1, Positions, Lengths, Sizes DEF AddStore, AddFits
  <2> QED
    BY <2>1, Sizes
<1>6. \A x \in 0 .. U16 - 1 : x % U16 = x
  BY Sizes
<1>7. /\ used_data' = (used_data + FieldSize(field)) % U16
      /\ num_headers' = num_headers + 1
      /\ tracked' = (tracked \ evicted) \cup {offs_tail}
      /\ pc' = "idle" /\ ret' = "ok"
  BY <1>3 DEF AddStore, Return
<1>8. used_data' = used_data + FieldSize(field)
  BY <1>5, <1>6, <1>7
<1> QED
  BY <1>1, <1>2, <1>4, <1>5, <1>7, <1>8 DEF AddStore, NextSlot

LEMMA StoreKeepsLayout ==
  ASSUME RegimeInv, Regime, AddStore
  PROVE  Layout'
<1>1. RingInv /\ TypeOK /\ Layout
  BY DEF RegimeInv, RingInv
<1>2. /\ field \in Fields /\ offs_tail' = NextSlot(offs_tail) /\ offs_head' = offs_head
      /\ data_head' = data_head /\ data_tail' = data_tail + RecordLen(field)
      /\ used_data' = used_data + FieldSize(field) /\ used_data' <= max_data
      /\ num_headers' = num_headers + 1
      /\ stored' = stored + RecordLen(field) /\ stored' <= Horizon /\ max_data' = max_data
  BY StoreIs
<1>3. RingCount' = RingCount + 1
  <2>1. RingCount' = Dist(offs_head, CbMove(offs_tail, 1, Entries), Entries)
    BY <1>2 DEF RingCount, OffsDist, NextSlot
  <2> QED
    BY <1>1, <2>1, RingAfterStore DEF AddStore
<1>4. /\ num_headers \in Nat /\ data_tail \in Nat /\ data_head \in Nat /\ used_data \in Nat
      /\ RecordLen(field) \in Nat /\ BodyLen(field) \in Nat /\ BodyLen(field) > 0
      /\ FieldSize(field) = BodyLen(field) + Overhead
      /\ RecordLen(field) = InfoSize + BodyLen(field)
  BY <1>1, <1>2, Lengths, Positions, Sizes DEF Regime, RecordLen
<1> DEFINE c == Overhead - InfoSize
           p == num_headers * c
<1>5. c \in Nat /\ p \in Nat /\ (num_headers + 1) * c = p + c /\ c + InfoSize = Overhead
  BY <1>4, Products, Sizes
<1>6. used_data = (data_tail - data_head) + p
  BY <1>1 DEF Layout
<1>7. used_data' = (data_tail' - data_head') + num_headers' * (Overhead - InfoSize)
  <2>1. num_headers' * (Overhead - InfoSize) = p + c
    BY <1>2, <1>5
  <2> HIDE DEF p, c
  <2>2. used_data' = (data_tail' - data_head') + (p + c)
    BY <1>2, <1>4, <1>5, <1>6, Sizes
  <2> QED
    BY <2>1, <2>2
<1>8. data_tail' = stored' /\ data_head' <= data_tail' /\ num_headers' = RingCount'
      /\ num_headers' # 0
  BY <1>1, <1>2, <1>3, <1>4 DEF Layout
<1> QED
  BY <1>2, <1>7, <1>8 DEF Layout

LEMMA StoreKeepsRecords ==
  ASSUME RegimeInv, Regime, AddStore
  PROVE  RecordsIntact'
<1>1. RingInv /\ TypeOK /\ Layout /\ RecordsIntact /\ ~ OffsetsFull
  BY DEF RegimeInv, RingInv, AddStore
<1>2. /\ field \in Fields /\ offsets' = [offsets EXCEPT ![offs_tail] = data_tail]
      /\ offs_tail' = NextSlot(offs_tail) /\ offs_head' = offs_head
      /\ data' = DataWith(field) /\ data_head' = data_head
      /\ data_tail' = data_tail + RecordLen(field) /\ num_headers' = num_headers + 1
  BY StoreIs
<1>3. /\ Live' = Live \cup {offs_tail} /\ offs_tail \notin Live
      /\ OffsDist(offs_tail) = num_headers
      /\ \A s \in Slots : OffsDist(s)' = OffsDist(s)
  BY <1>1, <1>2, LiveAfterStore DEF Layout
<1>4. stored + RecordLen(field) <= Horizon
  BY DEF RegimeInv, CallFits, AddStore
<1>5. /\ \A i \in 0 .. RecordLen(field) - 1 : data'[data_tail + i] = <<field, i>>
      /\ \A p \in Nat : p < data_tail => data'[p] = data[p]
  BY <1>1, <1>2, <1>4, StoredData
<1>6. /\ offs_tail \in Slots /\ offs_head \in Slots /\ offs_tail' # offs_tail
      /\ num_headers \in Nat /\ data_tail \in Nat /\ data_tail' \in Nat
      /\ RecordLen(field) \in Nat /\ RecordLen(field) >= InfoSize + 1
  <2>1. offs_tail \in 0 .. Entries - 1 /\ offs_tail \in Slots /\ offs_head \in Slots
        /\ num_headers \in Nat /\ data_tail \in Nat
    BY <1>1, Positions DEF TypeOK
  <2>2. offs_tail' # offs_tail
    BY <1>2, <2>1, SlotNext, Sizes DEF NextSlot
  <2>3. RecordLen(field) \in Nat /\ RecordLen(field) >= InfoSize + 1
    BY <1>2, Lengths, Sizes DEF Regime
  <2> QED
    BY <1>2, <2>1, <2>2, <2>3
<1>7. offsets'[offs_tail] = data_tail /\ \A s \in Slots : s # offs_tail => offsets'[s] = offsets[s]
  BY <1>1, <1>2, <1>6 DEF TypeOK
<1>8. ASSUME NEW t, t = offs_tail
      PROVE  RecordOf(t)'
  <2>1. FieldAt(t)' = field
    <3>1. 0 \in 0 .. RecordLen(field) - 1 /\ data_tail + 0 = data_tail
      BY <1>6, Sizes
    <3>2. offsets'[t] = data_tail /\ data'[data_tail] = <<field, 0>>
      BY <1>5, <1>7, <1>8, <3>1
    <3> QED
      BY <3>2 DEF FieldAt
  <2>2. IsRecord(offsets[t], FieldAt(t))'
    <3>1. offsets'[t] = data_tail
      BY <1>7, <1>8
    <3> QED
      BY <1>2, <1>5, <1>6, <2>1, <3>1 DEF IsRecord
  <2>3. t = offs_head => data_tail = data_head
    <3>1. OffsDist(offs_head) = 0
      BY <1>6, SlotDist, Positions, <1>1 DEF OffsDist
    <3> QED
      BY <1>1, <1>3, <1>8, <3>1 DEF Layout
  <2>4. data_tail' - data_tail >= ((num_headers + 1) - num_headers) * (InfoSize + 1)
    <3>1. (num_headers + 1) - num_headers = 1 /\ 1 * (InfoSize + 1) = InfoSize + 1
      BY <1>6, Sizes
    <3>2. data_tail' - data_tail = RecordLen(field)
      BY <1>2, <1>6
    <3> QED
      BY <1>6, <3>1, <3>2
  <2>5. OffsDist(t)' = num_headers /\ offsets'[t] = data_tail
    BY <1>3, <1>6, <1>7, <1>8
  <2>6. (data_tail - offsets[t] >= (num_headers - OffsDist(t)) * (InfoSize + 1))'
    BY <1>2, <2>4, <2>5
  <2>7. NextSlot(t) = offs_tail' /\ offsets'[t] + RecordLen(field) = data_tail'
    BY <1>2, <1>8, <2>5
  <2> QED
    BY <1>2, <2>1, <2>2, <2>3, <2>5, <2>6, <2>7 DEF RecordOf
<1>9. ASSUME NEW s \in Live
      PROVE  RecordOf(s)'
  <2>1. /\ RecordOf(s) /\ s \in Slots /\ s # offs_tail /\ OffsDist(s) \in 0 .. num_headers - 1
        /\ offsets[s] \in Nat
    BY <1>1, <1>3, LiveSlot, LiveOffset DEF RecordsIntact
  <2>2. offsets'[s] = offsets[s]
    BY <1>7, <2>1
  <2>3. IsRecord(offsets[s], FieldAt(s)) /\ FieldAt(s) \in Fields
        /\ offsets[s] + RecordLen(FieldAt(s)) <= data_tail
        /\ RecordLen(FieldAt(s)) \in Nat /\ RecordLen(FieldAt(s)) > 0
    BY <2>1, Lengths, Sizes DEF RecordOf, IsRecord
  <2>4. FieldAt(s)' = FieldAt(s)
    <3>1. offsets[s] < data_tail
      BY <1>6, <2>1, <2>3
    <3> QED
      BY <1>5, <2>1, <2>2, <3>1 DEF FieldAt
  <2>5. IsRecord(offsets[s], FieldAt(s))'
    <3>1. ASSUME NEW i \in 0 .. RecordLen(FieldAt(s)) - 1
          PROVE  data'[offsets[s] + i] = <<FieldAt(s), i>>
      <4>1. offsets[s] + i \in Nat /\ offsets[s] + i < data_tail
        BY <1>6, <2>1, <2>3
      <4> QED
        BY <1>5, <2>3, <4>1 DEF IsRecord
    <3>2. offsets[s] + RecordLen(FieldAt(s)) <= data_tail'
      BY <1>2, <1>6, <2>1, <2>3
    <3> QED
      BY <2>2, <2>3, <2>4, <3>1, <3>2 DEF IsRecord
  <2>6. /\ NextSlot(s) \in Slots /\ NextSlot(s) # offs_tail'
        /\ offsets'[NextSlot(s)] = IF NextSlot(s) = offs_tail THEN data_tail
                                   ELSE offsets[NextSlot(s)]
    <3>1. NextSlot(s) \in Slots
      BY <2>1, SlotNext DEF NextSlot
    <3>2. NextSlot(s) # offs_tail'
      BY <1>2, <1>6, <2>1, NextDiffers
    <3> QED
      BY <1>7, <3>1, <3>2
  <2>7. data_tail' - offsets[s] >= ((num_headers + 1) - OffsDist(s)) * (InfoSize + 1)
    <3> DEFINE n == num_headers - OffsDist(s)
               c == InfoSize + 1
    <3>1. n \in Nat /\ c \in Nat /\ (num_headers + 1) - OffsDist(s) = n + 1
      BY <1>6, <2>1, Sizes
    <3>2. data_tail - offsets[s] >= n * c
      BY <2>1 DEF RecordOf
    <3>3. n * c \in Nat /\ (n + 1) * c = n * c + c
      BY <3>1, Products
    <3> DEFINE p == n * c
    <3>4. RecordLen(field) >= c
      BY <1>6
    <3> HIDE DEF n, c, p
    <3>5. data_tail' - offsets[s] >= p + c
      BY <1>2, <1>6, <2>1, <3>1, <3>2, <3>3, <3>4 DEF p
    <3>6. (n + 1) * c = p + c
      BY <3>3 DEF p
    <3> QED
      BY <3>1, <3>5, <3>6 DEF c
  <2>8. (data_tail - offsets[s] >= (num_headers - OffsDist(s)) * (InfoSize + 1))'
    BY <1>2, <1>3, <2>1, <2>2, <2>7
  <2>9. s = offs_head => offsets[s] = data_head
    BY <2>1 DEF RecordOf
  <2>10. offsets[s] + RecordLen(FieldAt(s)) = offsets'[NextSlot(s)]
    BY <2>1, <2>6 DEF RecordOf
  <2> QED
    BY <1>2, <2>2, <2>4, <2>5, <2>6, <2>8, <2>9, <2>10 DEF RecordOf
<1>10. ASSUME NEW s \in Live'
      PROVE  RecordOf(s)'
  BY <1>3, <1>8, <1>9
<1> QED
  BY <1>10 DEF RecordsIntact

LEMMA StoreKeepsReports ==
  ASSUME RegimeInv, Regime, AddStore
  PROVE  CallFits' /\ Reports'
<1>1. /\ offs_head' = offs_head /\ num_headers' = num_headers + 1
      /\ tracked' = (tracked \ evicted) \cup {offs_tail} /\ evicted' = evicted /\ pc' = "idle"
  BY StoreIs
<1>2. Live' = Live \cup {offs_tail}
  BY <1>1, LiveAfterStore DEF RegimeInv, Layout
<1>3. evicted \cap Live = {} /\ tracked \ evicted = Live /\ offs_tail \notin evicted
  BY DEF RegimeInv, Reports, AddStore
<1>4. Reports'
  BY <1>1, <1>2, <1>3 DEF Reports
<1> QED
  BY <1>1, <1>4 DEF CallFits

-----------------------------------------------------------------------------
(* The steps that leave the records alone or drop them all *)

LEMMA SameRecords ==
  ASSUME Layout, RecordsIntact,
         UNCHANGED <<ring, bytes, num_headers, used_data, stored>>, used_data <= max_data'
  PROVE  Layout' /\ RecordsIntact' /\ Live' = Live
<1>1. UNCHANGED <<offsets, offs_head, offs_tail, data, data_head, data_tail,
                  num_headers, used_data, stored>>
  BY DEF ring, bytes
<1>2. Layout'
  BY <1>1 DEF Layout, RingCount, OffsDist
<1>3. Live' = Live
  BY <1>1 DEF Live, OffsDist
<1>4. ASSUME NEW s \in Live
      PROVE  RecordOf(s)'
  <2>1. RecordOf(s)
    BY DEF RecordsIntact
  <2> QED
    BY <1>1, <2>1 DEF RecordOf, IsRecord, FieldAt, OffsDist
<1> QED
  BY <1>2, <1>3, <1>4 DEF RecordsIntact

LEMMA NoneLive ==
  ASSUME TypeOK, num_headers = 0
  PROVE  Live = {}
<1>1. \A s \in Slots : OffsDist(s) \in Nat
  BY SlotDist DEF TypeOK, OffsDist
<1> QED
  BY <1>1 DEF Live

LEMMA ClearedRecords ==
  ASSUME RingInv', ClearTable, max_data' \in Nat
  PROVE  Layout' /\ RecordsIntact' /\ Live' = {}
<1>1. Live' = {}
  <2>1. \A s \in Slots : OffsDist(s)' \in Nat
    BY SlotDist DEF RingInv, TypeOK, OffsDist
  <2> QED
    BY <2>1 DEF ClearTable, Live
<1>2. RingCount' = 0
  BY SlotDist, Sizes DEF ClearTable, RingCount, OffsDist, Slots
<1>3. 0 * (Overhead - InfoSize) = 0
  BY Sizes
<1>4. Layout'
  BY <1>2, <1>3, Sizes DEF ClearTable, Layout
<1> QED
  BY <1>1, <1>4 DEF RecordsIntact

\* What an eviction finds, before it is tried.
LEMMA EvictHasOne ==
  ASSUME RegimeInv,
         (pc = "add" /\ ~ AddFits) \/ (pc = "set_max" /\ limit < used_data)
  PROVE  num_headers > 0
<1> SUFFICES ASSUME num_headers = 0 PROVE FALSE
  BY Positions DEF RegimeInv, RingInv
<1>1. /\ used_data = (data_tail - data_head) + 0 * (Overhead - InfoSize)
      /\ data_tail = data_head /\ data_tail \in Nat
  BY Positions DEF RegimeInv, RingInv, Layout
<1>2. used_data = 0
  <2>1. 0 * (Overhead - InfoSize) = 0
    BY Sizes
  <2> QED
    BY <1>1, <2>1
<1>3. CASE pc = "add" /\ ~ AddFits
  <2>1. FieldSize(field) <= max_data /\ max_data \in Nat
    BY <1>3, Positions DEF RegimeInv, RingInv, CallFits
  <2> QED
    BY <1>2, <1>3, <2>1 DEF AddFits
<1>4. CASE pc = "set_max" /\ limit < used_data
  <2>1. limit > 0 /\ limit \in Nat
    BY <1>4, Positions DEF RegimeInv, RingInv, CallFits
  <2> QED
    BY <1>2, <1>4, <2>1
<1> QED
  BY <1>3, <1>4

-----------------------------------------------------------------------------
(* The invariant *)

LEMMA RegimeInit ==
  ASSUME Init
  PROVE  RegimeInv
<1>1. RingInv
  BY RingInvInit
<1>2. Live = {}
  BY <1>1, NoneLive DEF RingInv, Init
<1>3. RingCount = 0
  BY SlotDist, Sizes DEF Init, RingCount, OffsDist, Slots
<1>4. 0 * (Overhead - InfoSize) = 0
  BY Sizes
<1>5. Layout
  BY <1>3, <1>4, Sizes DEF Init, Layout
<1>6. RecordsIntact /\ CallFits /\ Reports
  BY <1>2 DEF Init, RecordsIntact, CallFits, Reports
<1> QED
  BY <1>1, <1>5, <1>6 DEF RegimeInv

LEMMA RegimeStep ==
  ASSUME RegimeInv, Regime, Step
  PROVE  Layout' /\ RecordsIntact' /\ CallFits' /\ Reports'
<1>1. CASE AddEvict \/ SetMaxEvict
  <2>1. num_headers > 0 /\ Evict /\ pc # "idle"
    BY <1>1, EvictHasOne DEF AddEvict, SetMaxEvict
  <2>2. RingInv /\ Layout /\ RecordsIntact
    BY DEF RegimeInv
  <2> QED
    BY <2>1, <2>2, EvictKeepsLayout, EvictKeepsRecords, EvictKeepsReports
<1>2. CASE AddNoOffset
  BY <1>2, SlotLeft DEF AddNoOffset
<1>3. CASE AddStore
  BY <1>3, StoreKeepsLayout, StoreKeepsRecords, StoreKeepsReports
<1>4. CASE SetMaxEnd
  <2>1. used_data <= max_data'
    BY <1>4, Positions DEF SetMaxEnd, RegimeInv, RingInv
  <2>2. Layout' /\ RecordsIntact' /\ Live' = Live
    BY <1>4, <2>1, SameRecords DEF SetMaxEnd, RegimeInv
  <2>3. pc' = "idle" /\ tracked' = tracked \ evicted /\ evicted' = evicted /\ pc # "idle"
    BY <1>4 DEF SetMaxEnd, Return
  <2>4. CallFits' /\ Reports'
    BY <2>2, <2>3 DEF RegimeInv, CallFits, Reports
  <2> QED
    BY <2>2, <2>4
<1> QED
  BY <1>1, <1>2, <1>3, <1>4 DEF Step

LEMMA RegimeStart ==
  ASSUME RegimeInv, Regime, RingInv', Start
  PROVE  Layout' /\ RecordsIntact' /\ CallFits' /\ Reports'
<1>1. Layout /\ RecordsIntact /\ (pc = "idle" => tracked = Live) /\ used_data <= max_data
  BY DEF RegimeInv, Reports, Layout
<1>2. CASE Clear \/ \E f \in Fields : AddTooLarge(f)
  <2>1. ClearTable /\ max_data' = DataSize /\ pc' = "idle" /\ tracked' = {}
    BY <1>2 DEF Clear, AddTooLarge, Return
  <2>2. Layout' /\ RecordsIntact' /\ Live' = {}
    BY <2>1, ClearedRecords, Sizes
  <2> QED
    BY <2>1, <2>2 DEF CallFits, Reports
<1>3. ASSUME NEW f \in Fields, AddBegin(f)
      PROVE  Layout' /\ RecordsIntact' /\ CallFits' /\ Reports'
  <2>1. /\ UNCHANGED <<ring, bytes, num_headers, used_data, max_data, tracked, stored>>
        /\ pc = "idle" /\ pc' = "add" /\ field' = f /\ evicted' = {}
        /\ stored + RecordLen(f) <= Horizon /\ FieldSize(f) <= max_data
    BY <1>3 DEF AddBegin, sums
  <2>2. Layout' /\ RecordsIntact' /\ Live' = Live
    BY <1>1, <2>1, SameRecords
  <2> QED
    BY <1>1, <2>1, <2>2 DEF CallFits, Reports
<1>4. CASE SetMaxZero
  BY <1>4 DEF SetMaxZero, Regime
<1>5. ASSUME NEW m \in MaxSizes, SetMaxRefused(m) \/ SetMaxBegin(m)
      PROVE  Layout' /\ RecordsIntact' /\ CallFits' /\ Reports'
  <2>1. /\ UNCHANGED <<ring, bytes, num_headers, used_data, max_data, tracked, stored>>
        /\ pc = "idle" /\ evicted' = {}
        /\ pc' = "idle" \/ (pc' = "set_max" /\ limit' = m /\ m > 0)
    BY <1>5 DEF SetMaxRefused, SetMaxBegin, sums, Return
  <2>2. Layout' /\ RecordsIntact' /\ Live' = Live
    BY <1>1, <2>1, SameRecords
  <2> QED
    BY <1>1, <2>1, <2>2 DEF CallFits, Reports
<1> QED
  BY <1>2, <1>3, <1>4, <1>5 DEF Start

LEMMA RegimeNext ==
  ASSUME Regime
  PROVE  RegimeInv /\ [Next]_vars => RegimeInv'
<1> SUFFICES ASSUME RegimeInv, [Next]_vars PROVE RegimeInv'
  OBVIOUS
<1>1. RingInv'
  BY RingInvStep DEF RegimeInv
<1>2. CASE Step
  BY <1>1, <1>2, RegimeStep DEF RegimeInv
<1>3. CASE Start
  BY <1>1, <1>3, RegimeStart DEF RegimeInv
<1>4. CASE UNCHANGED vars
  <2>1. /\ UNCHANGED <<ring, bytes, num_headers, used_data, max_data, stored>>
        /\ UNCHANGED <<pc, field, limit, evicted, tracked, offs_tail>>
    BY <1>4 DEF vars, sums, call, ring
  <2>2. Layout' /\ RecordsIntact' /\ Live' = Live
    BY <2>1, SameRecords DEF RegimeInv, Layout
  <2>3. CallFits' /\ Reports'
    BY <2>1, <2>2 DEF RegimeInv, CallFits, Reports
  <2> QED
    BY <1>1, <2>2, <2>3 DEF RegimeInv
<1> QED
  BY <1>2, <1>3, <1>4 DEF Next

-----------------------------------------------------------------------------
(* What follows from the invariant *)

LEMMA LiveHasData ==
  ASSUME RingInv, num_headers = RingCount, NEW s \in Live
  PROVE  HasData(s)
<1>1. /\ s \in Slots /\ OffsDist(s) \in 0 .. num_headers - 1
      /\ offs_head \in Slots /\ offs_tail \in Slots
  BY LiveSlot DEF RingInv, TypeOK
<1>2. /\ s \in 0 .. Entries - 1 /\ offs_head \in 0 .. Entries - 1 /\ offs_tail \in 0 .. Entries - 1
      /\ num_headers \in 0 .. Entries - 1
  BY <1>1, Positions DEF RingInv, Slots
<1>3. /\ OffsDist(s) = IF offs_head <= s THEN s - offs_head ELSE s - offs_head + Entries
      /\ num_headers = IF offs_head <= offs_tail THEN offs_tail - offs_head
                                                ELSE offs_tail - offs_head + Entries
      /\ IndexSwitch(s) = IF s <= offs_tail THEN offs_tail - s ELSE offs_tail - s + Entries
  BY <1>1, SlotDist, RingCountIs DEF OffsDist, IndexSwitch, RingInv
<1> QED
  BY <1>1, <1>2, <1>3, Sizes DEF HasData

LEMMA FetchIs ==
  ASSUME RegimeInv, Regime, NEW s \in Live
  PROVE  Fetch(s) = FieldAt(s)
<1> DEFINE o == offsets[s]
           f == FieldAt(s)
           k == InfoSize + NameLen[f]
<1>1. RingInv /\ Layout /\ IsRecord(o, f) /\ o \in Bytes /\ o \in Nat
  BY LiveOffset DEF RegimeInv, RecordsIntact, RecordOf, Bytes
<1>2. /\ f \in Fields /\ NameLen[f] \in Nat /\ ValueLen[f] \in Nat /\ InfoSize \in Nat
      /\ RecordLen(f) = InfoSize + NameLen[f] + ValueLen[f] /\ o + RecordLen(f) <= data_tail
      /\ data_tail \in Nat /\ data_tail < DataSize
  BY <1>1, Lengths, Sizes, Positions DEF IsRecord, RingInv
<1> HIDE DEF o, f
<1>3. CbMove(o, InfoSize, DataSize) = o + InfoSize
  <2>1. o + InfoSize < DataSize
    BY <1>1, <1>2, Sizes
  <2> QED
    BY <1>1, <1>2, <2>1, ByteMove
<1>4. CbMove(o, k, DataSize) = o + k
  <2>1. k \in Nat /\ o + k < DataSize
    BY <1>1, <1>2, Sizes
  <2> QED
    BY <1>1, <2>1, ByteMove
<1>5. InfoReadsAs(o, f)
  BY <1>1, RecordInfo
<1>6. ReadsAs(o + InfoSize, f, InfoSize, NameLen[f])
  <2>1. InfoSize + NameLen[f] <= RecordLen(f)
    BY <1>2
  <2> QED
    BY <1>1, <1>2, <2>1, RecordReads
<1>7. ReadsAs(o + k, f, k, ValueLen[f])
  <2>1. k \in Nat /\ k + ValueLen[f] <= RecordLen(f)
    BY <1>2
  <2> HIDE DEF k
  <2> QED
    BY <1>1, <1>2, <2>1, RecordReads
<1>8. FetchesAs(s, f)
  BY <1>3, <1>4, <1>5, <1>6, <1>7 DEF FetchesAs, o
<1>9. \A g \in Fields : FetchesAs(s, g) => g = f
  BY <1>1, OneRecord DEF FetchesAs, o
<1>10. HasData(s)
  BY <1>1, LiveHasData DEF Layout
<1>11. Fetch(s) = f
  BY <1>2, <1>8, <1>9, <1>10 DEF Fetch
<1> QED
  BY <1>11 DEF f

LEMMA RegimeMeans ==
  ASSUME RegimeInv, Regime
  PROVE  /\ EvictedReported /\ EvictedAreGone /\ RecordsContiguous /\ FetchReturnsStored
         /\ Accounting /\ WithinMax /\ EvictFindsField
<1>1. EvictedReported /\ EvictedAreGone
  BY DEF RegimeInv, Reports, EvictedReported, EvictedAreGone
<1>2. RecordsContiguous
  <2>1. ASSUME NEW s \in Live
        PROVE  CbMove(offsets[s], RecordLen(FieldAt(s)), DataSize)
                 = offsets[s] + RecordLen(FieldAt(s))
    <3>1. IsRecord(offsets[s], FieldAt(s)) /\ offsets[s] \in Nat /\ offsets[s] \in Bytes
      BY LiveOffset DEF RegimeInv, RecordsIntact, RecordOf, Bytes
    <3>2. RecordLen(FieldAt(s)) \in Nat /\ offsets[s] + RecordLen(FieldAt(s)) < DataSize
      BY <3>1, Lengths, Positions, Sizes DEF IsRecord, RegimeInv, RingInv
    <3> QED
      BY <3>1, <3>2, ByteMove
  <2>2. \A s \in Live : RecordOf(s) /\ FieldAt(s) \in Fields
    BY DEF RegimeInv, RecordsIntact, RecordOf, IsRecord
  <2>3. num_headers = RingCount /\ (num_headers = 0 => data_head = data_tail)
    BY DEF RegimeInv, Layout
  <2> QED
    BY <2>1, <2>2, <2>3 DEF RecordsContiguous, RecordOf, NextSlot
<1>3. FetchReturnsStored
  BY FetchIs DEF FetchReturnsStored
<1>4. Accounting
  <2>1. DataUsed = data_tail - data_head
    BY FreeIs DEF RegimeInv, RingInv, Layout
  <2> QED
    BY <2>1 DEF RegimeInv, Layout, Accounting
<1>5. WithinMax
  BY DEF RegimeInv, Layout, WithinMax
<1>6. EvictFindsField
  BY EvictHasOne DEF EvictFindsField
<1> QED
  BY <1>1, <1>2, <1>3, <1>4, <1>5, <1>6

LEMMA RegimeHolds ==
  ASSUME Regime
  PROVE  Spec => [](RegimeInv /\ EvictedReported /\ EvictedAreGone /\ RecordsContiguous
                    /\ FetchReturnsStored /\ Accounting /\ WithinMax /\ EvictFindsField)
<1>1. Init => RegimeInv
  BY RegimeInit
<1>2. RegimeInv /\ [Next]_vars => RegimeInv'
  BY RegimeNext
<1>3. RegimeInv => /\ EvictedReported /\ EvictedAreGone /\ RecordsContiguous
                   /\ FetchReturnsStored /\ Accounting /\ WithinMax /\ EvictFindsField
  BY RegimeMeans
<1> QED
  BY <1>1, <1>2, <1>3, PTL DEF Spec

\* A caller that drops the slots in each evicted set, and takes up the slot of
\* each field added, holds exactly the slots in use after every call
\* (header_table.c:578-587 and 682-685).
THEOREM EvictionsReported ==
  ASSUME Regime
  PROVE  Spec => []EvictedReported
BY RegimeHolds, PTL

\* A slot that is reported holds no field, neither half way through the loop of
\* an eviction nor once the new field has been stored, maybe in a slot that an
\* earlier call reported.
THEOREM EvictedSlotsAreFree ==
  ASSUME Regime
  PROVE  Spec => []EvictedAreGone
BY RegimeHolds, PTL

\* The records of the live fields lie end to end, oldest first, from data_head
\* to data_tail.
THEOREM RecordsLieEndToEnd ==
  ASSUME Regime
  PROVE  Spec => []RecordsContiguous
BY RegimeHolds, PTL

\* Every live field is read back as it was stored, however many were added and
\* evicted before (hpack_header_table_get, header_data_get).
THEOREM ReadsBackWhatIsStored ==
  ASSUME Regime
  PROVE  Spec => []FetchReturnsStored
BY RegimeHolds, PTL

\* used_data is the size HPACK gives the table, although what an eviction takes
\* off it is read back from the octets (hpack_header_table_add,
\* header_table_evict).
THEOREM SizeIsAccounted ==
  ASSUME Regime
  PROVE  Spec => []Accounting
BY RegimeHolds, PTL

\* A call that has returned, an add as well as a lowered maximum, leaves the
\* table within its maximum.
THEOREM StaysWithinMax ==
  ASSUME Regime
  PROVE  Spec => []WithinMax
BY RegimeHolds, PTL

\* The loops that evict come to an end before the table is empty
\* (header_table.c:630 "We know there are elements").
THEOREM EvictionFindsAField ==
  ASSUME Regime
  PROVE  Spec => []EvictFindsField
BY RegimeHolds, PTL

\* "There's been an error, which is impossible" (header_table.c:595): a field
\* that is not refused outright is stored.
THEOREM AddNeverFails ==
  ASSUME Regime
  PROVE  Spec => NeverFails
<1>1. Init => RegimeInv
  BY RegimeInit
<1>2. RegimeInv /\ [Next]_vars => RegimeInv'
  BY RegimeNext
<1>3. RegimeInv /\ [Next]_vars => [pc = "add" /\ pc' = "idle" => ret' = "ok"]_vars
  <2> SUFFICES ASSUME RegimeInv, Next, pc = "add", pc' = "idle"
               PROVE  ret' = "ok"
    OBVIOUS
  <2>1. CASE AddStore
    BY <2>1, StoreIs
  <2>2. CASE AddNoOffset
    BY <2>2, SlotLeft DEF AddNoOffset
  <2>3. CASE AddEvict
    <3>1. EvictOldest
      BY <2>3, EvictHasOne, EvictIs DEF AddEvict, RegimeInv
    <3> QED
      BY <3>1 DEF EvictOldest, call
  <2> QED
    BY <2>1, <2>2, <2>3 DEF Next, Step, Start, SetMaxEvict, SetMaxEnd, Clear, AddTooLarge,
       AddBegin, SetMaxZero, SetMaxRefused, SetMaxBegin
<1> QED
  BY <1>1, <1>2, <1>3, PTL DEF Spec, NeverFails
=============================================================================
