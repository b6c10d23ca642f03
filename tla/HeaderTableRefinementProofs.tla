-------------------- MODULE HeaderTableRefinementProofs --------------------
(***************************************************************************)
(* The header table implements the queue of HeaderTableFifo, for every     *)
(* value of the constants in the regime of HeaderTableRegimeProofs.        *)
(***************************************************************************)
EXTENDS HeaderTableRefinement, HeaderTableRegimeProofs, FiniteSetTheorems,
        SequenceTheorems, WellFoundedInduction

-----------------------------------------------------------------------------
(* Sums *)

\* sum adds up the first n fields of s one by one.
SumsUp(s, n, sum) ==
  \A k \in 0 .. n : sum[k] = IF k = 0 THEN 0 ELSE sum[k - 1] + SizeOf[s[k]]

\* What the sum of a sequence comes to: what any function comes to that adds
\* up its fields one by one.
LEMMA TotalIs ==
  ASSUME NEW s, NEW n \in Nat, Len(s) = n, NEW sum, SumsUp(s, n, sum)
  PROVE  Fifo!TotalSize(s) = sum[n]
<1> DEFINE Adds(f) ==
             f = [k \in 0 .. Len(s) |-> IF k = 0 THEN 0 ELSE f[k - 1] + SizeOf[s[k]]]
           upto == CHOOSE f : Adds(f)
           told == [k \in 0 .. n |-> sum[k]]
<1>1. Fifo!TotalSize(s) = upto[Len(s)]
  BY Zenon DEF Fifo!TotalSize
<1>2. Adds(told)
  <2>1. ASSUME NEW k \in 0 .. n
        PROVE  sum[k] = IF k = 0 THEN 0 ELSE told[k - 1] + SizeOf[s[k]]
    <3>1. k # 0 => k - 1 \in 0 .. n /\ told[k - 1] = sum[k - 1]
      OBVIOUS
    <3> HIDE DEF told
    <3> QED
      BY <3>1 DEF SumsUp
  <2>2. told = [k \in 0 .. n |-> sum[k]]
    OBVIOUS
  <2> HIDE DEF told
  <2>3. [k \in 0 .. n |-> sum[k]]
          = [k \in 0 .. n |-> IF k = 0 THEN 0 ELSE told[k - 1] + SizeOf[s[k]]]
    BY <2>1
  <2> QED
    BY <2>2, <2>3
<1> HIDE DEF told, Adds
<1>3. Adds(upto)
  BY <1>2
<1> HIDE DEF upto
<1>4. \A k \in 0 .. n : upto[k] = IF k = 0 THEN 0 ELSE upto[k - 1] + SizeOf[s[k]]
  <2>1. upto = [k \in 0 .. n |-> IF k = 0 THEN 0 ELSE upto[k - 1] + SizeOf[s[k]]]
    BY <1>3 DEF Adds
  <2> QED
    BY <2>1
<1> DEFINE differ == {k \in 0 .. n : upto[k] # sum[k]}
<1>5. differ = {}
  <2> SUFFICES ASSUME differ # {} PROVE FALSE
    OBVIOUS
  <2>0. differ \in SUBSET Nat
    OBVIOUS
  <2>1. PICK x \in differ : \A y \in differ : ~ (<<y, x>> \in OpToRel(<, Nat))
    <3> HIDE DEF differ
    <3> QED
      BY <2>0, NatLessThanWellFounded, WFMin
  <2>2. x \in 0 .. n /\ upto[x] # sum[x] /\ x # 0
    <3>1. 0 \in 0 .. n /\ sum[0] = 0
      BY DEF SumsUp
    <3> QED
      BY <1>4, <2>1, <3>1
  <2>3. x - 1 \in 0 .. n /\ x - 1 \in Nat /\ x \in Nat /\ x - 1 < x
    BY <2>2
  <2>4. upto[x - 1] = sum[x - 1]
    BY <2>1, <2>3 DEF OpToRel
  <2>5. sum[x] = sum[x - 1] + SizeOf[s[x]]
    BY <2>2 DEF SumsUp
  <2> QED
    BY <1>4, <2>2, <2>4, <2>5
<1>6. n \in 0 .. n
  OBVIOUS
<1>7. upto[n] = sum[n]
  BY <1>5, <1>6
<1> QED
  BY <1>1, <1>7
-----------------------------------------------------------------------------
(* The fields the queue is read from: those evicted by the call under way, *)
(* which still lie behind the ones in the table, and those in the table.   *)

Seen == num_headers + Pending

SeenSlot(k) == (offs_head - Pending + k - 1 + Entries) % Entries

SeenField(k) == FieldAt(SeenSlot(k))

\* Where the record after the k-th starts.
SeenAt(k) == IF k < Seen THEN offsets[SeenSlot(k + 1)] ELSE data_tail

SeenRecords ==
  \A k \in 1 .. Seen :
    /\ IsRecord(SeenAt(k - 1), SeenField(k))
    /\ SeenAt(k) = SeenAt(k - 1) + RecordLen(SeenField(k))

\* The size of what is behind the k-th.
SizeFrom(k) == (data_tail - SeenAt(k)) + (Seen - k) * (Overhead - InfoSize)

\* What the call under way has to bring the size down to.
Room == IF pc = "add" THEN max_data - FieldSize(field) ELSE limit

\* Each field was only evicted because what there was did not fit.
EvictedForRoom == \A k \in 0 .. Pending - 1 : SizeFrom(k) > Room

SeenFacts == Seen < Entries /\ SeenRecords /\ SeenAt(Pending) = data_head

SeenInv ==
  pc # "idle" => /\ SeenFacts
                 /\ EvictedForRoom
                 /\ pc = "set_max" => limit \in MaxSizes
-----------------------------------------------------------------------------
(* Slots *)

LEMMA PendingType ==
  ASSUME TypeOK
  PROVE  Pending \in Nat /\ IsFiniteSet(evicted)
<1>1. IsFiniteSet(Slots)
  BY FS_Interval, Sizes DEF Slots
<1>2. IsFiniteSet(evicted)
  BY <1>1, FS_Subset DEF TypeOK
<1>3. Cardinality(evicted) \in Nat
  BY <1>2, FS_CardinalityType
<1> QED
  BY <1>2, <1>3 DEF Pending

LEMMA ModIs ==
  ASSUME NEW n \in Nat, n > 0, NEW x \in Nat, x < 3 * n
  PROVE  x % n = IF x < n THEN x ELSE IF x < 2 * n THEN x - n ELSE x - 2 * n
  OBVIOUS

\* Where the k-th lies: around the ring from the oldest in the table.
LEMMA SeenSlotIs ==
  ASSUME TypeOK, Seen < Entries, NEW k \in 1 .. Entries, k <= Seen + 1
  PROVE  /\ SeenSlot(k) \in Slots
         /\ SeenSlot(k) = LET j == offs_head - Pending + k - 1
                          IN  IF j < 0 THEN j + Entries
                              ELSE IF j < Entries THEN j ELSE j - Entries
<1> DEFINE j == offs_head - Pending + k - 1
<1>1. /\ Pending \in Nat /\ offs_head \in 0 .. Entries - 1 /\ num_headers \in 0 .. Entries - 1
      /\ num_headers + Pending < Entries /\ k <= num_headers + Pending + 1
      /\ Entries \in Nat /\ Entries > 1
  BY PendingType, Positions, Sizes DEF Seen
<1>2. j \in Int /\ 0 <= j + Entries /\ j + Entries < 3 * Entries /\ j < 2 * Entries
      /\ 0 - Entries < j
  BY <1>1
<1>3. SeenSlot(k) = (j + Entries) % Entries
  BY DEF SeenSlot
<1> HIDE DEF j
<1>4. SeenSlot(k) = IF j < 0 THEN j + Entries ELSE IF j < Entries THEN j ELSE j - Entries
  BY <1>1, <1>2, <1>3, ModIs
<1>5. SeenSlot(k) \in Slots
  BY <1>1, <1>2, <1>4 DEF Slots
<1> QED
  BY <1>4, <1>5 DEF j

\* The fields in the table are the last ones seen, and the slot after them is
\* the next one to be taken.
LEMMA LiveSeen ==
  ASSUME RingInv, num_headers = RingCount, Seen < Entries
  PROVE  /\ \A k \in 1 .. num_headers : /\ SeenSlot(Pending + k) \in Live
                                        /\ OffsDist(SeenSlot(Pending + k)) = k - 1
         /\ SeenSlot(Seen + 1) = offs_tail
<1>1. /\ Pending \in Nat /\ offs_head \in 0 .. Entries - 1 /\ num_headers \in 0 .. Entries - 1
      /\ num_headers + Pending < Entries /\ Entries \in Nat /\ Entries > 1
      /\ offs_head \in Slots /\ offs_tail \in Slots
  BY PendingType, Positions, Sizes DEF Seen, RingInv, TypeOK
<1>2. ASSUME NEW k \in 1 .. num_headers + 1
      PROVE  SeenSlot(Pending + k) \in Slots /\ OffsDist(SeenSlot(Pending + k)) = k - 1
  <2> DEFINE s == SeenSlot(Pending + k)
  <2>1. Pending + k \in 1 .. Entries /\ Pending + k <= Seen + 1
    BY <1>1 DEF Seen
  <2>2. s \in Slots
    BY <2>1, SeenSlotIs DEF RingInv
  <2>3. s = IF offs_head + k - 1 < Entries THEN offs_head + k - 1
                                           ELSE offs_head + k - 1 - Entries
    <3>1. offs_head - Pending + (Pending + k) - 1 = offs_head + k - 1
      BY <1>1
    <3> QED
      BY <1>1, <2>1, <3>1, SeenSlotIs DEF RingInv
  <2> HIDE DEF s
  <2>4. OffsDist(s) = IF offs_head <= s THEN s - offs_head ELSE s - offs_head + Entries
    BY <1>1, <2>2, SlotDist DEF OffsDist
  <2>5. OffsDist(s) = k - 1
    BY <1>1, <2>3, <2>4
  <2> QED
    BY <2>2, <2>5 DEF s
<1>3. ASSUME NEW k \in 1 .. num_headers
      PROVE  SeenSlot(Pending + k) \in Live /\ OffsDist(SeenSlot(Pending + k)) = k - 1
  <2>1. k \in 1 .. num_headers + 1 /\ k - 1 < num_headers
    BY <1>1
  <2> QED
    BY <1>2, <2>1 DEF Live
<1>4. SeenSlot(Seen + 1) = offs_tail
  <2>1. num_headers + 1 \in 1 .. num_headers + 1 /\ Pending + (num_headers + 1) = Seen + 1
        /\ (num_headers + 1) - 1 = num_headers
    BY <1>1 DEF Seen
  <2>2. SeenSlot(Seen + 1) \in Slots /\ OffsDist(SeenSlot(Seen + 1)) = OffsDist(offs_tail)
    BY <1>2, <2>1 DEF RingCount
  <2> QED
    BY <1>1, <2>2, DistInjective
<1> QED
  BY <1>3, <1>4

LEMMA NextSeen ==
  ASSUME TypeOK, Seen < Entries, NEW k \in 1 .. Seen
  PROVE  NextSlot(SeenSlot(k)) = SeenSlot(k + 1)
<1>1. /\ Pending \in Nat /\ offs_head \in 0 .. Entries - 1 /\ num_headers \in 0 .. Entries - 1
      /\ Seen \in Nat /\ Seen < Entries /\ Pending <= Seen /\ Entries \in Nat /\ Entries > 1
  BY PendingType, Positions, Sizes DEF Seen
<1>2. k \in 1 .. Entries /\ k <= Seen + 1 /\ k + 1 \in 1 .. Entries /\ k + 1 <= Seen + 1
  BY <1>1
<1> DEFINE s == SeenSlot(k)
           t == SeenSlot(k + 1)
<1>3. s \in Slots /\ NextSlot(s) = IF s = Entries - 1 THEN 0 ELSE s + 1
  BY <1>2, SeenSlotIs, SlotNext DEF NextSlot
<1>4. s = LET j == offs_head - Pending + k - 1
          IN  IF j < 0 THEN j + Entries ELSE IF j < Entries THEN j ELSE j - Entries
  BY <1>2, SeenSlotIs
<1>5. t = LET j == offs_head - Pending + (k + 1) - 1
          IN  IF j < 0 THEN j + Entries ELSE IF j < Entries THEN j ELSE j - Entries
  BY <1>2, SeenSlotIs
<1> HIDE DEF s, t
<1>6. NextSlot(s) = t
  BY <1>1, <1>2, <1>3, <1>4, <1>5
<1> QED
  BY <1>6 DEF s, t

-----------------------------------------------------------------------------
(* The fields seen *)

\* While nothing has been evicted they are those in the table.
LEMMA SeenAtRest ==
  ASSUME RegimeInv, Pending = 0
  PROVE  SeenFacts
<1>1. RingInv /\ TypeOK /\ Layout /\ num_headers = RingCount /\ RecordsIntact
  BY DEF RegimeInv, RingInv, Layout
<1>2. Seen = num_headers /\ Seen < Entries /\ num_headers \in 0 .. Entries - 1 /\ Entries \in Nat
  BY <1>1, Positions, Sizes DEF Seen
<1>3. \A k \in 1 .. num_headers : SeenSlot(k) \in Live /\ OffsDist(SeenSlot(k)) = k - 1
  <2> SUFFICES ASSUME NEW k \in 1 .. num_headers
               PROVE  SeenSlot(k) \in Live /\ OffsDist(SeenSlot(k)) = k - 1
    OBVIOUS
  <2>1. Pending + k = k
    OBVIOUS
  <2>2. SeenSlot(Pending + k) \in Live /\ OffsDist(SeenSlot(Pending + k)) = k - 1
    BY <1>1, <1>2, LiveSeen
  <2> QED
    BY <2>1, <2>2
<1>4. SeenSlot(Seen + 1) = offs_tail
  BY <1>1, <1>2, LiveSeen
<1>5. ASSUME NEW k \in 1 .. Seen
      PROVE  /\ IsRecord(SeenAt(k - 1), SeenField(k))
             /\ SeenAt(k) = SeenAt(k - 1) + RecordLen(SeenField(k))
  <2> DEFINE s == SeenSlot(k)
  <2>1. s \in Live /\ RecordOf(s) /\ SeenField(k) = FieldAt(s)
    BY <1>1, <1>2, <1>3 DEF RecordsIntact, SeenField
  <2>2. SeenAt(k - 1) = offsets[s]
    <3>1. k - 1 < Seen /\ (k - 1) + 1 = k
      BY <1>2
    <3> QED
      BY <3>1 DEF SeenAt
  <2>3. NextSlot(s) = SeenSlot(k + 1)
    BY <1>1, <1>2, NextSeen
  <2>4. SeenAt(k) = IF NextSlot(s) = offs_tail THEN data_tail ELSE offsets[NextSlot(s)]
    <3>1. CASE k < Seen
      <4>1. k + 1 \in 1 .. num_headers
        BY <1>2, <3>1
      <4>2. SeenSlot(k + 1) # offs_tail
        BY <1>1, <1>3, <4>1, TailNotLive
      <4> QED
        BY <2>3, <3>1, <4>2 DEF SeenAt
    <3>2. CASE k = Seen
      BY <1>2, <1>4, <2>3, <3>2 DEF SeenAt
    <3> QED
      BY <1>2, <3>1, <3>2
  <2> QED
    BY <2>1, <2>2, <2>4 DEF RecordOf
<1>6. SeenAt(0) = data_head
  <2>1. CASE num_headers = 0
    BY <1>1, <1>2, <2>1 DEF SeenAt, Layout
  <2>2. CASE num_headers > 0
    <3>1. SeenSlot(1) \in Live /\ offs_head \in Live
          /\ OffsDist(SeenSlot(1)) = OffsDist(offs_head)
      <4>1. 1 \in 1 .. num_headers /\ 1 - 1 = 0
        BY <1>2, <2>2
      <4> QED
        BY <1>1, <1>3, <2>2, <4>1, HeadLive
    <3>2. SeenSlot(1) = offs_head
      BY <1>1, <3>1, LiveSlot, DistInjective
    <3>3. offsets[offs_head] = data_head
      BY <1>1, <3>1 DEF RecordsIntact, RecordOf
    <3>4. 0 < Seen /\ 0 + 1 = 1
      BY <1>2, <2>2
    <3> QED
      BY <3>2, <3>3, <3>4 DEF SeenAt
  <2> QED
    BY <1>2, <2>1, <2>2
<1> QED
  BY <1>2, <1>5, <1>6 DEF SeenFacts, SeenRecords

LEMMA SeenHolds ==
  ASSUME RegimeInv, SeenInv
  PROVE  SeenFacts
<1>1. CASE pc = "idle"
  BY <1>1, SeenAtRest DEF Pending
<1> QED
  BY <1>1 DEF SeenInv

\* The slot of the k-th does not depend on how many of the fields seen have
\* been evicted.
LEMMA SameSlot ==
  ASSUME NEW h \in 0 .. Entries - 1, NEW p \in Nat, p + 1 < Entries, NEW k \in 1 .. Entries,
         NEW g, g = IF h = Entries - 1 THEN 0 ELSE h + 1
  PROVE  (g - (p + 1) + k - 1 + Entries) % Entries = (h - p + k - 1 + Entries) % Entries
<1> DEFINE x == g - (p + 1) + k - 1 + Entries
           y == h - p + k - 1 + Entries
<1>1. Entries \in Nat /\ Entries > 1
  BY Sizes
<1>2. /\ x \in Nat /\ x < 3 * Entries /\ y \in Nat /\ y < 3 * Entries
      /\ x = IF h = Entries - 1 THEN y - Entries ELSE y
      /\ h = Entries - 1 => y >= Entries
  BY <1>1
<1> HIDE DEF x, y
<1>3. /\ x % Entries = IF x < Entries THEN x ELSE IF x < 2 * Entries THEN x - Entries
                                                              ELSE x - 2 * Entries
      /\ y % Entries = IF y < Entries THEN y ELSE IF y < 2 * Entries THEN y - Entries
                                                              ELSE y - 2 * Entries
  BY <1>1, <1>2, ModIs
<1>4. x % Entries = y % Entries
  BY <1>1, <1>2, <1>3
<1> QED
  BY <1>4 DEF x, y

\* The size of what is in the table.
LEMMA UsedIs ==
  ASSUME RegimeInv, SeenFacts
  PROVE  SizeFrom(Pending) = used_data
<1>1. Seen - Pending = num_headers
  BY PendingType, Positions DEF Seen, RegimeInv, RingInv
<1> QED
  BY <1>1 DEF SizeFrom, SeenFacts, RegimeInv, Layout

LEMMA EvictSlots ==
  ASSUME RegimeInv, Regime, SeenFacts, pc # "idle", num_headers > 0, Evict
  PROVE  /\ Pending' = Pending + 1 /\ Seen' = Seen
         /\ \A k \in 1 .. Entries : SeenSlot(k)' = SeenSlot(k)
<1>1. RingInv /\ TypeOK /\ EvictOldest
  BY EvictIs DEF RegimeInv, RingInv
<1>2. /\ evicted' = evicted \cup {offs_head} /\ offs_head' = NextSlot(offs_head)
      /\ num_headers' = num_headers - 1 /\ pc' = pc
  BY <1>1 DEF EvictOldest, Reported, NextSlot, call
<1>3. offs_head \notin evicted
  BY <1>1, HeadLive DEF RegimeInv, Reports
<1>4. IsFiniteSet(evicted) /\ Pending \in Nat /\ Pending = Cardinality(evicted)
  BY <1>1, PendingType DEF Pending
<1>5. Pending' = Pending + 1
  <2>1. Cardinality(evicted \cup {offs_head}) = Cardinality(evicted) + 1
    BY <1>3, <1>4, FS_AddElement
  <2> QED
    BY <1>2, <1>4, <2>1 DEF Pending
<1>6. num_headers \in 0 .. Entries - 1 /\ offs_head \in 0 .. Entries - 1 /\ offs_head \in Slots
      /\ Entries \in Nat
  BY <1>1, Positions, Sizes DEF TypeOK
<1>7. Seen' = Seen
  BY <1>2, <1>4, <1>5, <1>6 DEF Seen
<1>8. Pending + 1 < Entries \/ Pending + 1 = Entries
  BY <1>4, <1>6 DEF SeenFacts, Seen
<1>9. Pending + 1 < Entries
  <2>1. Pending + num_headers < Entries
    BY <1>4, <1>6 DEF SeenFacts, Seen
  <2> QED
    BY <1>4, <1>6, <2>1
<1>10. ASSUME NEW k \in 1 .. Entries
       PROVE  SeenSlot(k)' = SeenSlot(k)
  <2>1. NextSlot(offs_head) = IF offs_head = Entries - 1 THEN 0 ELSE offs_head + 1
    BY <1>6, SlotNext DEF NextSlot
  <2>2. (NextSlot(offs_head) - (Pending + 1) + k - 1 + Entries) % Entries
          = (offs_head - Pending + k - 1 + Entries) % Entries
    BY <1>4, <1>6, <1>9, <2>1, SameSlot
  <2> QED
    BY <1>2, <1>5, <2>2 DEF SeenSlot
<1> QED
  BY <1>5, <1>7, <1>10

\* Evicting leaves what is seen as it is.
LEMMA EvictSees ==
  ASSUME RegimeInv, Regime, SeenFacts, pc # "idle", num_headers > 0, Evict
  PROVE  /\ EntriesSeen' = EntriesSeen /\ max_data' = max_data
         /\ Pending' = Pending + 1 /\ Seen' = Seen
         /\ \A k \in 1 .. Seen : SeenField(k)' = SeenField(k)
         /\ \A k \in 0 .. Seen : SeenAt(k)' = SeenAt(k)
         /\ UNCHANGED <<data, data_tail, pc, field, limit, max_data>>
<1>1. EvictOldest
  BY EvictIs DEF RegimeInv
<1>2. UNCHANGED <<offsets, data, data_tail, pc, field, limit, max_data>>
  BY <1>1 DEF EvictOldest, call
<1>3. /\ Pending' = Pending + 1 /\ Seen' = Seen
      /\ \A k \in 1 .. Entries : SeenSlot(k)' = SeenSlot(k)
  BY EvictSlots
<1>4. Seen \in Nat /\ Seen < Entries /\ Entries \in Nat
  BY PendingType, Positions, Sizes DEF Seen, SeenFacts, RegimeInv, RingInv
<1>5. \A k \in 1 .. Seen : SeenField(k)' = SeenField(k)
  <2> TAKE k \in 1 .. Seen
  <2>1. SeenSlot(k)' = SeenSlot(k)
    BY <1>3, <1>4
  <2> QED
    BY <1>2, <2>1 DEF SeenField, FieldAt
<1>6. \A k \in 0 .. Seen : SeenAt(k)' = SeenAt(k)
  <2> TAKE k \in 0 .. Seen
  <2>1. k < Seen => SeenSlot(k + 1)' = SeenSlot(k + 1)
    BY <1>3, <1>4
  <2> QED
    BY <1>2, <1>3, <2>1 DEF SeenAt
<1>7. EntriesSeen' = EntriesSeen
  <2>1. EntriesSeen = [k \in 1 .. Seen |-> SeenField(k)]
    BY DEF EntriesSeen, Seen, SeenField, SeenSlot
  <2>2. EntriesSeen' = [k \in 1 .. Seen' |-> SeenField(k)']
    BY DEF EntriesSeen, Seen, SeenField, SeenSlot
  <2> QED
    BY <1>3, <1>5, <2>1, <2>2
<1> QED
  BY <1>2, <1>3, <1>5, <1>6, <1>7

LEMMA EvictKeepsSeen ==
  ASSUME RegimeInv, Regime, SeenFacts, pc # "idle", num_headers > 0, Evict,
         EvictedForRoom, used_data > Room
  PROVE  SeenFacts' /\ EvictedForRoom'
<1>1. /\ Pending' = Pending + 1 /\ Seen' = Seen
      /\ \A k \in 1 .. Seen : SeenField(k)' = SeenField(k)
      /\ \A k \in 0 .. Seen : SeenAt(k)' = SeenAt(k)
      /\ UNCHANGED <<data, data_tail, pc, field, limit, max_data>>
  BY EvictSees
<1>2. /\ Pending \in Nat /\ num_headers \in 0 .. Entries - 1 /\ Entries \in Nat
      /\ Seen = num_headers + Pending /\ Seen \in Nat
  BY PendingType, Positions, Sizes DEF Seen, RegimeInv, RingInv
<1>3. SeenRecords'
  <2>1. ASSUME NEW k \in 1 .. Seen
        PROVE  /\ IsRecord(SeenAt(k - 1), SeenField(k))'
               /\ (SeenAt(k) = SeenAt(k - 1) + RecordLen(SeenField(k)))'
    <3>1. k - 1 \in 0 .. Seen /\ k \in 0 .. Seen
      BY <1>2
    <3>2. /\ IsRecord(SeenAt(k - 1), SeenField(k))
          /\ SeenAt(k) = SeenAt(k - 1) + RecordLen(SeenField(k))
      BY DEF SeenFacts, SeenRecords
    <3> QED
      BY <1>1, <3>1, <3>2 DEF IsRecord
  <2> QED
    BY <1>1, <2>1 DEF SeenRecords
<1>4. SeenAt(Pending + 1) = data_head'
  <2> DEFINE k == Pending + 1
  <2>1. k \in 1 .. Seen /\ k - 1 = Pending
    BY <1>2
  <2>2. SeenAt(k) = SeenAt(Pending) + RecordLen(SeenField(k))
    BY <2>1 DEF SeenFacts, SeenRecords
  <2>3. SeenSlot(k) = offs_head
    <3>1. k \in 1 .. Entries /\ k <= Seen + 1 /\ offs_head - Pending + k - 1 = offs_head
          /\ offs_head \in 0 .. Entries - 1 /\ TypeOK
      BY <1>2, <2>1, Positions DEF SeenFacts, RegimeInv, RingInv
    <3> QED
      BY <1>2, <3>1, SeenSlotIs DEF SeenFacts
  <2>4. data_head' = data_head + RecordLen(FieldAt(offs_head))
    BY EvictIs DEF RegimeInv
  <2> QED
    BY <2>2, <2>3, <2>4 DEF SeenFacts, SeenField
<1>5. SeenAt(Pending)' = data_head'
  <2>1. PICK p \in 0 .. Seen : p = Pending + 1
    BY <1>2
  <2>2. SeenAt(p)' = data_head'
    BY <1>1, <1>4, <2>1
  <2> QED
    BY <1>1, <2>1, <2>2 DEF SeenAt, SeenSlot
<1>6. SeenFacts'
  BY <1>1, <1>3, <1>5 DEF SeenFacts
<1>7. Room' = Room
  BY <1>1 DEF Room
<1>8. ASSUME NEW k \in 0 .. Pending
      PROVE  SizeFrom(k)' > Room
  <2>1. SizeFrom(k) > Room
    BY <1>2, UsedIs DEF EvictedForRoom
  <2>2. SizeFrom(k)' = SizeFrom(k)
    <3>1. k \in 0 .. Seen
      BY <1>2
    <3> QED
      BY <1>1, <3>1 DEF SizeFrom
  <2> QED
    BY <2>1, <2>2
<1>9. EvictedForRoom'
  <2>1. Pending' - 1 = Pending
    BY <1>1, <1>2
  <2> QED
    BY <1>7, <1>8, <2>1 DEF EvictedForRoom
<1> QED
  BY <1>6, <1>9

-----------------------------------------------------------------------------
(* The size of what is seen *)

LEMMA SeenSequence ==
  ASSUME RegimeInv, SeenFacts
  PROVE  /\ EntriesSeen = [k \in 1 .. Seen |-> SeenField(k)]
         /\ EntriesSeen \in Seq(Fields) /\ Len(EntriesSeen) = Seen /\ Seen \in Nat
         /\ \A k \in 1 .. Seen : SeenField(k) \in Fields /\ EntriesSeen[k] = SeenField(k)
<1>1. EntriesSeen = [k \in 1 .. Seen |-> SeenField(k)]
  BY DEF EntriesSeen, Seen, SeenField, SeenSlot
<1>2. Seen \in Nat
  BY PendingType, Positions DEF Seen, RegimeInv, RingInv
<1>3. \A k \in 1 .. Seen : SeenField(k) \in Fields
  BY DEF SeenFacts, SeenRecords, IsRecord
<1> QED
  BY <1>1, <1>2, <1>3

LEMMA OffsetSeen ==
  ASSUME RegimeInv, SeenFacts, NEW k \in 0 .. Seen
  PROVE  SeenAt(k) \in Int
<1>1. /\ TypeOK /\ Seen \in Nat /\ Seen < Entries /\ Entries \in Nat
      /\ data_tail \in 0 .. DataSize - 1
  BY SeenSequence, Positions, Sizes DEF SeenFacts, RegimeInv, RingInv
<1>2. CASE k < Seen
  <2>1. k + 1 \in 1 .. Entries /\ k + 1 <= Seen + 1
    BY <1>1, <1>2
  <2>2. SeenSlot(k + 1) \in Slots
    BY <1>1, <2>1, SeenSlotIs
  <2>3. offsets[SeenSlot(k + 1)] \in Bytes
    BY <1>1, <2>2 DEF TypeOK
  <2> QED
    BY <1>2, <2>3 DEF SeenAt, Bytes
<1> QED
  BY <1>1, <1>2 DEF SeenAt

LEMMA SumsOneMore ==
  ASSUME NEW i \in Nat, i > 0, NEW c \in Int
  PROVE  i * c = (i - 1) * c + c
  OBVIOUS

\* The size of what is behind the j-th, counted field by field, is told by the
\* offsets.
LEMMA TotalSeen ==
  ASSUME RegimeInv, Regime, SeenFacts, NEW j \in 0 .. Seen
  PROVE  Fifo!TotalSize(SubSeq(EntriesSeen, j + 1, Seen)) = SizeFrom(j)
<1> DEFINE s == SubSeq(EntriesSeen, j + 1, Seen)
           n == Seen - j
           c == Overhead - InfoSize
           sum == [i \in 0 .. n |-> (SeenAt(j + i) - SeenAt(j)) + i * c]
<1>1. /\ EntriesSeen \in Seq(Fields) /\ Len(EntriesSeen) = Seen /\ Seen \in Nat
      /\ \A k \in 1 .. Seen : SeenField(k) \in Fields /\ EntriesSeen[k] = SeenField(k)
  BY SeenSequence
<1>2. n \in Nat /\ c \in Int /\ j \in Nat
  BY <1>1, Sizes
<1>3. Len(s) = n /\ \A i \in 1 .. n : s[i] = SeenField(j + i)
  <2>1. \A i \in j + 1 .. Seen : EntriesSeen[i] \in Fields
    BY <1>1, <1>2
  <2>2. /\ Len(s) = IF j + 1 <= Seen THEN Seen - (j + 1) + 1 ELSE 0
        /\ \A i \in 1 .. Seen - (j + 1) + 1 : s[i] = EntriesSeen[(j + 1) + i - 1]
    BY <1>1, <1>2, <2>1, SubSeqProperties
  <2>3. Seen - (j + 1) + 1 = n
    BY <1>1, <1>2
  <2>4. Len(s) = n
    BY <1>1, <1>2, <2>2, <2>3
  <2>5. ASSUME NEW i \in 1 .. n
        PROVE  s[i] = SeenField(j + i)
    <3>1. (j + 1) + i - 1 = j + i /\ j + i \in 1 .. Seen
      BY <1>1, <1>2
    <3> QED
      BY <1>1, <2>2, <2>3, <3>1
  <2> QED
    BY <2>4, <2>5
<1> HIDE DEF s
<1>4. ASSUME NEW i \in 1 .. n
      PROVE  (SeenAt(j + i) - SeenAt(j)) + i * c
               = ((SeenAt(j + (i - 1)) - SeenAt(j)) + (i - 1) * c) + SizeOf[s[i]]
  <2>1. /\ j + i \in 1 .. Seen /\ (j + i) - 1 = j + (i - 1) /\ j + (i - 1) \in 0 .. Seen
        /\ j + i \in 0 .. Seen
    BY <1>1, <1>2
  <2>2. /\ SeenAt(j + i) = SeenAt(j + (i - 1)) + RecordLen(SeenField(j + i))
        /\ SeenField(j + i) \in Fields
    BY <1>1, <2>1 DEF SeenFacts, SeenRecords
  <2> DEFINE f == SeenField(j + i)
  <2>3. SizeOf[s[i]] = RecordLen(f) + c /\ RecordLen(f) \in Nat
    <3>1. SizeOf[s[i]] = FieldSize(f)
      BY <1>3, <2>2 DEF SizeOf
    <3> HIDE DEF f
    <3>2. f \in Fields
      BY <2>2 DEF f
    <3>3. BodyLen(f) > 0
      BY <3>2 DEF Regime
    <3> QED
      BY <3>1, <3>2, <3>3, Lengths, Sizes
  <2>4. SeenAt(j + i) \in Int /\ SeenAt(j + (i - 1)) \in Int /\ SeenAt(j) \in Int
    BY <2>1, OffsetSeen
  <2>5. i * c = (i - 1) * c + c /\ (i - 1) * c \in Int /\ i * c \in Int
    <3>1. i \in Nat /\ i > 0
      BY <1>2
    <3> HIDE DEF c
    <3> QED
      BY <1>2, <3>1, SumsOneMore
  <2> DEFINE v == (i - 1) * c
             w == i * c
             x == SeenAt(j + i)
             y == SeenAt(j + (i - 1))
             z == SeenAt(j)
             r == RecordLen(f)
  <2>6. w = v + c /\ v \in Int /\ w \in Int /\ x \in Int /\ y \in Int /\ z \in Int
        /\ x = y + r /\ r \in Int /\ SizeOf[s[i]] = r + c
    BY <2>2, <2>3, <2>4, <2>5
  <2>7. (x - z) + w = ((y - z) + v) + SizeOf[s[i]]
    <3> HIDE DEF v, w, x, y, z, r, c
    <3> QED
      BY <1>2, <2>6
  <2> QED
    BY <2>7
<1>5. SeenAt(j) \in Int /\ 0 * c = 0
  <2>1. 0 * c = 0
    BY <1>2
  <2> QED
    BY <2>1, OffsetSeen
<1>6. ASSUME NEW k \in 0 .. n
      PROVE  sum[k] = IF k = 0 THEN 0 ELSE sum[k - 1] + SizeOf[s[k]]
  <2>1. CASE k = 0
    <3>1. j + 0 = j /\ 0 \in 0 .. n
      BY <1>2
    <3>2. sum[0] = (SeenAt(j) - SeenAt(j)) + 0 * c
      BY <3>1
    <3> HIDE DEF sum, c
    <3> QED
      BY <1>5, <2>1, <3>2
  <2>2. CASE k # 0
    <3>1. k \in 1 .. n /\ k - 1 \in 0 .. n
      BY <1>2, <2>2
    <3>2. sum[k - 1] = (SeenAt(j + (k - 1)) - SeenAt(j)) + (k - 1) * c
          /\ sum[k] = (SeenAt(j + k) - SeenAt(j)) + k * c
      BY <3>1
    <3> QED
      BY <1>4, <2>2, <3>1, <3>2
  <2> QED
    BY <2>1, <2>2
<1>7. Fifo!TotalSize(s) = sum[n]
  <2> HIDE DEF sum, n, c
  <2>1. SumsUp(s, n, sum)
    BY <1>6 DEF SumsUp
  <2>2. n \in Nat /\ Len(s) = n
    BY <1>2, <1>3
  <2> QED
    BY <2>1, <2>2, TotalIs
<1>8. sum[n] = (SeenAt(j + n) - SeenAt(j)) + n * c
  BY <1>2
<1>9. j + n = Seen /\ SeenAt(Seen) = data_tail
  BY <1>1, <1>2 DEF SeenAt
<1> QED
  BY <1>7, <1>8, <1>9 DEF SizeFrom, s

\* What the queue keeps when it needs room is what the table keeps.
LEMMA NewestSeen ==
  ASSUME RegimeInv, Regime, SeenFacts, NEW room \in Int, used_data <= room,
         \A k \in 0 .. Pending - 1 : SizeFrom(k) > room
  PROVE  Fifo!Newest(EntriesSeen, room) = SubSeq(EntriesSeen, Pending + 1, Seen)
<1> DEFINE Fits(k) == Fifo!TotalSize(SubSeq(EntriesSeen, k + 1, Len(EntriesSeen))) <= room
           fits == {k \in 0 .. Len(EntriesSeen) : Fits(k)}
           first == CHOOSE k \in fits : \A j \in fits : k <= j
<1>1. /\ Len(EntriesSeen) = Seen /\ Seen \in Nat /\ Pending \in Nat /\ Pending <= Seen
  BY SeenSequence, PendingType, Positions DEF Seen, RegimeInv, RingInv
<1>2. \A k \in 0 .. Seen : Fits(k) <=> SizeFrom(k) <= room
  <2> TAKE k \in 0 .. Seen
  <2>1. Fifo!TotalSize(SubSeq(EntriesSeen, k + 1, Seen)) = SizeFrom(k)
    BY TotalSeen
  <2> QED
    BY <1>1, <2>1
<1>3. \A k \in 0 .. Seen : SizeFrom(k) \in Int
  <2> TAKE k \in 0 .. Seen
  <2>1. SeenAt(k) \in Int /\ Seen - k \in Nat /\ Overhead - InfoSize \in Nat /\ data_tail \in Int
    BY <1>1, OffsetSeen, Sizes, Positions DEF RegimeInv, RingInv
  <2>2. (Seen - k) * (Overhead - InfoSize) \in Nat
    BY <2>1, Products
  <2> QED
    BY <2>1, <2>2 DEF SizeFrom
<1> HIDE DEF Fits
<1>4. Pending \in fits
  BY <1>1, <1>2, UsedIs
<1>5. \A j \in fits : Pending <= j
  <2> TAKE j \in fits
  <2>1. j \in 0 .. Seen /\ SizeFrom(j) <= room /\ SizeFrom(j) \in Int
    BY <1>1, <1>2, <1>3
  <2>2. j \notin 0 .. Pending - 1
    BY <2>1
  <2> QED
    BY <1>1, <2>1, <2>2
<1>6. fits \subseteq Int
  BY <1>1
<1>7. first = Pending
  <2> HIDE DEF fits
  <2>1. first \in fits /\ \A j \in fits : first <= j
    BY <1>4, <1>5
  <2> HIDE DEF first
  <2> QED
    BY <1>1, <1>4, <1>5, <1>6, <2>1
<1> QED
  BY <1>1, <1>7 DEF Fifo!Newest, Fits

\* The table, read from its oldest field on.
TableFields == [k \in 1 .. num_headers |-> SeenField(Pending + k)]

LEMMA KeptSeen ==
  ASSUME RegimeInv, SeenFacts
  PROVE  SubSeq(EntriesSeen, Pending + 1, Seen) = TableFields /\ TableFields \in Seq(Fields)
         /\ Len(TableFields) = num_headers
<1> DEFINE s == SubSeq(EntriesSeen, Pending + 1, Seen)
<1>1. /\ Seen = num_headers + Pending /\ Pending \in Nat /\ num_headers \in Nat
      /\ \A k \in 1 .. Seen : SeenField(k) \in Fields /\ EntriesSeen[k] = SeenField(k)
  BY SeenSequence, PendingType, Positions DEF Seen, RegimeInv, RingInv
<1>2. /\ s \in Seq(Fields) /\ Len(s) = num_headers
      /\ \A i \in 1 .. num_headers : s[i] = SeenField(Pending + i)
  <2>1. \A i \in Pending + 1 .. Seen : EntriesSeen[i] \in Fields
    BY <1>1
  <2>2. /\ s \in Seq(Fields)
        /\ Len(s) = IF Pending + 1 <= Seen THEN Seen - (Pending + 1) + 1 ELSE 0
        /\ \A i \in 1 .. Seen - (Pending + 1) + 1 : s[i] = EntriesSeen[(Pending + 1) + i - 1]
    BY <1>1, <2>1, SubSeqProperties
  <2>3. Seen - (Pending + 1) + 1 = num_headers
    BY <1>1
  <2>4. \A i \in 1 .. num_headers : (Pending + 1) + i - 1 = Pending + i /\ Pending + i \in 1 .. Seen
    BY <1>1
  <2>5. Len(s) = num_headers
    BY <1>1, <2>2, <2>3
  <2> QED
    BY <1>1, <2>2, <2>3, <2>4, <2>5
<1> HIDE DEF s
<1>3. \A i \in 1 .. num_headers : SeenField(Pending + i) \in Fields
  BY <1>1
<1>4. TableFields \in Seq(Fields) /\ Len(TableFields) = num_headers
      /\ \A i \in 1 .. num_headers : TableFields[i] = SeenField(Pending + i)
  BY <1>1, <1>3 DEF TableFields
<1>5. s = TableFields
  BY <1>2, <1>4, SeqEqual
<1> QED
  BY <1>4, <1>5 DEF s

-----------------------------------------------------------------------------
(* The steps *)

\* Once a call has returned, the k-th seen is the k-th in the table.
LEMMA SeenWhenIdle ==
  ASSUME RegimeInv, SeenFacts, Pending' = 0, offs_head' = offs_head, num_headers' \in Int
  PROVE  EntriesSeen' = [k \in 1 .. num_headers' |-> FieldAt(SeenSlot(k))']
         /\ \A k \in Nat : SeenSlot(k)' = SeenSlot(Pending + k)
<1>1. /\ Pending \in Nat /\ offs_head \in Int /\ Entries \in Int
      /\ EntriesSeen' = [k \in 1 .. num_headers' + Pending' |-> FieldAt(SeenSlot(k))']
  BY PendingType, Positions, Sizes DEF EntriesSeen, SeenSlot, RegimeInv, RingInv
<1>2. ASSUME NEW k \in Nat
      PROVE  SeenSlot(k)' = SeenSlot(Pending + k)
  <2>1. offs_head - 0 + k - 1 + Entries = offs_head - Pending + (Pending + k) - 1 + Entries
    BY <1>1
  <2>2. SeenSlot(k)' = (offs_head - 0 + k - 1 + Entries) % Entries
    BY DEF SeenSlot
  <2> QED
    BY <2>1, <2>2 DEF SeenSlot
<1>3. EntriesSeen' = [k \in 1 .. num_headers' |-> FieldAt(SeenSlot(k))']
  BY <1>1
<1> QED
  BY <1>2, <1>3

LEMMA StoreIsAdd ==
  ASSUME RegimeInv, Regime, SeenInv, AddStore
  PROVE  field \in Fields /\ Fifo!Add(field)
<1>1. /\ RingInv /\ TypeOK /\ Layout /\ SeenFacts /\ pc = "add" /\ AddFits
      /\ field \in Fields /\ EvictedForRoom
  BY SeenHolds DEF RegimeInv, RingInv, AddStore, SeenInv, TypeOK
<1>2. /\ offsets' = [offsets EXCEPT ![offs_tail] = data_tail] /\ offs_head' = offs_head
      /\ data' = DataWith(field) /\ num_headers' = num_headers + 1
      /\ max_data' = max_data /\ pc' = "idle"
  BY StoreIs
<1>3. /\ \A i \in 0 .. RecordLen(field) - 1 : data'[data_tail + i] = <<field, i>>
      /\ \A p \in Nat : p < data_tail => data'[p] = data[p]
  BY <1>1, <1>2, StoredData DEF RegimeInv, CallFits
<1>4. /\ num_headers \in Nat /\ max_data \in Int /\ used_data \in Int /\ FieldSize(field) \in Int
      /\ FieldSize(field) <= max_data /\ FieldSize(field) <= max_data - used_data
      /\ data_tail \in Nat /\ RecordLen(field) \in Nat /\ RecordLen(field) >= InfoSize
      /\ InfoSize \in Nat /\ InfoSize > 0
  BY <1>1, Positions, Lengths, Sizes DEF AddFits, RegimeInv, CallFits
<1> DEFINE room == max_data - FieldSize(field)
<1>5. Fifo!Newest(EntriesSeen, room) = TableFields
  <2>1. room \in Int /\ used_data <= room /\ Room = room
    BY <1>1, <1>4 DEF Room
  <2> HIDE DEF room
  <2>2. \A k \in 0 .. Pending - 1 : SizeFrom(k) > room
    BY <1>1, <2>1 DEF EvictedForRoom
  <2> QED
    BY <1>1, <2>1, <2>2, NewestSeen, KeptSeen
<1>6. /\ EntriesSeen' = [k \in 1 .. num_headers + 1 |-> FieldAt(SeenSlot(k))']
      /\ \A k \in Nat : SeenSlot(k)' = SeenSlot(Pending + k)
  <2>1. Pending' = 0
    BY <1>2 DEF Pending
  <2> QED
    BY <1>1, <1>2, <2>1, SeenWhenIdle
<1>7. ASSUME NEW k \in 1 .. num_headers
      PROVE  FieldAt(SeenSlot(k))' = SeenField(Pending + k)
  <2> DEFINE s == SeenSlot(Pending + k)
             o == offsets[s]
  <2>1. s \in Live /\ s # offs_tail
    BY <1>1, LiveSeen, TailNotLive DEF Layout, SeenFacts
  <2>2. SeenSlot(k)' = s
    BY <1>6
  <2>3. offsets'[s] = o
    BY <1>2, <2>1
  <2>4. IsRecord(o, FieldAt(s)) /\ o \in Nat
    BY <1>1, <2>1, LiveOffset DEF RegimeInv, RecordsIntact, RecordOf
  <2> HIDE DEF s, o
  <2>5. o < data_tail
    BY <1>4, <2>4, Lengths DEF IsRecord
  <2>6. data'[o] = data[o]
    BY <1>3, <2>4, <2>5
  <2>7. FieldAt(SeenSlot(k))' = FieldAt(s)
    BY <2>2, <2>3, <2>6 DEF FieldAt, o
  <2> QED
    BY <2>7 DEF SeenField, s
<1>8. ASSUME NEW k \in Nat, k = num_headers + 1
      PROVE  FieldAt(SeenSlot(k))' = field
  <2>1. num_headers \in Nat
    BY <1>4
  <2>2. SeenSlot(k)' = offs_tail
    <3>1. Pending + k = Seen + 1
      BY <1>1, <1>8, <2>1, PendingType DEF Seen
    <3> QED
      BY <1>1, <1>6, <3>1, LiveSeen DEF Layout, SeenFacts
  <2>3. offsets'[offs_tail] = data_tail
    BY <1>1, <1>2 DEF TypeOK
  <2>4. data'[data_tail] = <<field, 0>>
    <3>1. 0 \in 0 .. RecordLen(field) - 1 /\ data_tail + 0 = data_tail
      BY <1>4
    <3> QED
      BY <1>3, <3>1
  <2> QED
    BY <2>2, <2>3, <2>4 DEF FieldAt
<1>9. EntriesSeen' = Append(TableFields, field)
  <2> DEFINE n == num_headers
             F(k) == FieldAt(SeenSlot(k))'
             s == [k \in 1 .. n + 1 |-> F(k)]
  <2>1. /\ TableFields \in Seq(Fields) /\ Len(TableFields) = n
        /\ \A k \in 1 .. n : TableFields[k] = SeenField(Pending + k) /\ TableFields[k] \in Fields
    BY <1>1, <1>4, KeptSeen DEF TableFields
  <2>2. \A k \in 1 .. n + 1 : F(k) = IF k <= n THEN TableFields[k] ELSE field
    <3> TAKE k \in 1 .. n + 1
    <3>1. CASE k \in 1 .. n
      BY <1>7, <2>1, <3>1
    <3>2. CASE k = n + 1
      BY <1>4, <1>8, <3>2
    <3> QED
      BY <1>4, <3>1, <3>2
  <2>3. EntriesSeen' = s
    BY <1>6
  <2> HIDE DEF F
  <2>4. /\ s \in Seq(Fields) /\ Len(s) = n + 1
        /\ \A k \in 1 .. n + 1 : s[k] = IF k <= n THEN TableFields[k] ELSE field
    BY <1>1, <1>4, <2>1, <2>2
  <2> HIDE DEF s
  <2> DEFINE t == Append(TableFields, field)
  <2>5. /\ t \in Seq(Fields) /\ Len(t) = n + 1
        /\ \A k \in 1 .. n + 1 : t[k] = IF k <= n THEN TableFields[k] ELSE field
    BY <1>1, <1>4, <2>1, AppendProperties
  <2> HIDE DEF t
  <2>6. s = t
    BY <2>4, <2>5, SeqEqual
  <2> QED
    BY <2>3, <2>6 DEF t
<1>10. SizeOf[field] = FieldSize(field)
  BY <1>1 DEF SizeOf
<1> QED
  BY <1>1, <1>2, <1>4, <1>5, <1>9, <1>10 DEF Fifo!Add

LEMMA EndIsSetMax ==
  ASSUME RegimeInv, Regime, SeenInv, SetMaxEnd
  PROVE  limit \in MaxSizes /\ Fifo!SetMax(limit)
<1>1. /\ RingInv /\ SeenFacts /\ pc = "set_max" /\ limit >= used_data
      /\ EvictedForRoom /\ limit \in MaxSizes
  BY SeenHolds DEF RegimeInv, SetMaxEnd, SeenInv
<1>2. /\ UNCHANGED <<offsets, offs_head, offs_tail, data, num_headers>>
      /\ max_data' = limit /\ pc' = "idle"
  BY DEF SetMaxEnd, Return, ring, bytes
<1>3. /\ num_headers \in Nat /\ limit \in Int /\ used_data \in Int /\ limit <= DataSize
  BY <1>1, Positions, Sizes DEF RingInv
<1>4. Fifo!Newest(EntriesSeen, limit) = TableFields
  <2>1. \A k \in 0 .. Pending - 1 : SizeFrom(k) > limit
    BY <1>1 DEF EvictedForRoom, Room
  <2>2. used_data <= limit
    BY <1>1, <1>3
  <2> QED
    BY <1>1, <1>3, <2>1, <2>2, NewestSeen, KeptSeen
<1>5. /\ EntriesSeen' = [k \in 1 .. num_headers |-> FieldAt(SeenSlot(k))']
      /\ \A k \in Nat : SeenSlot(k)' = SeenSlot(Pending + k)
  <2>1. Pending' = 0
    BY <1>2 DEF Pending
  <2> QED
    BY <1>1, <1>2, <1>3, <2>1, SeenWhenIdle
<1>6. ASSUME NEW k \in 1 .. num_headers
      PROVE  FieldAt(SeenSlot(k))' = SeenField(Pending + k)
  BY <1>2, <1>5 DEF FieldAt, SeenField
<1>7. EntriesSeen' = TableFields
  BY <1>5, <1>6 DEF TableFields
<1> QED
  BY <1>1, <1>2, <1>3, <1>4, <1>7 DEF Fifo!SetMax

\* A table without fields is an empty queue.
LEMMA NoneSeen ==
  ASSUME num_headers = 0, pc = "idle"
  PROVE  EntriesSeen = <<>>
<1>1. num_headers + Pending = 0
  BY DEF Pending
<1> QED
  BY <1>1 DEF EntriesSeen

LEMMA NoneSeenNext ==
  ASSUME num_headers' = 0, pc' = "idle"
  PROVE  EntriesSeen' = <<>>
<1>1. num_headers' + Pending' = 0
  BY DEF Pending
<1> QED
  BY <1>1 DEF EntriesSeen

\* Nothing that is seen changes while nothing is pending.
LEMMA SameSeen ==
  ASSUME Pending = 0, Pending' = 0,
         UNCHANGED <<offsets, offs_head, data, data_head, data_tail, num_headers>>
  PROVE  /\ EntriesSeen' = EntriesSeen
         /\ SeenFacts => SeenFacts'
<1>1. EntriesSeen' = EntriesSeen
  BY DEF EntriesSeen, FieldAt
<1>2. Seen' = Seen
  BY DEF Seen
<1>3. \A k \in Int : SeenSlot(k)' = SeenSlot(k)
  BY DEF SeenSlot
<1>4. \A k \in Int : SeenField(k)' = SeenField(k) /\ SeenAt(k)' = SeenAt(k)
  <2> TAKE k \in Int
  <2>1. SeenSlot(k)' = SeenSlot(k) /\ SeenSlot(k + 1)' = SeenSlot(k + 1)
    BY <1>3
  <2> QED
    BY <1>2, <2>1 DEF SeenField, FieldAt, SeenAt
<1>5. ASSUME SeenFacts PROVE SeenFacts'
  <2>1. ASSUME NEW k \in 1 .. Seen
        PROVE  /\ IsRecord(SeenAt(k - 1), SeenField(k))'
               /\ (SeenAt(k) = SeenAt(k - 1) + RecordLen(SeenField(k)))'
    <3>1. k \in Int /\ k - 1 \in Int
      OBVIOUS
    <3>2. /\ IsRecord(SeenAt(k - 1), SeenField(k))
          /\ SeenAt(k) = SeenAt(k - 1) + RecordLen(SeenField(k))
      BY <1>5 DEF SeenFacts, SeenRecords
    <3> QED
      BY <1>4, <3>1, <3>2 DEF IsRecord
  <2>2. SeenRecords'
    BY <1>2, <2>1 DEF SeenRecords
  <2>3. SeenAt(Pending)' = SeenAt(0)'
    BY DEF SeenAt, SeenSlot
  <2> QED
    BY <1>2, <1>4, <1>5, <2>2, <2>3 DEF SeenFacts
<1> QED
  BY <1>1, <1>5

QueueStep == Fifo!Next \/ UNCHANGED <<EntriesSeen, max_data>>

\* A step of a call under way is unseen, until its last.
LEMMA SeenStep ==
  ASSUME RegimeInv, Regime, SeenInv, Step
  PROVE  SeenInv' /\ QueueStep
<1>1. CASE AddEvict \/ SetMaxEvict
  <2>1. num_headers > 0 /\ Evict /\ pc # "idle"
    BY <1>1, EvictHasOne DEF AddEvict, SetMaxEvict
  <2>2. SeenFacts /\ EvictedForRoom /\ (pc = "set_max" => limit \in MaxSizes)
    BY <2>1 DEF SeenInv
  <2>3. used_data > Room
    <3>1. /\ used_data \in Int /\ max_data \in Int /\ limit \in Int
          /\ pc = "add" => FieldSize(field) \in Int
      BY Positions, Lengths, Sizes DEF RegimeInv, RingInv, TypeOK
    <3> QED
      BY <1>1, <3>1 DEF AddEvict, SetMaxEvict, AddFits, Room
  <2>4. SeenFacts' /\ EvictedForRoom'
    BY <2>1, <2>2, <2>3, EvictKeepsSeen
  <2>5. EntriesSeen' = EntriesSeen /\ max_data' = max_data /\ pc' = pc /\ limit' = limit
    BY <2>1, <2>2, EvictSees
  <2>6. SeenInv'
    BY <2>2, <2>4, <2>5 DEF SeenInv
  <2> QED
    BY <2>5, <2>6 DEF QueueStep
<1>2. CASE AddNoOffset
  BY <1>2, SlotLeft DEF AddNoOffset
<1>3. CASE AddStore
  <2>1. pc' = "idle"
    BY <1>3, StoreIs
  <2>2. field \in Fields /\ Fifo!Add(field)
    BY <1>3, StoreIsAdd
  <2> QED
    BY <2>1, <2>2 DEF SeenInv, QueueStep, Fifo!Next
<1>4. CASE SetMaxEnd
  <2>1. pc' = "idle"
    BY <1>4 DEF SetMaxEnd, Return
  <2>2. limit \in MaxSizes /\ Fifo!SetMax(limit)
    BY <1>4, EndIsSetMax
  <2> QED
    BY <2>1, <2>2 DEF SeenInv, QueueStep, Fifo!Next
<1> QED
  BY <1>1, <1>2, <1>3, <1>4 DEF Step

\* The first step of a call is unseen, unless it is the only one.
LEMMA SeenStart ==
  ASSUME RegimeInv, Regime, Start
  PROVE  SeenInv' /\ QueueStep
<1>1. pc = "idle" => Pending = 0 /\ SeenFacts
  BY SeenAtRest DEF Pending
<1>2. CASE Clear
  <2>1. num_headers' = 0 /\ pc' = "idle" /\ max_data' = DataSize
    BY <1>2 DEF Clear, ClearTable, Return
  <2>2. Fifo!Clear
    BY <2>1, NoneSeenNext DEF Fifo!Clear
  <2> QED
    BY <2>1, <2>2 DEF SeenInv, QueueStep, Fifo!Next
<1>3. ASSUME NEW f \in Fields, AddTooLarge(f)
      PROVE  SeenInv' /\ QueueStep
  <2>1. num_headers' = 0 /\ pc' = "idle" /\ max_data' = DataSize /\ FieldSize(f) > max_data
    BY <1>3 DEF AddTooLarge, ClearTable, Return
  <2>2. SizeOf[f] = FieldSize(f)
    BY DEF SizeOf
  <2>3. Fifo!AddTooLarge(f)
    BY <2>1, <2>2, NoneSeenNext DEF Fifo!AddTooLarge, Fifo!Clear
  <2> QED
    BY <2>1, <2>3 DEF SeenInv, QueueStep, Fifo!Next
<1>4. ASSUME UNCHANGED <<ring, bytes, sums>>, pc = "idle", evicted' = {},
             pc' = "set_max" => limit' \in MaxSizes
      PROVE  SeenInv' /\ QueueStep
  <2>1. Pending' = 0
    BY <1>4, FS_EmptySet DEF Pending
  <2>2. EntriesSeen' = EntriesSeen /\ SeenFacts'
    BY <1>1, <1>4, <2>1, SameSeen DEF ring, bytes, sums
  <2>3. EvictedForRoom'
    BY <2>1 DEF EvictedForRoom
  <2> QED
    BY <1>4, <2>2, <2>3 DEF SeenInv, QueueStep, sums
<1>5. ASSUME NEW f \in Fields, AddBegin(f)
      PROVE  SeenInv' /\ QueueStep
  BY <1>4, <1>5 DEF AddBegin
<1>6. CASE SetMaxZero
  BY <1>6 DEF SetMaxZero, Regime
<1>7. ASSUME NEW m \in MaxSizes, SetMaxRefused(m) \/ SetMaxBegin(m)
      PROVE  SeenInv' /\ QueueStep
  BY <1>4, <1>7 DEF SetMaxRefused, SetMaxBegin, Return
<1> QED
  BY <1>2, <1>3, <1>5, <1>6, <1>7 DEF Start

LEMMA SeenNext ==
  ASSUME Regime
  PROVE  RegimeInv /\ SeenInv /\ [Next]_vars => SeenInv' /\ [Fifo!Next]_<<EntriesSeen, max_data>>
<1> SUFFICES ASSUME RegimeInv, SeenInv, [Next]_vars
             PROVE  SeenInv' /\ QueueStep
  BY DEF QueueStep
<1>1. CASE Next
  BY <1>1, SeenStep, SeenStart DEF Next
<1>2. CASE UNCHANGED vars
  <2>1. /\ UNCHANGED <<offsets, offs_head, data, data_head, data_tail, num_headers, max_data>>
        /\ UNCHANGED <<pc, field, limit, evicted>>
    BY <1>2 DEF vars, ring, bytes, sums, call
  <2>2. EntriesSeen' = EntriesSeen
    BY <2>1 DEF EntriesSeen, Pending, FieldAt
  <2>3. Pending' = Pending /\ Seen' = Seen /\ Room' = Room
    BY <2>1 DEF Seen, Pending, Room
  <2>4. \A k : SeenSlot(k)' = SeenSlot(k)
    BY <2>1, <2>3 DEF SeenSlot
  <2>5. /\ \A k : SeenField(k)' = SeenField(k)
        /\ \A k : SeenAt(k)' = SeenAt(k)
    BY <2>1, <2>3, <2>4 DEF SeenField, FieldAt, SeenAt
  <2>6. \A k : SizeFrom(k)' = SizeFrom(k)
    <3> TAKE k
    <3> DEFINE Behind(tail, start, n) == (tail - start) + (n - k) * (Overhead - InfoSize)
    <3>1. /\ SizeFrom(k) = Behind(data_tail, SeenAt(k), Seen)
          /\ SizeFrom(k)' = Behind(data_tail', SeenAt(k)', Seen')
      BY DEF SizeFrom
    <3> HIDE DEF Behind
    <3> QED
      BY <2>1, <2>3, <2>5, <3>1
  <2>7. SeenRecords => SeenRecords'
    BY <2>1, <2>3, <2>5 DEF SeenRecords, IsRecord
  <2>8. EvictedForRoom => EvictedForRoom'
    BY <2>3, <2>6 DEF EvictedForRoom
  <2>9. SeenAt(Pending)' = SeenAt(Pending)
    <3>1. \A k : k = Pending => SeenAt(k)' = SeenAt(Pending)
      BY <2>5
    <3> QED
      BY <2>1, <2>3, <2>5, <3>1 DEF SeenAt, SeenSlot
  <2>10. SeenInv'
    BY <2>1, <2>3, <2>7, <2>8, <2>9 DEF SeenInv, SeenFacts
  <2> QED
    BY <2>1, <2>2, <2>10 DEF QueueStep
<1> QED
  BY <1>1, <1>2

\* The table behaves as the queue does: fields leave in the order they came,
\* only when room is needed, and exactly as many as needed; and what is read
\* through the offsets is what was added (hpack_header_table_add, _set_max).
THEOREM ImplementsFifo ==
  ASSUME Regime
  PROVE  Spec => RefinesFifo
<1>1. Init => RegimeInv /\ SeenInv /\ Fifo!Init
  <2> SUFFICES ASSUME Init PROVE RegimeInv /\ SeenInv /\ Fifo!Init
    OBVIOUS
  <2>1. num_headers = 0 /\ pc = "idle" /\ max_data = DataSize
    BY DEF Init
  <2> QED
    BY <2>1, RegimeInit, NoneSeen DEF SeenInv, Fifo!Init
<1>2. RegimeInv /\ [Next]_vars => RegimeInv'
  BY RegimeNext
<1>3. RegimeInv /\ SeenInv /\ [Next]_vars
        => SeenInv' /\ [Fifo!Next]_<<EntriesSeen, max_data>>
  BY SeenNext
<1> QED
  BY <1>1, <1>2, <1>3, PTL DEF Spec, RefinesFifo, Fifo!Spec

=============================================================================
