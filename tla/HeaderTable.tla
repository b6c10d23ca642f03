---------------------------- MODULE HeaderTable ----------------------------
(***************************************************************************)
(* The HPACK header table of libhpack/header_table.c: a FIFO of header     *)
(* fields kept in two circular buffers.  headers_offsets holds, slot by    *)
(* slot, where the record of a field starts in headers_data; a record is   *)
(* the info structure (the two lengths and the flags), the name and the    *)
(* value.  The library is sequential: an operation is a begin step, one    *)
(* step per iteration of its eviction loop, and a final step.              *)
(*                                                                         *)
(* A byte of headers_data is abstracted to what was written there: <<f, k>>*)
(* is byte k of the record of field f.                                     *)
(***************************************************************************)
EXTENDS Integers, FiniteSets

CONSTANTS
  Fields,       \* the header fields the callers add
  NoField,      \* no field: an uninitialised byte, an idle operation
  NameLen,      \* NameLen[f], ValueLen[f]: octets of the name and the value
  ValueLen,
  NullName,     \* fields whose name buffer was never allocated (buf = NULL)
  Entries,      \* HPACK_MAX_HEADER_TABLE_ENTRIES
  DataSize,     \* HPACK_CB_HEADER_DATA_SIZE = SETTINGS_HEADER_TABLE_SIZE
  InfoSize,     \* sizeof (hpack_header_table_field_info_t)
  Overhead,     \* HPACK_HEADER_ENTRY_OVERHEAD
  Static,       \* STATIC_ENTRIES
  U16,          \* 2^16: where a uint16_t wraps
  MaxSizes,     \* the sizes the callers of set_max ask for
  GarbageLens,  \* the lengths an info read from the wrong bytes may show
  Horizon       \* bound: octets stored since the table was last cleared

ASSUME SizesAssumption ==
  /\ Entries \in Nat /\ Entries > 1
  /\ DataSize \in Nat /\ DataSize > 1
  /\ InfoSize \in Nat /\ InfoSize > 0
  /\ Overhead \in Nat /\ InfoSize <= Overhead
  /\ Static \in Nat
  /\ U16 \in Nat /\ DataSize < U16
  /\ Horizon \in Nat

ASSUME FieldsAssumption ==
  /\ NameLen \in [Fields -> Nat]
  /\ ValueLen \in [Fields -> Nat]
  /\ NoField \notin Fields
  /\ NullName \subseteq {f \in Fields : NameLen[f] = 0}
  /\ MaxSizes \subseteq 0 .. U16 - 1
  /\ GarbageLens \subseteq Nat /\ GarbageLens # {}

VARIABLES
  offsets,      \* headers_offsets.buffer
  offs_head,    \* headers_offsets.head: the slot of the oldest field
  offs_tail,    \* headers_offsets.tail: the slot the next field takes
  data,         \* headers_data.buffer
  data_head,
  data_tail,
  num_headers,
  used_data,
  max_data,
  pc,           \* the operation in progress
  field,        \* the field being added
  limit,        \* the maximum being set
  evicted,      \* the evicted_set of the last operation
  ret,          \* what the last operation returned
  tracked,      \* history: the slots a caller that follows the evicted sets
                \* holds to be in use
  stored        \* history: octets stored since the last clear

ring  == <<offsets, offs_head, offs_tail>>
bytes == <<data, data_head, data_tail>>
sums  == <<num_headers, used_data, max_data>>
call  == <<pc, field, limit>>
vars  == <<ring, bytes, sums, call, evicted, ret, tracked, stored>>

Slots == 0 .. Entries - 1
Bytes == 0 .. DataSize - 1

BodyLen(f) == NameLen[f] + ValueLen[f]

RecordLen(f) == InfoSize + BodyLen(f)

\* What the record of f is made of.
Cells == Fields \X Nat

Junk == <<NoField, 0>>

(***************************************************************************)
(* hpack_header_field_get_size: a field with neither name nor value counts *)
(* as zero, with no overhead.                                              *)
(***************************************************************************)
FieldSize(f) == IF BodyLen(f) = 0 THEN 0 ELSE BodyLen(f) + Overhead

-----------------------------------------------------------------------------
(* The circular buffers.  The code masks, which is % for a power of two. *)

\* From position h on to position x, around a buffer of n positions.
Dist(h, x, n) == (x - h + n) % n

\* Slip: the mask is forgotten.
CbMoveUnmasked(x, inc, n) == x + inc

\* header_cb_move
CbMove(x, inc, n) == (x + inc) % n

\* Slips: the ring is never full; one slot too many is kept free.
OffsetsNeverFull == FALSE

OffsetsFullEarly == Dist(2, offs_head, Entries) = offs_tail

\* header_offs_is_full
OffsetsFull == Dist(1, offs_head, Entries) = offs_tail

\* header_data_free
DataFree == Dist(data_tail + 1, data_head, DataSize)

\* INDEX_SWITCH_HT_HPACK: from an HPACK index to a slot, and back.
IndexSwitch(i) == Dist(i, offs_tail, Entries)

\* hpack_header_offset_has_data
HasData(s) == num_headers >= IndexSwitch(s)

(***************************************************************************)
(* Byte i of a read that starts at offset o, as header_data_get and        *)
(* header_data_get_chula do it.  to_end is unsigned: when it wraps, the    *)
(* read goes on past the end of the buffer.                                *)
(***************************************************************************)
ReadCell(o, i) ==
  LET to_end == DataSize - o - data_head
      at     == IF to_end < 0 \/ i < to_end THEN o + i ELSE i - to_end
  IN  IF at \in Bytes THEN data[at] ELSE Junk

\* n bytes read at offset o are those of the record of f from byte k on.
ReadsAs(o, f, k, n) == \A i \in 0 .. n - 1 : ReadCell(o, i) = <<f, k + i>>

InfoReadsAs(o, f) == ReadsAs(o, f, 0, InfoSize)

\* The lengths that the info read at offset o may show.
InfoLens(o) ==
  LET read == {f \in Fields : InfoReadsAs(o, f)}
  IN  IF read = {} THEN GarbageLens ELSE {BodyLen(f) : f \in read}

FetchesAsNoInfo(s, f) ==  \* Slip: the value is sought before the info is skipped.
  LET o == offsets[s]
      v == CbMove(o, NameLen[f], DataSize)
  IN  /\ InfoReadsAs(o, f)
      /\ ReadsAs(CbMove(o, InfoSize, DataSize), f, InfoSize, NameLen[f])
      /\ ReadsAs(v, f, InfoSize + NameLen[f], ValueLen[f])

(***************************************************************************)
(* hpack_header_table_get_set_idx: the field found in slot s, or NoField   *)
(* when what is read is not the record of one field.                       *)
(***************************************************************************)
FetchesAs(s, f) ==
  LET o == offsets[s]
      v == CbMove(o, InfoSize + NameLen[f], DataSize)
  IN  /\ InfoReadsAs(o, f)
      /\ ReadsAs(CbMove(o, InfoSize, DataSize), f, InfoSize, NameLen[f])
      /\ ReadsAs(v, f, InfoSize + NameLen[f], ValueLen[f])

Fetch(s) ==
  IF HasData(s) /\ \E f \in Fields : FetchesAs(s, f)
    THEN CHOOSE f \in Fields : FetchesAs(s, f)
    ELSE NoField

\* The result of hpack_header_table_get for HPACK index n.
Get(n) ==
  IF n > Static + num_headers
    THEN [from |-> "none"]
  ELSE IF n > num_headers
    THEN [from |-> "static", entry |-> n - num_headers]
  ELSE [from |-> "table", entry |-> Fetch(IndexSwitch(n))]

-----------------------------------------------------------------------------
(* The slots between head and tail, the slots in use, and what lies there. *)

OffsDist(s) == Dist(offs_head, s, Entries)

DataDist(b) == Dist(data_head, b, DataSize)

RingCount == OffsDist(offs_tail)

\* header_data_used
DataUsed == DataDist(data_tail)

Live == {s \in Slots : OffsDist(s) < num_headers}

UsedBytes == {b \in Bytes : DataDist(b) < DataUsed}

\* The field whose record starts where slot s says.
FieldAt(s) == data[offsets[s]][1]

-----------------------------------------------------------------------------
(***************************************************************************)
(* header_data_add, called for the info, the name and the value of f in    *)
(* turn: how many octets each call writes.  A part that does not fit, or a *)
(* name without a buffer, is left out, and the next part is still tried.   *)
(***************************************************************************)
\* Slip: the info is written whatever room there is.
InfoStoredUnchecked(f) == InfoSize

InfoStored(f) == IF InfoSize <= DataFree THEN InfoSize ELSE 0

NameStored(f) ==
  IF f \notin NullName /\ NameLen[f] <= DataFree - InfoStored(f)
    THEN NameLen[f] ELSE 0

ValueStored(f) ==
  IF ValueLen[f] <= DataFree - InfoStored(f) - NameStored(f)
    THEN ValueLen[f] ELSE 0

Stored(f) == InfoStored(f) + NameStored(f) + ValueStored(f)

AllStored(f) == f \notin NullName /\ Stored(f) = RecordLen(f)

\* Which byte of the record the j-th octet written is.
RecordByte(f, j) ==
  IF j < InfoStored(f)                    THEN j
  ELSE IF j < InfoStored(f) + NameStored(f) THEN InfoSize + j - InfoStored(f)
  ELSE InfoSize + NameLen[f] + j - InfoStored(f) - NameStored(f)

\* headers_data.buffer after the three calls.
DataWith(f) ==
  [p \in Bytes |-> LET j == Dist(data_tail, p, DataSize)
                   IN  IF j < Stored(f) THEN <<f, RecordByte(f, j)>> ELSE data[p]]

-----------------------------------------------------------------------------
Init ==
  /\ offsets = [s \in Slots |-> 0]
  /\ offs_head = 0 /\ offs_tail = 0
  /\ data = [b \in Bytes |-> Junk]
  /\ data_head = 0 /\ data_tail = 0
  /\ num_headers = 0 /\ used_data = 0 /\ max_data = DataSize
  /\ pc = "idle" /\ field = NoField /\ limit = 0
  /\ evicted = {} /\ ret = "ok"
  /\ tracked = {} /\ stored = 0

\* Slip: the tail of the octets is left where it was.
ClearTableKeepsTail ==
  /\ offs_head' = 0 /\ offs_tail' = 0
  /\ data_head' = 0
  /\ num_headers' = 0 /\ used_data' = 0
  /\ stored' = 0
  /\ UNCHANGED <<offsets, data, data_tail>>

\* hpack_header_table_clear: the buffers keep their contents.
ClearTable ==
  /\ offs_head' = 0 /\ offs_tail' = 0
  /\ data_head' = 0 /\ data_tail' = 0
  /\ num_headers' = 0 /\ used_data' = 0
  /\ stored' = 0
  /\ UNCHANGED <<offsets, data>>

Return(r) ==
  /\ pc' = "idle" /\ field' = NoField /\ limit' = 0
  /\ ret' = r

Clear ==
  /\ pc = "idle"
  /\ ClearTable
  /\ max_data' = DataSize
  /\ Return("ok")
  /\ evicted' = {}
  /\ tracked' = {}

-----------------------------------------------------------------------------
(* header_table_evict, one iteration of the loop that calls it. *)

\* Nothing to evict: ret_ok, and *ret_evicted is not assigned.  It still holds
\* the slot evicted before it, or, the first time, whatever was on the stack.
EvictNothing ==
  /\ num_headers = 0
  /\ \/ UNCHANGED evicted
     \/ evicted = {} /\ \E s \in Slots : evicted' = {s}
  /\ UNCHANGED <<ring, bytes, sums, call, ret, tracked, stored>>

\* The two buffers disagree about the oldest field: the operation gives up.
EvictMismatch ==
  /\ num_headers > 0
  /\ data_head # offsets[offs_head]
  /\ Return("error")
  /\ tracked' = tracked \ evicted
  /\ UNCHANGED <<ring, bytes, sums, evicted, stored>>

\* Slips: what is released lacks the overhead; nothing is released.
ReleasedNoOverhead(n) == n

ReleasedNothing(n) == 0

\* What an evicted body of n octets gives back of used_data.
Released(n) == n + Overhead

\* Slips: the set is cleared on each turn; the slot is read after the move.
ReportedLastOnly == {offs_head}

ReportedNext == evicted \cup {CbMove(offs_head, 1, Entries)}

\* evicted_set once the oldest slot is added to it.
Reported == evicted \cup {offs_head}

EvictOldest ==
  /\ num_headers > 0
  /\ data_head = offsets[offs_head]
  /\ \E n \in InfoLens(data_head) :
       /\ data_head' = CbMove(data_head, InfoSize + n, DataSize)
       /\ used_data' = (used_data - Released(n)) % U16
  /\ offs_head' = CbMove(offs_head, 1, Entries)
  /\ num_headers' = num_headers - 1
  /\ evicted' = Reported
  /\ UNCHANGED <<offsets, offs_tail, data, data_tail, max_data, call, ret,
                 tracked, stored>>

Evict == EvictNothing \/ EvictMismatch \/ EvictOldest

-----------------------------------------------------------------------------
(* hpack_header_table_add *)

\* The field is larger than the table may be: everything goes.
AddTooLarge(f) ==
  /\ pc = "idle"
  /\ FieldSize(f) > max_data
  /\ ClearTable
  /\ max_data' = DataSize
  /\ Return("ok")
  /\ evicted' = Slots
  /\ tracked' = {}

AddBeginAnySize(f) ==  \* Slip: a field larger than the table is let in.
  /\ pc = "idle"
  /\ stored + RecordLen(f) <= Horizon
  /\ pc' = "add" /\ field' = f
  /\ evicted' = {}
  /\ UNCHANGED <<ring, bytes, sums, limit, ret, tracked, stored>>

AddBegin(f) ==
  /\ pc = "idle"
  /\ FieldSize(f) <= max_data
  /\ stored + RecordLen(f) <= Horizon
  /\ pc' = "add" /\ field' = f
  /\ evicted' = {}
  /\ UNCHANGED <<ring, bytes, sums, limit, ret, tracked, stored>>

\* Slips: the new field is not counted; one octet too many is asked for.
AddFitsAlready == used_data <= max_data

AddFitsStrictly == FieldSize(field) < max_data - used_data

\* The condition the loop ends on.
AddFits == FieldSize(field) <= max_data - used_data

AddEvict == pc = "add" /\ ~ AddFits /\ Evict

AddNoOffset ==
  /\ pc = "add" /\ AddFits
  /\ OffsetsFull
  /\ Return("error")
  /\ tracked' = tracked \ evicted
  /\ UNCHANGED <<ring, bytes, sums, evicted, stored>>

AddStore ==
  /\ pc = "add" /\ AddFits
  /\ ~ OffsetsFull
  /\ offsets' = [offsets EXCEPT ![offs_tail] = data_tail]
  /\ offs_tail' = CbMove(offs_tail, 1, Entries)
  /\ data' = DataWith(field)
  /\ data_tail' = CbMove(data_tail, Stored(field), DataSize)
  /\ \/ /\ AllStored(field)
        /\ used_data' = (used_data + FieldSize(field)) % U16
        /\ num_headers' = num_headers + 1
        /\ tracked' = (tracked \ evicted) \cup {offs_tail}
        /\ Return("ok")
     \/ \* the rollback that follows in the code is never reached
        /\ ~ AllStored(field)
        /\ tracked' = tracked \ evicted
        /\ Return("error")
        /\ UNCHANGED <<used_data, num_headers>>
  /\ stored' = stored + RecordLen(field)
  /\ UNCHANGED <<offs_head, data_head, max_data, evicted>>

-----------------------------------------------------------------------------
(* hpack_header_table_set_max *)

SetMaxRefused(m) ==
  /\ pc = "idle"
  /\ m > DataSize
  /\ Return("error")
  /\ evicted' = {}
  /\ UNCHANGED <<ring, bytes, sums, tracked, stored>>

SetMaxZero ==
  /\ pc = "idle"
  /\ 0 \in MaxSizes
  /\ ClearTable
  /\ max_data' = 0
  /\ Return("ok")
  /\ evicted' = {}
  /\ UNCHANGED tracked

SetMaxBegin(m) ==
  /\ pc = "idle"
  /\ m \in 1 .. DataSize
  /\ pc' = "set_max" /\ limit' = m
  /\ evicted' = {}
  /\ UNCHANGED <<ring, bytes, sums, field, ret, tracked, stored>>

SetMaxEvict == pc = "set_max" /\ limit < used_data /\ Evict

SetMaxEnd ==
  /\ pc = "set_max" /\ limit >= used_data
  /\ max_data' = limit
  /\ Return("ok")
  /\ tracked' = tracked \ evicted
  /\ UNCHANGED <<ring, bytes, num_headers, used_data, evicted, stored>>

-----------------------------------------------------------------------------
\* The steps of an operation under way, and those that start one.
Step == AddEvict \/ AddNoOffset \/ AddStore \/ SetMaxEvict \/ SetMaxEnd

Start ==
  \/ Clear
  \/ \E f \in Fields : AddTooLarge(f) \/ AddBegin(f)
  \/ SetMaxZero
  \/ \E m \in MaxSizes : SetMaxRefused(m) \/ SetMaxBegin(m)

Next == Step \/ Start

Spec == Init /\ [][Next]_vars

\* A call that has begun runs on: nothing in the library waits or blocks.
FairSpec == Spec /\ WF_vars(Step)

-----------------------------------------------------------------------------
(* Correctness. *)

\* The type of every variable.
TypeOK ==
  /\ offsets \in [Slots -> Bytes]
  /\ offs_head \in Slots /\ offs_tail \in Slots
  /\ data \in [Bytes -> Cells \cup {Junk}]
  /\ data_head \in Bytes /\ data_tail \in Bytes
  /\ num_headers \in Slots
  /\ used_data \in 0 .. U16 - 1
  /\ max_data \in 0 .. DataSize
  /\ pc \in {"idle", "add", "set_max"}
  /\ field \in Fields \cup {NoField}
  /\ pc = "add" => field \in Fields
  /\ limit \in 0 .. DataSize
  /\ evicted \subseteq Slots
  /\ ret \in {"ok", "error"}
  /\ tracked \subseteq Slots
  /\ stored \in Nat

\* The slots between head and tail are never fewer than the fields counted,
\* even after an add that failed half way (header_table.c:643-672) or an
\* eviction that misread a length: so a live slot is never a free one.
RingHoldsLive == num_headers <= RingCount

\* Storing a field never writes the offset of a live field, nor a byte between
\* data_head and data_tail (header_offs_is_full, header_data_free).
NoOverwrite ==
  [][/\ \A s \in Live \cap Live' : offsets'[s] = offsets[s]
     /\ \A b \in UsedBytes : data'[b] = data[b]]_vars

\* What a caller is told is exactly what the table holds: a caller that drops
\* the evicted slots and adds the new one is left with the slots in use
\* (the contract of evicted_set, header_table.c:578-587 and 682-685).
EvictedReported == pc = "idle" => tracked = Live

\* A slot reported evicted holds no field: neither half way through the loop
\* nor after the new field has been stored.
EvictedAreGone == evicted \cap Live = {}

\* The records of the live fields lie end to end from data_head to data_tail,
\* oldest first.
RecordsContiguous ==
  /\ num_headers = RingCount
  /\ \A s \in Live :
       /\ FieldAt(s) \in Fields
       /\ s = offs_head => offsets[s] = data_head
       /\ CbMove(offsets[s], RecordLen(FieldAt(s)), DataSize) =
            LET next == CbMove(s, 1, Entries)
            IN  IF next = offs_tail THEN data_tail ELSE offsets[next]
  /\ num_headers = 0 => data_head = data_tail

\* Every live field is read back as it was stored (hpack_header_table_get).
FetchReturnsStored == \A s \in Live : Fetch(s) = FieldAt(s)

\* used_data is what HPACK calls the size of the table.
Accounting ==
  used_data = DataUsed + num_headers * (Overhead - InfoSize)

\* The size of the table is within its maximum whenever a call has returned.
WithinMax == pc = "idle" => used_data <= max_data

\* "There's been an error, which is impossible" (header_table.c:595): a field
\* that is not refused outright is stored.
NeverFails == [][pc = "add" /\ pc' = "idle" => ret' = "ok"]_vars

\* Evicting is only tried while there is something to evict
\* (header_table.c:630 "We know there are elements").
EvictFindsField == (pc = "add" /\ ~ AddFits) \/ (pc = "set_max" /\ limit < used_data)
                      => num_headers > 0

\* Every add and every set_max returns.
CallsReturn == (pc # "idle") ~> (pc = "idle")
=============================================================================
