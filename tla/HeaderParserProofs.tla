------------------------- MODULE HeaderParserProofs -------------------------
(***************************************************************************)
(* Theorems about the decoder, for every value of the constants: blocks of *)
(* any length, in any order, with any failures.  First what holds in any   *)
(* conditions, then what it promises about its references where the table  *)
(* is in its regime (see HeaderTableRegimeProofs): they are to live        *)
(* fields, and a block read to its end has emitted every one of them.      *)
(***************************************************************************)
EXTENDS HeaderParser, HeaderTableRegimeProofs, BitmapSetProofs

(* Indexes and slots. *)

LEMMA SwitchIsSlot ==
  ASSUME TypeOK, NEW n \in Nat
  PROVE  IndexSwitch(n) \in Slots
<1>1. n \in Int /\ offs_tail \in Int /\ Entries \in Nat /\ Entries > 0
  BY Positions, Sizes
<1> QED
  BY <1>1, DistRange DEF IndexSwitch, Slots

\* A slot is found again by the HPACK index it is given.
LEMMA SwitchTwice ==
  ASSUME TypeOK, NEW s \in Slots
  PROVE  IndexSwitch(IndexSwitch(s)) = s
<1>1. offs_tail \in Slots
  BY DEF TypeOK
<1>2. IndexSwitch(s) \in Slots
  BY SwitchIsSlot, Sizes DEF Slots
<1>3. IndexSwitch(s) = IF s <= offs_tail THEN offs_tail - s ELSE offs_tail - s + Entries
  BY <1>1, SlotDist DEF IndexSwitch
<1>4. IndexSwitch(IndexSwitch(s)) =
        IF IndexSwitch(s) <= offs_tail THEN offs_tail - IndexSwitch(s)
                                       ELSE offs_tail - IndexSwitch(s) + Entries
  BY <1>1, <1>2, SlotDist DEF IndexSwitch
<1>5. s \in 0 .. Entries - 1 /\ offs_tail \in 0 .. Entries - 1
  BY <1>1 DEF Slots
<1> QED
  BY <1>3, <1>4, <1>5, Sizes

LEMMA EmittingIsSwitch ==
  ASSUME NEW n
  PROVE  Emitting(n) \subseteq {IndexSwitch(n)} /\ Emitting(n) \subseteq Slots
  BY DEF Emitting, Live

-----------------------------------------------------------------------------
(* The decoder and the table. *)

LEMMA StaticFields ==
  ASSUME NEW n \in Nat, Get(n).from = "static", TypeOK
  PROVE  StaticField[Get(n).entry] \in Fields
<1>1. num_headers \in Nat /\ Static \in Nat
  BY Positions, Sizes, SizesAssumption
<1>2. Get(n) = [from |-> "static", entry |-> n - num_headers]
      /\ n > num_headers /\ n <= Static + num_headers
  BY <1>1 DEF Get
<1>3. Get(n).entry \in 1 .. Static
  BY <1>1, <1>2
<1> QED
  BY <1>3, ParserAssumption

\* The decoder changes the table by the operations of the table only.
LEMMA ParserStepsTable ==
  ASSUME TypeOK, [ParserNext]_pvars
  PROVE  [Next]_vars
<1>1. ASSUME NEW f \in Fields, NEW mode, StartAdd(f, mode)
      PROVE  Next
  BY <1>1 DEF StartAdd, Next, Start
<1>2. ASSUME NEW n \in Asked, IndexedStatic(n)
      PROVE  Next
  <2>1. StaticField[Get(n).entry] \in Fields
    BY <1>2, StaticFields, ParserAssumption DEF IndexedStatic
  <2> QED
    BY <1>1, <1>2, <2>1 DEF IndexedStatic
<1>3. ASSUME NEW m \in MaxSizes, Resize(m)
      PROVE  Next
  BY <1>3 DEF Resize, Next, Start
<1>4. CASE Input
  <2>1. CASE Malformed \/ LiteralOnly \/ Emptying
    BY <2>1 DEF Malformed, LiteralOnly, Emptying
  <2>2. ASSUME NEW n \in Asked, IndexedKnown(n) \/ IndexedTable(n) \/ IndexedStatic(n)
        PROVE  [Next]_vars
    BY <1>2, <2>2 DEF IndexedKnown, IndexedTable
  <2>3. ASSUME NEW f \in Fields, LiteralIndexed(f)
        PROVE  [Next]_vars
    BY <1>1, <2>3 DEF LiteralIndexed
  <2> QED
    BY <1>3, <1>4, <2>1, <2>2, <2>3 DEF Input
<1>5. CASE ParserStep
  BY <1>5 DEF ParserStep, TableStep, StaticAdded, LiteralAdded, AddFailed, Resized, Next
<1>6. CASE BlockBegin \/ Final
  BY <1>6 DEF BlockBegin, Final, FinishedBefore, FinalEnd, FinalEmit
<1>7. CASE UNCHANGED pvars
  BY <1>7 DEF pvars
<1> QED
  BY <1>4, <1>5, <1>6, <1>7 DEF ParserNext

-----------------------------------------------------------------------------
(* The invariants of the decoder. *)

ControlType ==
  /\ at \in {"idle", "block", "static", "inc", "resize", "final"}
  /\ reference_set \subseteq Slots /\ ref_not_emitted \subseteq Slots
  /\ iter_entry \in 0 .. Words /\ iter_bit \in WordBit
  /\ finished \in BOOLEAN
  /\ outcome \in {"ok", "error"} /\ clean \in BOOLEAN
  /\ emitted \subseteq Slots

ParserInv == RingInv /\ ControlType /\ PendingAreReferences /\ EmittedOnce

LEMMA ParserInvInit == ParserInit => ParserInv
<1> SUFFICES ASSUME ParserInit PROVE ParserInv
  OBVIOUS
<1>1. RingInv
  BY RingInvInit DEF ParserInit
<1>2. /\ at \in {"idle", "block", "static", "inc", "resize", "final"}
      /\ iter_entry \in 0 .. Words /\ iter_bit \in WordBit
      /\ outcome \in {"ok", "error"}
  BY WordNumbers DEF ParserInit, WordBit
<1>3. finished \in BOOLEAN /\ clean \in BOOLEAN
  BY Zenon DEF ParserInit
<1>4. ControlType /\ PendingAreReferences /\ EmittedOnce
  BY <1>2, <1>3, Zenon DEF ParserInit, ControlType, PendingAreReferences, EmittedOnce
<1> QED
  BY <1>1, <1>4 DEF ParserInv

Control == ControlType /\ PendingAreReferences /\ EmittedOnce

\* What a representation that refers to slot s, and one that drops slots, do
\* to the sets.
LEMMA ReferKeeps ==
  ASSUME ControlType, PendingAreReferences, EmittedOnce, at # "idle",
         NEW s \in Slots, NEW gone, NEW got, got \subseteq {s},
         reference_set' = (reference_set \ gone) \cup {s},
         ref_not_emitted' = (ref_not_emitted \ gone) \ {s},
         emitted' = (emitted \ gone) \cup got
  PROVE  /\ reference_set' \subseteq Slots /\ ref_not_emitted' \subseteq Slots
         /\ emitted' \subseteq Slots
         /\ PendingAreReferences' /\ EmittedOnce'
  BY DEF ControlType, PendingAreReferences, EmittedOnce

LEMMA DropKeeps ==
  ASSUME ControlType, PendingAreReferences, EmittedOnce, at # "idle",
         NEW gone,
         reference_set' = reference_set \ gone,
         ref_not_emitted' = ref_not_emitted \ gone,
         emitted' = emitted \ gone
  PROVE  /\ reference_set' \subseteq Slots /\ ref_not_emitted' \subseteq Slots
         /\ emitted' \subseteq Slots
         /\ PendingAreReferences' /\ EmittedOnce'
  BY DEF ControlType, PendingAreReferences, EmittedOnce

LEMMA InputKeeps ==
  ASSUME ParserInv, Input
  PROVE  Control'
<1> USE DEF ParserInv, Control
<1>1. CASE Malformed \/ LiteralOnly \/ Emptying
  BY <1>1 DEF Malformed, LiteralOnly, Emptying, Representation, BlockEnds, BlockGoesOn, Emit,
       ControlType, PendingAreReferences, EmittedOnce, refs, iter, history
<1>2. ASSUME NEW n \in Asked, IndexedKnown(n)
      PROVE  Control'
  BY <1>2 DEF IndexedKnown, Representation, BlockGoesOn,
       ControlType, PendingAreReferences, EmittedOnce, refs, iter, history
<1>3. ASSUME NEW n \in Asked, IndexedTable(n)
      PROVE  Control'
  <2>1. IndexSwitch(n) \in Slots
    BY SwitchIsSlot, ParserAssumption DEF RingInv
  <2>2. Emitting(n) \subseteq {IndexSwitch(n)}
    BY EmittingIsSwitch
  <2>3. /\ reference_set' = (reference_set \ {}) \cup {IndexSwitch(n)}
        /\ ref_not_emitted' = (ref_not_emitted \ {}) \ {IndexSwitch(n)}
        /\ emitted' = (emitted \ {}) \cup Emitting(n)
        /\ at # "idle"
    BY <1>3 DEF IndexedTable, Representation
  <2>4. /\ reference_set' \subseteq Slots /\ ref_not_emitted' \subseteq Slots
        /\ emitted' \subseteq Slots
        /\ PendingAreReferences' /\ EmittedOnce'
    BY <2>1, <2>2, <2>3, ReferKeeps
  <2> QED
    BY <1>3, <2>4 DEF IndexedTable, Representation, Emit, BlockGoesOn, BlockEnds,
         ControlType, iter, history
<1>4. ASSUME NEW f, NEW mode \in {"static", "inc"}, StartAdd(f, mode)
      PROVE  Control'
  BY <1>4 DEF StartAdd, Representation,
       ControlType, PendingAreReferences, EmittedOnce, refs, iter, history
<1>5. ASSUME NEW m \in MaxSizes, Resize(m)
      PROVE  Control'
  BY <1>5 DEF Resize, Representation,
       ControlType, PendingAreReferences, EmittedOnce, refs, iter, history
<1> QED
  BY <1>1, <1>2, <1>3, <1>4, <1>5 DEF Input, IndexedStatic, LiteralIndexed

LEMMA StepKeeps ==
  ASSUME ParserInv, ParserStep
  PROVE  Control'
<1> USE DEF ParserInv, Control
<1>1. CASE TableStep
  BY <1>1 DEF TableStep, ControlType, PendingAreReferences, EmittedOnce, refs, iter, history
<1>2. ASSUME ReferToNewest, at # "idle"
      PROVE  /\ reference_set' \subseteq Slots /\ ref_not_emitted' \subseteq Slots
             /\ emitted' \subseteq Slots
             /\ PendingAreReferences' /\ EmittedOnce'
  <2>1. IndexSwitch(1) \in Slots
    BY SwitchIsSlot DEF RingInv
  <2>2. {IndexSwitch(1)} \cap Live \subseteq {IndexSwitch(1)}
    OBVIOUS
  <2> QED
    BY <1>2, <2>1, <2>2, ReferKeeps DEF ReferToNewest
<1>3. ASSUME DropEvicted, at # "idle"
      PROVE  /\ reference_set' \subseteq Slots /\ ref_not_emitted' \subseteq Slots
             /\ emitted' \subseteq Slots
             /\ PendingAreReferences' /\ EmittedOnce'
  BY <1>3, DropKeeps DEF DropEvicted
<1>4. CASE StaticAdded
  BY <1>2, <1>4 DEF StaticAdded, Emit, BlockGoesOn, BlockEnds, ControlType, iter, history
<1>5. CASE LiteralAdded
  BY <1>2, <1>3, <1>5 DEF LiteralAdded, Emit, BlockGoesOn, BlockEnds, ControlType, iter, history
<1>6. CASE AddFailed
  BY <1>6 DEF AddFailed, BlockEnds, ControlType, PendingAreReferences, EmittedOnce, refs, iter
<1>7. CASE Resized
  <2>1. CASE ret = "ok" /\ DropEvicted /\ BlockGoesOn
    BY <1>3, <1>7, <2>1 DEF Resized, BlockGoesOn, ControlType, iter, history
  <2>2. CASE BlockEnds("error") /\ emitted' = emitted \ evicted /\ UNCHANGED refs
    BY <1>7, <2>2 DEF Resized, BlockEnds, ControlType, PendingAreReferences, EmittedOnce,
         refs, iter
  <2> QED
    BY <1>7, <2>1, <2>2 DEF Resized
<1> QED
  BY <1>1, <1>4, <1>5, <1>6, <1>7 DEF ParserStep

LEMMA FinalKeeps ==
  ASSUME ParserInv, Final
  PROVE  Control'
<1> USE DEF ParserInv, Control
<1>1. CASE FinishedBefore
  BY <1>1 DEF FinishedBefore, BlockEnds, ControlType, PendingAreReferences, EmittedOnce,
       refs, iter
<1>2. CASE FinalEnd
  BY <1>2, WordNumbers DEF FinalEnd, BlockEnds, ControlType, PendingAreReferences,
       EmittedOnce, refs, iter, WordBit
<1>3. CASE FinalEmit
  <2>1. /\ Pending.index \in ref_not_emitted
        /\ Pending.entry \in 0 .. Words /\ Pending.bit \in WordBit
    BY <1>3, IterNextType DEF FinalEmit, Pending, ControlType
  <2>2. Emitting(IndexSwitch(Pending.index)) \subseteq {Pending.index}
    <3>1. Pending.index \in Slots
      BY <2>1 DEF ControlType
    <3>2. IndexSwitch(IndexSwitch(Pending.index)) = Pending.index
      BY <3>1, SwitchTwice DEF RingInv
    <3> QED
      BY <3>2, EmittingIsSwitch
  <2>3. Emitting(IndexSwitch(Pending.index)) \subseteq Slots
    BY EmittingIsSwitch
  <2> HIDE DEF Pending
  <2> QED
    BY <1>3, <2>1, <2>2, <2>3 DEF FinalEmit, AtEnd, BlockEnds, ControlType,
         PendingAreReferences, EmittedOnce, history
<1> QED
  BY <1>1, <1>2, <1>3 DEF Final

LEMMA ParserInvStep == ParserInv /\ [ParserNext]_pvars => ParserInv'
<1> SUFFICES ASSUME ParserInv, [ParserNext]_pvars PROVE ParserInv'
  OBVIOUS
<1>1. RingInv'
  BY ParserStepsTable, RingInvStep DEF ParserInv, RingInv
<1>2. BlockBegin => Control'
  BY Zenon DEF BlockBegin, Control, ParserInv, ControlType, PendingAreReferences, EmittedOnce,
       refs, iter
<1>3. UNCHANGED pvars => Control'
  <2> SUFFICES ASSUME UNCHANGED pvars PROVE Control'
    OBVIOUS
  <2>1. /\ UNCHANGED <<at, reference_set, ref_not_emitted, iter_entry, iter_bit, emitted>>
        /\ UNCHANGED <<finished, outcome, clean>>
    BY DEF pvars, refs, iter, history
  <2> QED
    BY <2>1, Zenon DEF Control, ParserInv, ControlType, PendingAreReferences, EmittedOnce
<1>4. Control'
  BY <1>2, <1>3, InputKeeps, StepKeeps, FinalKeeps DEF ParserNext
<1> QED
  BY <1>1, <1>4 DEF ParserInv, Control

-----------------------------------------------------------------------------
(* Theorems. *)

\* Whatever blocks it reads, the decoder uses the table as a caller may: all
\* that is proved of the table holds within the decoder.
THEOREM ParserUsesTable == ParserSpec => Spec
<1>1. ParserInit => Init
  BY DEF ParserInit
<1>2. ParserInv /\ [ParserNext]_pvars => [Next]_vars
  BY ParserStepsTable DEF ParserInv, RingInv
<1> QED
  BY <1>1, <1>2, ParserInvInit, ParserInvStep, PTL DEF ParserSpec, Spec

\* No block, failure or eviction leads the sets to a slot that does not
\* exist, or the iterator to a position that is not one of the set.
THEOREM ParserTypeCorrect == ParserSpec => []ParserTypeOK
<1>1. ParserInv => ParserTypeOK
  BY DEF ParserInv, ControlType, RingInv, ParserTypeOK
<1> QED
  BY <1>1, ParserInvInit, ParserInvStep, PTL DEF ParserSpec

\* Only references wait for the end of a block (ref_not_emitted follows every
\* change of reference_set).
THEOREM OnlyReferencesPend == ParserSpec => []PendingAreReferences
<1>1. ParserInv => PendingAreReferences
  BY DEF ParserInv
<1> QED
  BY <1>1, ParserInvInit, ParserInvStep, PTL DEF ParserSpec

\* The end of a block emits nothing that the block has emitted already, even
\* where the table turns a static index into the slot of a field.
THEOREM NothingEmittedTwice == ParserSpec => []EmittedOnce
<1>1. ParserInv => EmittedOnce
  BY DEF ParserInv
<1> QED
  BY <1>1, ParserInvInit, ParserInvStep, PTL DEF ParserSpec

-----------------------------------------------------------------------------
(* In the regime of the table. *)

\* The maxima the table may have.
Maxima == MaxSizes \cup {DataSize}

\* Index 0 is not asked for, and every static field fits into the table
\* whatever its maximum ("We don't need to check if it could be added").
ParserRegime ==
  /\ Regime
  /\ 0 \notin Asked
  /\ \A n \in 1 .. Static, m \in Maxima : FieldSize(StaticField[n]) <= m

\* The table's operation under way is the one that was started, and it does
\* not fail half way.
CallMatches ==
  /\ max_data \in Maxima
  /\ at \in {"idle", "block", "final"} => pc = "idle"
  /\ at \in {"static", "inc"} /\ pc # "idle" => pc = "add"
  /\ at = "resize" /\ pc # "idle" => pc = "set_max" /\ limit \in MaxSizes
  /\ at \in {"static", "inc"} /\ pc = "idle" => ret = "ok"
  /\ at = "resize" /\ pc = "idle" /\ ret = "error" => evicted = {}
  /\ at = "inc" /\ pc = "idle" => evicted = Slots \/ num_headers > 0
  /\ at = "static" /\ pc = "idle" => num_headers > 0
  /\ at = "static" /\ pc = "add" => field \in {StaticField[n] : n \in 1 .. Static}

\* In the midst of an operation a reference is live or has been reported.
ReferencesKnown ==
  /\ ReferencesLive
  /\ at \in {"static", "inc", "resize"} => reference_set \ evicted \subseteq Live

\* What the iterator has passed is not to be emitted any more.
AheadOfIterator == \A s \in ref_not_emitted : s >= iter_entry * WordBits + iter_bit

\* A reference has been emitted or waits, and the iterator will get to it,
\* unless the block before this one was given up.
NoneForgotten ==
  /\ at = "idle" /\ outcome = "ok" =>
       reference_set \subseteq ref_not_emitted /\ AheadOfIterator
  /\ at # "idle" /\ clean =>
       reference_set \subseteq emitted \cup ref_not_emitted /\ AheadOfIterator

ReferInv ==
  ParserInv /\ RegimeInv /\ CallMatches /\ ReferencesKnown

EmitInv == NoneForgotten /\ BlockEmitsReferences

-----------------------------------------------------------------------------
(* HPACK indexes and live slots. *)

LEMMA IndexIsLive ==
  ASSUME RegimeInv, NEW n \in 1 .. num_headers
  PROVE  IndexSwitch(n) \in Live
<1>1. /\ num_headers \in 0 .. Entries - 1 /\ num_headers = RingCount
      /\ offs_head \in 0 .. Entries - 1 /\ offs_tail \in 0 .. Entries - 1
      /\ offs_head \in Slots /\ offs_tail \in Slots /\ TypeOK
  BY Positions DEF RegimeInv, RingInv, Layout, Slots
<1>2. n \in Slots /\ Entries \in Nat
  BY <1>1, Sizes DEF Slots
<1>3. /\ IndexSwitch(n) = IF n <= offs_tail THEN offs_tail - n ELSE offs_tail - n + Entries
      /\ IndexSwitch(n) \in 0 .. Entries - 1 /\ IndexSwitch(n) \in Slots
  BY <1>1, <1>2, SlotDist DEF IndexSwitch, Slots
<1> DEFINE s == IndexSwitch(n)
<1>4. OffsDist(s) = IF offs_head <= s THEN s - offs_head ELSE s - offs_head + Entries
  BY <1>1, <1>3, SlotDist DEF OffsDist
<1>5. num_headers = IF offs_head <= offs_tail THEN offs_tail - offs_head
                                              ELSE offs_tail - offs_head + Entries
  BY <1>1, RingCountIs
<1> HIDE DEF s
<1>6. s = IF n <= offs_tail THEN offs_tail - n ELSE offs_tail - n + Entries
  BY <1>3 DEF s
<1>7. OffsDist(s) < num_headers
  BY <1>1, <1>2, <1>4, <1>5, <1>6
<1> QED
  BY <1>3, <1>7 DEF s, Live

LEMMA LiveIsIndex ==
  ASSUME RegimeInv, NEW s \in Live
  PROVE  s \in Slots /\ IndexSwitch(s) \in 1 .. num_headers
<1>1. /\ num_headers \in 0 .. Entries - 1 /\ num_headers = RingCount
      /\ offs_head \in 0 .. Entries - 1 /\ offs_tail \in 0 .. Entries - 1
      /\ offs_head \in Slots /\ offs_tail \in Slots /\ TypeOK
  BY Positions DEF RegimeInv, RingInv, Layout, Slots
<1>2. s \in Slots /\ s \in 0 .. Entries - 1 /\ OffsDist(s) < num_headers /\ Entries \in Nat
  BY Sizes DEF Live, Slots
<1>3. IndexSwitch(s) = IF s <= offs_tail THEN offs_tail - s ELSE offs_tail - s + Entries
  BY <1>1, <1>2, SlotDist DEF IndexSwitch
<1>4. OffsDist(s) = IF offs_head <= s THEN s - offs_head ELSE s - offs_head + Entries
  BY <1>1, <1>2, SlotDist DEF OffsDist
<1>5. num_headers = IF offs_head <= offs_tail THEN offs_tail - offs_head
                                              ELSE offs_tail - offs_head + Entries
  BY <1>1, RingCountIs
<1>6. IndexSwitch(s) \in 1 .. num_headers
  BY <1>1, <1>2, <1>3, <1>4, <1>5
<1> QED
  BY <1>2, <1>6

\* What is looked up by the index of a live field is that field.
LEMMA EmittingLive ==
  ASSUME Regime, RegimeInv, NEW n \in 1 .. num_headers
  PROVE  Emitting(n) = {IndexSwitch(n)}
<1>1. IndexSwitch(n) \in Live
  BY IndexIsLive
<1>2. Fetch(IndexSwitch(n)) = FieldAt(IndexSwitch(n))
  BY <1>1, FetchIs
<1>3. num_headers \in Nat /\ Static \in Nat
  BY Positions, SizesAssumption DEF RegimeInv, RingInv
<1>4. Get(n) = [from |-> "table", entry |-> Fetch(IndexSwitch(n))]
  BY <1>3 DEF Get
<1> QED
  BY <1>1, <1>2, <1>4 DEF Emitting

LEMMA TableIndex ==
  ASSUME RegimeInv, NEW n \in Nat, n # 0, Get(n).from = "table"
  PROVE  n \in 1 .. num_headers
<1>1. num_headers \in Nat /\ Static \in Nat
  BY Positions, SizesAssumption DEF RegimeInv, RingInv
<1>2. ~ (n > Static + num_headers) /\ ~ (n > num_headers)
  BY <1>1 DEF Get
<1> QED
  BY <1>1, <1>2

-----------------------------------------------------------------------------
(* The steps of the table, as the decoder sees them. *)

\* In the regime a step evicts the oldest field, stores the new one, or ends
\* with the maximum set.
LEMMA StepIs ==
  ASSUME Regime, RegimeInv, Step
  PROVE  /\ Live \subseteq Live' \cup evicted' /\ evicted \subseteq evicted'
         /\ \/ /\ pc # "idle" /\ UNCHANGED <<pc, field, limit, ret, max_data>>
            \/ /\ pc = "add" /\ pc' = "idle" /\ ret' = "ok"
               /\ num_headers' > 0 /\ max_data' = max_data
            \/ /\ pc = "set_max" /\ pc' = "idle" /\ ret' = "ok" /\ max_data' = limit
<1>1. RingInv /\ Layout /\ RecordsIntact /\ num_headers \in Nat
  BY Positions DEF RegimeInv, RingInv
<1>2. CASE AddEvict \/ SetMaxEvict
  <2>1. num_headers > 0 /\ Evict /\ pc # "idle"
    BY <1>2, EvictHasOne DEF AddEvict, SetMaxEvict
  <2>2. EvictOldest
    BY <1>1, <2>1, EvictIs
  <2>3. /\ offs_head' = NextSlot(offs_head) /\ num_headers' = num_headers - 1
        /\ evicted' = evicted \cup {offs_head}
        /\ UNCHANGED <<pc, field, limit, ret, max_data>>
    BY <2>2 DEF EvictOldest, NextSlot, Reported, call
  <2>4. Live' = Live \ {offs_head}
    BY <1>1, <2>1, <2>3, LiveAfterEviction
  <2> QED
    BY <2>1, <2>3, <2>4
<1>3. CASE AddNoOffset
  BY <1>3, SlotLeft DEF AddNoOffset
<1>4. CASE AddStore
  <2>1. /\ offs_head' = offs_head /\ num_headers' = num_headers + 1
        /\ evicted' = evicted /\ pc' = "idle" /\ ret' = "ok"
    BY <1>4, StoreIs
  <2>2. Live' = Live \cup {offs_tail}
    BY <1>1, <2>1, LiveAfterStore DEF Layout
  <2> QED
    BY <1>1, <1>4, <2>1, <2>2 DEF AddStore
<1>5. CASE SetMaxEnd
  <2>1. /\ UNCHANGED <<ring, num_headers>>
        /\ pc = "set_max" /\ pc' = "idle" /\ ret' = "ok" /\ max_data' = limit
        /\ evicted' = evicted
    BY <1>5 DEF SetMaxEnd, Return
  <2>2. Live' = Live
    BY <2>1 DEF ring, Live, OffsDist
  <2> QED
    BY <2>1, <2>2
<1> QED
  BY <1>2, <1>3, <1>4, <1>5 DEF Step

-----------------------------------------------------------------------------
(* References are live. *)

LEMMA ReferInit ==
  ASSUME Regime, ParserInit
  PROVE  CallMatches /\ ReferencesKnown
<1>1. max_data = DataSize /\ pc = "idle" /\ at = "idle" /\ reference_set = {}
  BY DEF ParserInit, Init
<1> QED
  BY <1>1 DEF CallMatches, ReferencesKnown, ReferencesLive, Maxima

\* A representation that leaves the table alone and refers to live fields.
LEMMA TableAlone ==
  ASSUME ReferInv, UNCHANGED vars, pc = "idle",
         at' \in {"idle", "block", "final"}, reference_set' \subseteq Live
  PROVE  CallMatches' /\ ReferencesKnown'
<1>1. /\ UNCHANGED <<offs_head, num_headers, max_data, pc, limit, ret, evicted, field>>
  BY DEF vars, ring, sums, call
<1>2. Live' = Live
  BY <1>1 DEF Live, OffsDist
<1>3. max_data \in Maxima
  BY DEF ReferInv, CallMatches
<1> QED
  BY <1>1, <1>2, <1>3 DEF CallMatches, ReferencesKnown, ReferencesLive

LEMMA StaticFits ==
  ASSUME ParserRegime, CallMatches, TypeOK, NEW n \in 1 .. Static
  PROVE  ~ FieldSize(StaticField[n]) > max_data
<1>1. StaticField[n] \in Fields
  BY ParserAssumption
<1>2. FieldSize(StaticField[n]) \in Nat /\ max_data \in Nat
  BY <1>1, Lengths, Positions
<1>3. FieldSize(StaticField[n]) <= max_data
  BY DEF ParserRegime, CallMatches, Maxima
<1> QED
  BY <1>2, <1>3

LEMMA ReferStartAdd ==
  ASSUME ParserRegime, ReferInv, NEW f \in Fields, NEW mode \in {"static", "inc"},
         StartAdd(f, mode),
         mode = "static" => f \in {StaticField[n] : n \in 1 .. Static}
  PROVE  CallMatches' /\ ReferencesKnown'
<1>1. /\ at = "block" /\ at' = mode /\ reference_set' = reference_set
      /\ reference_set \subseteq Slots /\ reference_set \subseteq Live
      /\ max_data \in Maxima /\ TypeOK
  BY DEF StartAdd, Representation, refs, ReferInv, ParserInv, ControlType, ReferencesKnown,
         ReferencesLive, CallMatches, RingInv
<1>2. CASE AddTooLarge(f)
  <2>1. /\ pc' = "idle" /\ ret' = "ok" /\ evicted' = Slots /\ max_data' = DataSize
        /\ FieldSize(f) > max_data
    BY <1>2 DEF AddTooLarge, Return
  <2>2. mode = "inc"
    BY <1>1, <2>1, StaticFits DEF ReferInv
  <2> QED
    BY <1>1, <2>1, <2>2 DEF CallMatches, ReferencesKnown, ReferencesLive, Maxima
<1>3. CASE AddBegin(f)
  <2>1. /\ pc' = "add" /\ field' = f /\ evicted' = {}
        /\ UNCHANGED <<offs_head, num_headers, max_data>>
    BY <1>3 DEF AddBegin, ring, sums
  <2>2. Live' = Live
    BY <2>1 DEF Live, OffsDist
  <2> QED
    BY <1>1, <2>1, <2>2 DEF CallMatches, ReferencesKnown, ReferencesLive
<1> QED
  BY <1>2, <1>3 DEF StartAdd

LEMMA ReferResize ==
  ASSUME ParserRegime, ReferInv, NEW m \in MaxSizes, Resize(m)
  PROVE  CallMatches' /\ ReferencesKnown'
<1>1. /\ at = "block" /\ at' = "resize" /\ reference_set' = reference_set
      /\ reference_set \subseteq Live /\ max_data \in Maxima
  BY DEF Resize, Representation, refs, ReferInv, ReferencesKnown, ReferencesLive, CallMatches
<1>2. ~ SetMaxZero
  BY DEF SetMaxZero, ParserRegime, Regime
<1>3. /\ evicted' = {} /\ UNCHANGED <<offs_head, num_headers, max_data>>
      /\ \/ pc' = "idle" /\ ret' = "error"
         \/ pc' = "set_max" /\ limit' = m
  BY <1>2 DEF Resize, SetMaxRefused, SetMaxBegin, Return, ring, sums
<1>4. Live' = Live
  BY <1>3 DEF Live, OffsDist
<1> QED
  BY <1>1, <1>3, <1>4 DEF CallMatches, ReferencesKnown, ReferencesLive

LEMMA ReferInput ==
  ASSUME ParserRegime, ReferInv, Input
  PROVE  CallMatches' /\ ReferencesKnown'
<1>1. RegimeInv /\ TypeOK /\ (at = "block" => reference_set \subseteq Live /\ pc = "idle")
  BY DEF ReferInv, ParserInv, RingInv, ReferencesKnown, ReferencesLive, CallMatches
<1>2. CASE Malformed \/ LiteralOnly \/ Emptying
  <2>1. /\ UNCHANGED vars /\ at = "block" /\ at' \in {"idle", "block"}
        /\ reference_set' = reference_set \/ reference_set' = {}
    BY <1>2 DEF Malformed, LiteralOnly, Emptying, Representation, Emit, BlockEnds, BlockGoesOn,
         refs
  <2> QED
    BY <1>1, <2>1, TableAlone
<1>3. ASSUME NEW n \in Asked, IndexedKnown(n)
      PROVE  CallMatches' /\ ReferencesKnown'
  <2>1. /\ UNCHANGED vars /\ at = "block" /\ at' = "block"
        /\ reference_set' \subseteq reference_set
    BY <1>3 DEF IndexedKnown, Representation, BlockGoesOn
  <2> QED
    BY <1>1, <2>1, TableAlone
<1>4. ASSUME NEW n \in Asked, IndexedTable(n)
      PROVE  CallMatches' /\ ReferencesKnown'
  <2>1. n \in Nat /\ n # 0
    BY ParserAssumption DEF ParserRegime
  <2>2. IndexSwitch(n) \in Live
    BY <1>1, <1>4, <2>1, TableIndex, IndexIsLive DEF IndexedTable
  <2>3. /\ UNCHANGED vars /\ at = "block" /\ at' \in {"idle", "block"}
        /\ reference_set' = reference_set \cup {IndexSwitch(n)}
    BY <1>4 DEF IndexedTable, Representation, Emit, BlockEnds, BlockGoesOn
  <2> QED
    BY <1>1, <2>2, <2>3, TableAlone
<1>5. ASSUME NEW n \in Asked, IndexedStatic(n)
      PROVE  CallMatches' /\ ReferencesKnown'
  <2>1. n \in Nat /\ Get(n).from = "static" /\ StartAdd(StaticField[Get(n).entry], "static")
    BY <1>5, ParserAssumption DEF IndexedStatic
  <2>2. Get(n).entry \in 1 .. Static
    <3>1. num_headers \in Nat /\ Static \in Nat
      BY <1>1, Positions, SizesAssumption
    <3>2. /\ Get(n) = [from |-> "static", entry |-> n - num_headers]
          /\ n > num_headers /\ n <= Static + num_headers
      BY <2>1, <3>1 DEF Get
    <3> QED
      BY <2>1, <3>1, <3>2
  <2>3. StaticField[Get(n).entry] \in Fields
    BY <2>2, ParserAssumption
  <2> QED
    BY <2>1, <2>2, <2>3, ReferStartAdd
<1>6. ASSUME NEW f \in Fields, LiteralIndexed(f)
      PROVE  CallMatches' /\ ReferencesKnown'
  BY <1>6, ReferStartAdd DEF LiteralIndexed
<1> QED
  BY <1>2, <1>3, <1>4, <1>5, <1>6, ReferResize DEF Input

LEMMA ReferTableStep ==
  ASSUME ParserRegime, ReferInv, TableStep
  PROVE  CallMatches' /\ ReferencesKnown'
<1>1. at \in {"static", "inc", "resize"} /\ at' = at /\ reference_set' = reference_set /\ Step
  BY DEF TableStep, refs
<1>2. reference_set \ evicted \subseteq Live /\ max_data \in Maxima
  BY <1>1 DEF ReferInv, ReferencesKnown, CallMatches
<1>3. /\ Live \subseteq Live' \cup evicted' /\ evicted \subseteq evicted'
      /\ \/ /\ pc # "idle" /\ UNCHANGED <<pc, field, limit, ret, max_data>>
         \/ /\ pc = "add" /\ pc' = "idle" /\ ret' = "ok"
            /\ num_headers' > 0 /\ max_data' = max_data
         \/ /\ pc = "set_max" /\ pc' = "idle" /\ ret' = "ok" /\ max_data' = limit
  BY <1>1, StepIs DEF ParserRegime, ReferInv
<1>4. reference_set' \ evicted' \subseteq Live'
  BY <1>1, <1>2, <1>3
<1>5. CallMatches'
  BY <1>1, <1>2, <1>3 DEF CallMatches, ReferInv, Maxima
<1> QED
  BY <1>1, <1>4, <1>5 DEF ReferencesKnown, ReferencesLive

\* Once an add has been taken up, the newest field is live.
LEMMA NewestLive ==
  ASSUME RegimeInv, num_headers > 0
  PROVE  IndexSwitch(1) \in Live
<1>1. num_headers \in Nat
  BY Positions DEF RegimeInv, RingInv
<1>2. 1 \in 1 .. num_headers
  BY <1>1
<1> QED
  BY <1>2, IndexIsLive

LEMMA ReferStep ==
  ASSUME ParserRegime, ReferInv, ParserStep
  PROVE  CallMatches' /\ ReferencesKnown'
<1>1. RegimeInv /\ reference_set \subseteq Slots
  BY DEF ReferInv, ParserInv, ControlType
<1>2. CASE TableStep
  BY <1>2, ReferTableStep
<1>3. CASE StaticAdded \/ LiteralAdded \/ AddFailed \/ Resized
  <2>1. /\ UNCHANGED vars /\ at \in {"static", "inc", "resize"} /\ pc = "idle"
        /\ at' \in {"idle", "block"}
    BY <1>3 DEF StaticAdded, LiteralAdded, AddFailed, Resized, Emit, BlockGoesOn, BlockEnds
  <2>2. reference_set \ evicted \subseteq Live
    BY <2>1 DEF ReferInv, ReferencesKnown
  <2>3. reference_set' \subseteq Live
    <3>1. CASE StaticAdded
      BY <2>2, <1>1, <3>1, NewestLive DEF StaticAdded, ReferToNewest, ReferInv, CallMatches
    <3>2. CASE LiteralAdded /\ evicted = Slots
      BY <1>1, <3>2 DEF LiteralAdded, DropEvicted
    <3>3. CASE LiteralAdded /\ evicted # Slots
      BY <1>1, <2>2, <3>3, NewestLive DEF LiteralAdded, ReferToNewest, ReferInv, CallMatches
    <3>4. CASE AddFailed
      BY <3>4 DEF AddFailed, ReferInv, CallMatches
    <3>5. CASE Resized
      <4>1. CASE ret = "ok" /\ DropEvicted
        BY <2>2, <4>1 DEF DropEvicted
      <4>2. CASE ret = "error" /\ UNCHANGED refs
        BY <2>2, <3>5, <4>2 DEF Resized, refs, ReferInv, CallMatches
      <4> QED
        BY <3>5, <4>1, <4>2 DEF Resized
    <3> QED
      BY <1>3, <3>1, <3>2, <3>3, <3>4, <3>5
  <2> QED
    BY <2>1, <2>3, TableAlone
<1> QED
  BY <1>2, <1>3 DEF ParserStep

LEMMA ReferOther ==
  ASSUME ReferInv, BlockBegin \/ Final \/ UNCHANGED pvars
  PROVE  CallMatches' /\ ReferencesKnown'
<1>1. CASE BlockBegin \/ Final
  <2>1. /\ UNCHANGED vars /\ at \in {"idle", "block", "final"}
        /\ at' \in {"idle", "block", "final"} /\ reference_set' = reference_set
    BY <1>1 DEF BlockBegin, Final, FinishedBefore, FinalEnd, FinalEmit, AtEnd, BlockEnds, refs
  <2>2. pc = "idle" /\ reference_set \subseteq Live
    BY <2>1 DEF ReferInv, CallMatches, ReferencesKnown, ReferencesLive
  <2> QED
    BY <2>1, <2>2, TableAlone
<1>2. CASE UNCHANGED pvars
  <2>1. /\ UNCHANGED <<offs_head, num_headers, max_data, pc, limit, ret, evicted, field>>
        /\ UNCHANGED <<at, reference_set>>
    BY <1>2 DEF pvars, vars, ring, sums, call, refs
  <2>2. Live' = Live
    BY <2>1 DEF Live, OffsDist
  <2> QED
    BY <2>1, <2>2 DEF ReferInv, CallMatches, ReferencesKnown, ReferencesLive
<1> QED
  BY <1>1, <1>2

LEMMA ReferNext ==
  ASSUME ParserRegime
  PROVE  ReferInv /\ [ParserNext]_pvars => ReferInv'
<1> SUFFICES ASSUME ReferInv, [ParserNext]_pvars PROVE ReferInv'
  OBVIOUS
<1>1. ParserInv'
  BY ParserInvStep DEF ReferInv
<1>2. RegimeInv'
  BY ParserStepsTable, RegimeNext DEF ParserRegime, ReferInv, ParserInv, RingInv
<1>3. CallMatches' /\ ReferencesKnown'
  BY ReferInput, ReferStep, ReferOther DEF ParserNext
<1> QED
  BY <1>1, <1>2, <1>3 DEF ReferInv

-----------------------------------------------------------------------------
(* References are emitted. *)

\* What a step may do to the sets of a block that goes on: what waited or had
\* been emitted and is still referred to waits or has been emitted.
LEMMA StillKnown ==
  ASSUME NoneForgotten, at # "idle", at' # "idle", clean' = clean,
         UNCHANGED <<iter_entry, iter_bit>>,
         ref_not_emitted' \subseteq ref_not_emitted,
         reference_set \subseteq emitted \cup ref_not_emitted
            => reference_set' \subseteq emitted' \cup ref_not_emitted'
  PROVE  NoneForgotten' /\ BlockEmitsReferences'
<1>1. clean => AheadOfIterator'
  BY DEF NoneForgotten, AheadOfIterator
<1> QED
  BY <1>1 DEF NoneForgotten, BlockEmitsReferences

\* A block that is given up promises nothing.
LEMMA GivenUp ==
  ASSUME BlockEnds("error")
  PROVE  NoneForgotten' /\ BlockEmitsReferences'
  BY DEF BlockEnds, NoneForgotten, BlockEmitsReferences

\* Between those two: a representation that emits, or fails to.
LEMMA EmitsOrGivesUp ==
  ASSUME NoneForgotten, at # "idle", Emit, UNCHANGED iter,
         ref_not_emitted' \subseteq ref_not_emitted,
         reference_set \subseteq emitted \cup ref_not_emitted
            => reference_set' \subseteq emitted' \cup ref_not_emitted'
  PROVE  NoneForgotten' /\ BlockEmitsReferences'
<1>1. CASE BlockGoesOn
  BY <1>1, StillKnown DEF BlockGoesOn, history, iter
<1> QED
  BY <1>1, GivenUp DEF Emit

LEMMA EmitInput ==
  ASSUME ParserRegime, ReferInv, EmitInv, Input
  PROVE  EmitInv'
<1> USE DEF EmitInv
<1>1. RegimeInv
  BY DEF ReferInv
<1>2. CASE Malformed
  BY <1>2, GivenUp DEF Malformed
<1>3. CASE LiteralOnly
  BY <1>3, EmitsOrGivesUp DEF LiteralOnly, Representation, refs
<1>4. CASE Emptying
  BY <1>4, EmitsOrGivesUp DEF Emptying, Representation, Emit
<1>5. ASSUME NEW n \in Asked, IndexedKnown(n)
      PROVE  EmitInv'
  BY <1>5, EmitsOrGivesUp DEF IndexedKnown, Representation, Emit
<1>6. ASSUME NEW n \in Asked, IndexedTable(n)
      PROVE  EmitInv'
  <2>1. n \in Nat /\ n # 0
    BY ParserAssumption DEF ParserRegime
  <2>2. Emitting(n) = {IndexSwitch(n)}
    BY <1>1, <1>6, <2>1, TableIndex, EmittingLive DEF IndexedTable, ParserRegime
  <2> QED
    BY <1>6, <2>2, EmitsOrGivesUp DEF IndexedTable, Representation
<1>7. ASSUME NEW f, NEW mode \in {"static", "inc"}, StartAdd(f, mode)
      PROVE  EmitInv'
  BY <1>7, StillKnown DEF StartAdd, Representation, refs, history, iter
<1>8. ASSUME NEW m \in MaxSizes, Resize(m)
      PROVE  EmitInv'
  BY <1>8, StillKnown DEF Resize, Representation, refs, history, iter
<1> QED
  BY <1>2, <1>3, <1>4, <1>5, <1>6, <1>7, <1>8 DEF Input, IndexedStatic, LiteralIndexed

LEMMA EmitStep ==
  ASSUME ParserRegime, ReferInv, EmitInv, ParserStep
  PROVE  EmitInv'
<1> USE DEF EmitInv
<1>1. RegimeInv
  BY DEF ReferInv
<1>2. CASE TableStep
  BY <1>2, StillKnown DEF TableStep, refs, history, iter
<1>3. CASE StaticAdded
  <2>1. IndexSwitch(1) \in Live
    BY <1>1, <1>3, NewestLive DEF StaticAdded, ReferInv, CallMatches
  <2> QED
    BY <1>3, <2>1, EmitsOrGivesUp DEF StaticAdded, ReferToNewest
<1>4. CASE LiteralAdded /\ evicted = Slots
  BY <1>4, EmitsOrGivesUp DEF LiteralAdded, DropEvicted
<1>5. CASE LiteralAdded /\ evicted # Slots
  <2>1. IndexSwitch(1) \in Live
    BY <1>1, <1>5, NewestLive DEF LiteralAdded, ReferInv, CallMatches
  <2> QED
    BY <1>5, <2>1, EmitsOrGivesUp DEF LiteralAdded, ReferToNewest
<1>6. CASE AddFailed
  BY <1>6, GivenUp DEF AddFailed
<1>7. CASE Resized
  <2>1. CASE DropEvicted /\ BlockGoesOn
    BY <1>7, <2>1, EmitsOrGivesUp DEF Resized, DropEvicted, Emit
  <2> QED
    BY <1>7, <2>1, GivenUp DEF Resized
<1> QED
  BY <1>2, <1>3, <1>4, <1>5, <1>6, <1>7 DEF ParserStep

\* The iterator finds what waits, the least first, or nothing waits.
LEMMA PendingIs ==
  ASSUME ReferInv, WordBits <= IntBits, AheadOfIterator
  PROVE  /\ Pending.index = -1 => ref_not_emitted = {}
         /\ Pending.index # -1 =>
              /\ Pending.index \in ref_not_emitted
              /\ \A s \in ref_not_emitted : Pending.index <= s
              /\ Pending.entry * WordBits + Pending.bit = Pending.index + 1
<1> DEFINE above == {s \in ref_not_emitted : s >= iter_entry * WordBits + iter_bit}
<1>1. ref_not_emitted \subseteq Slots /\ iter_entry \in 0 .. Words /\ iter_bit \in WordBit
  BY DEF ReferInv, ParserInv, ControlType
<1>2. Slots = Indexes
  BY ParserAssumption DEF Slots, Indexes
<1>3. above = ref_not_emitted
  BY DEF AheadOfIterator
<1>4. \A s \in ref_not_emitted : s # -1
  BY <1>1 DEF Slots
<1>5. /\ above = {} => Pending = [index |-> -1, entry |-> Words, bit |-> 0]
      /\ above # {} =>
           /\ Pending.index \in above
           /\ \A n \in above : Pending.index <= n
           /\ Pending.entry * WordBits + Pending.bit = Pending.index + 1
  BY <1>1, <1>2, IterLeast DEF Pending
<1> HIDE DEF above, Pending
<1> QED
  BY <1>3, <1>4, <1>5

LEMMA EmitFinal ==
  ASSUME ParserRegime, WordBits <= IntBits, EmptyBlocks = FALSE, ReferInv, EmitInv,
         BlockBegin \/ Final \/ UNCHANGED pvars
  PROVE  EmitInv'
<1> USE DEF EmitInv
<1>1. RegimeInv /\ PendingAreReferences
  BY DEF ReferInv, ParserInv
<1>2. CASE BlockBegin
  BY <1>2 DEF BlockBegin, NoneForgotten, BlockEmitsReferences, AheadOfIterator, refs, iter
<1>3. CASE FinalEnd
  <2>1. /\ at # "idle" /\ at' = "idle" /\ Pending.index = -1 /\ iter_entry' = 0 /\ iter_bit' = 0
        /\ ref_not_emitted' = reference_set /\ clean' = clean
        /\ UNCHANGED <<reference_set, emitted>>
    BY <1>3 DEF FinalEnd, AtEnd, BlockEnds
  <2>2. clean => reference_set \subseteq emitted
    BY <2>1, PendingIs DEF NoneForgotten
  <2>3. 0 * WordBits + 0 = 0 /\ reference_set \subseteq Slots
    BY WordNumbers DEF ReferInv, ParserInv, ControlType
  <2>4. AheadOfIterator'
    BY <2>1, <2>3 DEF AheadOfIterator, Slots
  <2> QED
    BY <2>1, <2>2, <2>4 DEF NoneForgotten, BlockEmitsReferences
<1>4. CASE FinalEmit
  <2>1. CASE BlockEnds("error")
    BY <2>1, GivenUp
  <2>2. CASE at' = "final" /\ clean
    <3> DEFINE s == Pending.index
    <3>1. /\ at # "idle" /\ s # -1 /\ iter_entry' = Pending.entry /\ iter_bit' = Pending.bit
          /\ ref_not_emitted' = ref_not_emitted \ {s} /\ reference_set' = reference_set
          /\ emitted' = emitted \cup Emitting(IndexSwitch(s)) /\ at \in {"block", "final"}
      BY <1>4 DEF FinalEmit, AtEnd
    <3>2. AheadOfIterator /\ reference_set \subseteq emitted \cup ref_not_emitted
      BY <2>2, <3>1 DEF NoneForgotten
    <3>3. /\ s \in ref_not_emitted /\ \A t \in ref_not_emitted : s <= t
          /\ Pending.entry * WordBits + Pending.bit = s + 1
      BY <3>1, <3>2, PendingIs
    <3>4. s \in Live /\ s \in Slots /\ ref_not_emitted \subseteq Slots
      BY <1>1, <3>1, <3>3 DEF PendingAreReferences, ReferInv, ReferencesKnown, ReferencesLive,
           ParserInv, ControlType
    <3>5. Emitting(IndexSwitch(s)) = {s}
      <4>1. IndexSwitch(s) \in 1 .. num_headers
        BY <1>1, <3>4, LiveIsIndex
      <4>2. IndexSwitch(IndexSwitch(s)) = s
        BY <3>4, SwitchTwice DEF ReferInv, ParserInv, RingInv
      <4> QED
        BY <1>1, <4>1, <4>2, EmittingLive DEF ParserRegime
    <3> HIDE DEF s
    <3>6. AheadOfIterator'
      <4>1. \A t \in ref_not_emitted \ {s} : t >= s + 1
        BY <3>3, <3>4 DEF Slots
      <4>2. iter_entry' * WordBits + iter_bit' = s + 1
        BY <3>1, <3>3
      <4> QED
        BY <3>1, <4>1, <4>2 DEF AheadOfIterator
    <3>7. reference_set' \subseteq emitted' \cup ref_not_emitted'
      BY <3>1, <3>2, <3>5
    <3> QED
      BY <2>2, <3>6, <3>7 DEF NoneForgotten, BlockEmitsReferences
  <2>3. CASE at' = "final" /\ ~ clean /\ UNCHANGED history
    BY <2>3 DEF NoneForgotten, BlockEmitsReferences, history
  <2> QED
    BY <1>4, <2>1, <2>2, <2>3 DEF FinalEmit
<1>5. ~ FinishedBefore
  BY DEF FinishedBefore
<1>6. CASE UNCHANGED pvars
  BY <1>6 DEF pvars, refs, iter, history, NoneForgotten, BlockEmitsReferences, AheadOfIterator
<1> QED
  BY <1>2, <1>3, <1>4, <1>5, <1>6 DEF Final

-----------------------------------------------------------------------------
(* Theorems. *)

LEMMA ReferencesHold ==
  ASSUME ParserRegime
  PROVE  ParserSpec => []ReferInv
<1>1. ParserInit => ReferInv
  BY ParserInvInit, RegimeInit, ReferInit DEF ReferInv, ParserRegime, ParserInit
<1> QED
  BY <1>1, ReferNext, PTL DEF ParserSpec

\* No reference outlives the eviction of its field, whatever is added,
\* evicted or set between the representations of any blocks
\* (header_parser.c:183-186).
THEOREM ReferencesAreLive ==
  ASSUME ParserRegime
  PROVE  ParserSpec => []ReferencesLive
<1>1. ReferInv => ReferencesLive
  BY DEF ReferInv, ReferencesKnown
<1> QED
  BY <1>1, ReferencesHold, PTL

\* A block that is read to its end after one that was has emitted every field
\* it refers to: the iterator misses none, although the set shrinks under it,
\* and each is found at the index it is emitted by
\* (final_reference_set_process).
THEOREM EveryReferenceEmitted ==
  ASSUME ParserRegime, WordBits <= IntBits, EmptyBlocks = FALSE
  PROVE  ParserSpec => []BlockEmitsReferences
<1>1. ParserInit => EmitInv
  BY DEF ParserInit, EmitInv, NoneForgotten, BlockEmitsReferences, AheadOfIterator
<1>2. ReferInv /\ EmitInv /\ [ParserNext]_pvars => EmitInv'
  BY EmitInput, EmitStep, EmitFinal DEF ParserNext
<1>3. EmitInv => BlockEmitsReferences
  BY DEF EmitInv
<1> QED
  BY <1>1, <1>2, <1>3, ReferencesHold, PTL DEF ParserSpec
=============================================================================
