---------------------------- MODULE HeaderParser ----------------------------
(***************************************************************************)
(* The decoder of libhpack/header_parser.c: hpack_header_parser_all reads  *)
(* a header block representation by representation, keeps the reference    *)
(* set in step with the header table, and at the end of the block emits    *)
(* the references that no representation of the block has emitted.         *)
(*                                                                         *)
(* The octets of a block are abstracted to the representations they        *)
(* decode to, one of which is a malformed one.  A representation that      *)
(* changes the table is a step that starts the table's operation, the      *)
(* steps of that operation, and a step that takes up its result.           *)
(***************************************************************************)
EXTENDS HeaderTable, BitmapSet

CONSTANTS
  StaticField,  \* static_table: StaticField[n] for n in 1 .. Static
  Asked,        \* the HPACK indexes that indexed representations ask for
  EmptyBlocks   \* whether a block may hold no representation at all

ASSUME ParserAssumption ==
  /\ Words * WordBits = Entries
  /\ StaticField \in [1 .. Static -> Fields]
  /\ Asked \subseteq Nat
  /\ EmptyBlocks \in BOOLEAN

VARIABLES
  at,               \* where hpack_header_parser_all is: not called, before a
                    \* representation, within one, or emitting references
  reference_set,
  ref_not_emitted,
  iter_entry,       \* iter_not_emitted
  iter_bit,
  finished,
  outcome,          \* what the last call returned
  clean,            \* history: the call before this block ended well
  emitted           \* history: the live slots whose field this block emitted

refs    == <<reference_set, ref_not_emitted>>
iter    == <<iter_entry, iter_bit>>
history == <<outcome, clean>>
pvars   == <<vars, at, refs, iter, finished, history, emitted>>

ParserInit ==
  /\ Init
  /\ at = "idle"
  /\ reference_set = {} /\ ref_not_emitted = {}
  /\ iter_entry = 0 /\ iter_bit = 0
  /\ finished = FALSE
  /\ outcome = "ok" /\ clean = TRUE
  /\ emitted = {}

\* hpack_header_parser_all is called with the next block.
BlockBegin ==
  /\ at = "idle"
  /\ at' = "block"
  /\ clean' = (outcome = "ok")
  /\ emitted' = {}
  /\ UNCHANGED <<vars, refs, iter, finished, outcome>>

\* hpack_header_parser_all returns r.
BlockEnds(r) == at' = "idle" /\ outcome' = r /\ UNCHANGED clean

BlockGoesOn == at' = "block" /\ UNCHANGED history

\* A field has been decoded.  The store takes it, or has no memory for it and
\* hpack_header_parser_all returns there and then.
Emit == BlockGoesOn \/ BlockEnds("error")

\* The slot whose field is emitted when HPACK index n is looked up: none, if
\* what is found is not the field of a live slot.
Emitting(n) ==
  LET got == Get(n)
  IN  {s \in Live : /\ s = IndexSwitch(n)
                    /\ got = [from |-> "table", entry |-> FieldAt(s)]}

\* Before a representation: there is more data.
Representation ==
  /\ at = "block"
  /\ finished' = FALSE
  /\ UNCHANGED iter

-----------------------------------------------------------------------------
(* parse_indexed *)

\* The octets are malformed or truncated, in any kind of representation, or
\* they hold an index or a size out of range: nothing has been changed yet.
Malformed ==
  /\ Representation
  /\ BlockEnds("error")
  /\ UNCHANGED <<vars, refs, emitted>>

\* An index already in the reference set is removed from it.
IndexedKnown(n) ==
  /\ Representation
  /\ n <= Static + num_headers
  /\ IndexSwitch(n) \in reference_set
  /\ reference_set' = reference_set \ {IndexSwitch(n)}
  /\ ref_not_emitted' = ref_not_emitted \ {IndexSwitch(n)}
  /\ BlockGoesOn
  /\ UNCHANGED <<vars, emitted>>

\* A field of the table is emitted and becomes a reference.
IndexedTable(n) ==
  /\ Representation
  /\ Get(n).from = "table"
  /\ IndexSwitch(n) \notin reference_set
  /\ reference_set' = reference_set \cup {IndexSwitch(n)}
  /\ ref_not_emitted' = ref_not_emitted \ {IndexSwitch(n)}
  /\ emitted' = emitted \cup Emitting(n)
  /\ Emit
  /\ UNCHANGED vars

\* hpack_header_table_add is called with field f; mode says what follows it.
StartAdd(f, mode) ==
  /\ Representation
  /\ AddTooLarge(f) \/ AddBegin(f)
  /\ at' = mode
  /\ UNCHANGED <<refs, history, emitted>>

\* A field of the static table is added to the table first.
IndexedStatic(n) ==
  /\ Get(n).from = "static"
  /\ IndexSwitch(n) \notin reference_set
  /\ StartAdd(StaticField[Get(n).entry], "static")

-----------------------------------------------------------------------------
(* parse_header_pair, and what hpack_header_parser_field does after it *)

\* Without incremental indexing: the field is only emitted.  The name is spelt
\* out, or found at an index, which does not matter to the state.
LiteralOnly ==
  /\ Representation
  /\ Emit
  /\ UNCHANGED <<vars, refs, emitted>>

LiteralIndexed(f) == StartAdd(f, "inc")

-----------------------------------------------------------------------------
(* add_field_process_evictions, once the table has taken the field *)

AddFailed ==
  /\ at \in {"static", "inc"} /\ pc = "idle" /\ ret = "error"
  /\ BlockEnds("error")
  /\ UNCHANGED <<vars, refs, iter, finished>>
  /\ emitted' = emitted \ evicted

\* Slip: only what is still to be emitted is dropped.
DropEvictedPending ==
  /\ ref_not_emitted' = ref_not_emitted \ evicted
  /\ emitted' = emitted \ evicted
  /\ UNCHANGED reference_set

\* The references to the evicted fields are dropped.
DropEvicted ==
  /\ reference_set' = reference_set \ evicted
  /\ ref_not_emitted' = ref_not_emitted \ evicted
  /\ emitted' = emitted \ evicted

\* The evicted fields are dropped, and the new field, HPACK index 1, becomes a
\* reference that is not to be emitted again.
ReferToNewest ==
  /\ reference_set' = (reference_set \ evicted) \cup {IndexSwitch(1)}
  /\ ref_not_emitted' = (ref_not_emitted \ evicted) \ {IndexSwitch(1)}
  /\ emitted' = (emitted \ evicted) \cup ({IndexSwitch(1)} \cap Live)

\* "We don't need to check if it could be added".
StaticAdded ==
  /\ at = "static" /\ pc = "idle" /\ ret = "ok"
  /\ ReferToNewest
  /\ Emit
  /\ UNCHANGED <<vars, iter, finished>>

\* A full evicted_set says that the field was not added.
LiteralAdded ==
  /\ at = "inc" /\ pc = "idle" /\ ret = "ok"
  /\ IF evicted = Slots THEN DropEvicted ELSE ReferToNewest
  /\ Emit
  /\ UNCHANGED <<vars, iter, finished>>

-----------------------------------------------------------------------------
(* parse_context_update *)

\* Slip: what is still to be emitted is not emptied.
EmptyingReferences ==
  /\ Representation
  /\ reference_set' = {}
  /\ BlockGoesOn
  /\ UNCHANGED <<vars, ref_not_emitted, emitted>>

\* Reference set emptying.
Emptying ==
  /\ Representation
  /\ reference_set' = {} /\ ref_not_emitted' = {}
  /\ BlockGoesOn
  /\ UNCHANGED <<vars, emitted>>

Resize(m) ==
  /\ Representation
  /\ \/ SetMaxRefused(m)
     \/ m = 0 /\ SetMaxZero
     \/ SetMaxBegin(m)
  /\ at' = "resize"
  /\ UNCHANGED <<refs, history, emitted>>

Resized ==
  /\ at = "resize" /\ pc = "idle"
  /\ \/ ret = "ok" /\ DropEvicted /\ BlockGoesOn
     \/ ret = "error" /\ BlockEnds("error")
        /\ emitted' = emitted \ evicted /\ UNCHANGED refs
  /\ UNCHANGED <<vars, iter, finished>>

\* A step of the table's operation.
TableStep ==
  /\ at \in {"static", "inc", "resize"}
  /\ Step
  /\ UNCHANGED <<at, refs, iter, finished, history, emitted>>

-----------------------------------------------------------------------------
(* final_reference_set_process, called while there is no more data *)

AtEnd == at \in {"block", "final"}

\* The block before this one was finished, and this one is empty.
FinishedBefore ==
  /\ AtEnd /\ EmptyBlocks
  /\ finished
  /\ BlockEnds("ok")
  /\ UNCHANGED <<vars, refs, iter, finished, emitted>>

Pending == IterNext(ref_not_emitted, iter_entry, iter_bit)

FinalEndKeeps ==  \* Slip: the references are not set up for the next block.
  /\ AtEnd
  /\ ~ finished
  /\ Pending.index = -1
  /\ finished' = TRUE
  /\ iter_entry' = 0 /\ iter_bit' = 0
  /\ BlockEnds("ok")
  /\ UNCHANGED <<vars, refs, emitted>>

FinalEnd ==
  /\ AtEnd
  /\ ~ finished
  /\ Pending.index = -1
  /\ finished' = TRUE
  /\ ref_not_emitted' = reference_set
  /\ iter_entry' = 0 /\ iter_bit' = 0
  /\ BlockEnds("ok")
  /\ UNCHANGED <<vars, reference_set, emitted>>

FinalEmitKeeps ==  \* Slip: a reference that is emitted is left in the set.
  /\ AtEnd
  /\ ~ finished
  /\ Pending.index # -1
  /\ iter_entry' = Pending.entry /\ iter_bit' = Pending.bit
  /\ emitted' = emitted \cup Emitting(IndexSwitch(Pending.index))
  /\ \/ at' = "final" /\ UNCHANGED history
     \/ BlockEnds("error")
  /\ UNCHANGED <<vars, refs, finished>>

\* The next reference is emitted, by its HPACK index.
FinalEmit ==
  /\ AtEnd
  /\ ~ finished
  /\ Pending.index # -1
  /\ iter_entry' = Pending.entry /\ iter_bit' = Pending.bit
  /\ ref_not_emitted' = ref_not_emitted \ {Pending.index}
  /\ emitted' = emitted \cup Emitting(IndexSwitch(Pending.index))
  /\ \/ at' = "final" /\ UNCHANGED history
     \/ BlockEnds("error")
  /\ UNCHANGED <<vars, reference_set, finished>>

-----------------------------------------------------------------------------
ParserStep == TableStep \/ StaticAdded \/ LiteralAdded \/ AddFailed \/ Resized

Input ==
  \/ Malformed \/ LiteralOnly \/ Emptying
  \/ \E n \in Asked : IndexedKnown(n) \/ IndexedTable(n) \/ IndexedStatic(n)
  \/ \E f \in Fields : LiteralIndexed(f)
  \/ \E m \in MaxSizes : Resize(m)

Final == FinishedBefore \/ FinalEnd \/ FinalEmit

ParserNext == BlockBegin \/ Input \/ ParserStep \/ Final

ParserSpec == ParserInit /\ [][ParserNext]_pvars

\* hpack_header_parser_all loops until it returns; the data of a block is
\* finite, but how much of it there is is up to its sender.
ParserFairSpec ==
  ParserSpec /\ WF_pvars(ParserStep) /\ WF_pvars(at = "final" /\ Final)

-----------------------------------------------------------------------------
(* Correctness. *)

ParserTypeOK ==
  /\ TypeOK
  /\ at \in {"idle", "block", "static", "inc", "resize", "final"}
  /\ reference_set \subseteq Slots /\ ref_not_emitted \subseteq Slots
  /\ iter_entry \in 0 .. Words /\ iter_bit \in WordBit
  /\ finished \in BOOLEAN
  /\ outcome \in {"ok", "error"} /\ clean \in BOOLEAN
  /\ emitted \subseteq Slots

\* Between two representations every reference is to a field that is in the
\* table: none outlives the eviction of its field (header_parser.c:183-186).
ReferencesLive == at \in {"idle", "block", "final"} => reference_set \subseteq Live

\* Only references wait to be emitted.
PendingAreReferences == ref_not_emitted \subseteq reference_set

\* What the end of a block will emit, no representation of the block has
\* emitted already (header_parser.c:617-619 "not previously been emitted").
EmittedOnce == at # "idle" => ref_not_emitted \cap emitted = {}

\* A block that is read to its end has emitted every field it refers to, by a
\* representation or at the end, even if the sets changed under the iterator
\* (final_reference_set_process).
BlockEmitsReferences ==
  at = "idle" /\ outcome = "ok" /\ clean => reference_set \subseteq emitted

\* A call in the midst of a representation, or emitting, does return.
ParserGoesOn ==
  at \notin {"idle", "block"} ~> at \in {"idle", "block"}
=============================================================================
