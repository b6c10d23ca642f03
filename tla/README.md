# A TLA+ model of libhpack

libhpack is a C implementation of HPACK, the header compression of HTTP/2, at the draft that still had a reference
set (draft-ietf-httpbis-header-compression-07). `libhpack/` is the codec; `libchula/` is the utility library below it.
This directory models the codec and the part of libchula it is built on, checks the models with TLC and proves part of
what they show with TLAPS.

## Inventory

The library has no threads and no callbacks but the `emit` of a header store. What makes it hard is state that must
stay in step: two circular buffers and three counters in the header table, and in the parser two sets of slots and an
iterator that outlive the fields they refer to. Below, it is buffers whose size, length and closing Nul must agree
whatever the allocator refuses, trees and lists whose links must stay whole, and passes over a text that count in one
loop what they write in another.

| Component | State | Operations | Correct when |
|---|---|---|---|
| Header table (`header_table.c`) | ring of offsets, ring of octets, `num_headers`, `used_data`, `max_data` | `clear`, `add`, `set_max`, `get`, `get_set_idx`, the internal eviction | it is a FIFO of fields bounded by its maximum; what it evicts it reports; what it reads is what was added |
| Bitmap sets (`bitmap_set.c`) | an array of words; an iterator (word, bit) | set algebra, `iter_next`, `iter_reset` | the iterator returns each element once, in order, whatever is changed meanwhile |
| Header parser (`header_parser.c`) | header table, `reference_set`, `ref_not_emitted`, iterator, `finished`, the store | `parser_field`, `parser_all` | references are to fields in the table; each block emits each field it refers to, once |
| Integer codec (`integer.c`) | none | encode, decode with an N bit prefix | decoding inverts encoding; lengths and overflows are refused |
| Huffman codec (`huffman.c`) | decoder state carried over half-octets | encode, decode | decoding inverts encoding; incomplete symbols are refused |
| Header encoder (`header_encoder.c`) | a header store, a table | add, render | the parser reads back what was added |
| Header store (`header_store.c`) | a head, entries with a field each | add, emit, get_n, mrproper | order of insertion; an add stores the field or says that it did not |
| Field (`header_field.c`) | two buffers and flags | copy, compare, size | size as HPACK counts it |
| Buffer (`buffer.c`) | `buf`, `size`, `len` | growth, append, insert, drop, search, conversions | `len < size` with a Nul behind the text; calls without memory change no text; what is counted is what is written |
| AVL tree (`avl_generic.c`, `avl.c`) | nodes with threads and balance | add, get, del, while | ordered, balanced, threads lead to neighbours; a walk survives changes |
| List (`list.c`, `list.h`) | links in heads and entries | add, del, reparent, invert, sort, content | links agree both ways; sorting keeps what is equal in order |
| Hashes (`md5.c`, `sha1.c`, `sha512.c`) | a block, a count | init, update, final | the digest does not depend on the pieces |
| Memory manager for tests (`libchula-qa/mem_mgr.c`) | a policy with counters, `frozen` | malloc, realloc, free, freeze, thaw | refuses the calls it is set to, counts the rest |
| Log, utilities | | | thin layers over libc |

How they interact: the parser calls `hpack_header_table_add`, `_get` and `_set_max`, and takes the slots in the
`evicted_set` they return out of its two sets; it turns HPACK indexes, which count from the newest field, into slots
with `INDEX_SWITCH_HT_HPACK`, which reads the table's tail; at the end of a block it walks `ref_not_emitted` with the
iterator; decoded fields go to the store, whose `emit` may fail; everything that grows is a buffer, and every
allocation goes through the function pointers the memory manager replaces. The hazards are listed in `PROJECT.json`,
each at the line where it bites.

## Modules

| Module | What it is |
|---|---|
| `HeaderTable` | `header_table.c`: the two rings, the counters, one action per step of an operation |
| `HeaderTableFifo` | what the table promises: a bounded queue, one step per operation |
| `HeaderTableRefinement` | the mapping from the first to the second |
| `MCHeaderTable` | small instances for TLC |
| `HeaderTableProofs` | theorems about `HeaderTable`, in any conditions |
| `HeaderTableRegimeProofs` | theorems about it where its reads and its accounting are right |
| `HeaderTableRefinementProofs` | the theorem that the table implements the queue |
| `BitmapSet` | the iterator of `bitmap_set.c` as operators |
| `BitmapSetClient` | a set, an iterator, and a caller using both in any order |
| `IndexSet` | what the set and its iterator promise |
| `HeaderParser` | `header_parser.c`, composed with `HeaderTable` and `BitmapSet` |
| `MCHeaderParser` | small instances for TLC |
| `BitmapSetProofs`, `BitmapSetClientProofs` | lemmas about the iterator, and the theorem that it implements `IndexSet` |
| `HeaderParserProofs` | theorems about `HeaderParser`: in any conditions, and about its references where the table is right |
| `IntegerCodec` | `integer.c` as operators, and HPACK's definition to compare with |
| `HuffmanCodec` | `huffman.c` and the table that `huffman-gen.py` generates, as operators |
| `HeaderWire` | `header_encoder.c` against `parse_string` and `parse_header_pair`, octet by octet |
| `MCHeaderWire` | small instances for TLC |
| `Avl` | `avl_generic.c` and `avl.c`: nodes, threads, rebalancing, the walk |
| `Dictionary` | what the tree promises |
| `MCAvl` | an instance for TLC |
| `ChulaBuffer` | the memory operations of `buffer.c` as operators on a buffer |
| `BufferClient`, `MCBuffer` | two buffers and any calls on them, with failing allocations; an instance |
| `ChulaBufferProofs` | theorems about the calls: where they write, what text they leave, what they do without memory |
| `ChulaText`, `ChulaEdit` | the conversions of `buffer.c` (escapes, base64, hexadecimal, numbers, UTF-8) and its edits (replace, split, trim, ...) |
| `ChulaHash` | how the hashes cut, count and pad a message |
| `TextClient`, `MCText` | a text grown octet by octet with every conversion tried on it; an instance |
| `ChulaList` | `list.h` and `list.c` as operators on the links of one memory |
| `MemPolicy` | the policies of `mem_mgr.c` |
| `HeaderStore` | `header_store.c` and a list of contents under those policies |
| `Lists` | what the two promise: sequences |
| `MCHeaderStore` | an instance for TLC |
| `HeaderStoreProofs` | theorems about the lists, what they carry and the policies, of any size |

### HeaderTable

The variables are the members of `hpack_header_table_t` (`offsets`, `offs_head`, `offs_tail`, `data`, `data_head`,
`data_tail`, `num_headers`, `used_data`, `max_data`), the operation under way (`pc`, `field`, `limit`), its results
(`evicted`, `ret`) and two history variables: `tracked`, the slots that a caller who follows the evicted sets holds to
be in use, and `stored`, the octets stored since the last clear.

A byte of `headers_data` is abstracted to `<<f, k>>`, byte k of the record of field f, so that a read either finds the
record of one field or does not. `ReadCell` is the address arithmetic of `header_data_get` as it is written, unsigned
wrap of `to_end` included; where it runs past the buffer it finds `Junk`. Lengths misread from the wrong bytes are
taken from `GarbageLens`.

`hpack_header_table_add` is `AddTooLarge`, or `AddBegin`, one `AddEvict` per turn of its loop, and `AddNoOffset` or
`AddStore`; `hpack_header_table_set_max` is `SetMaxRefused`, `SetMaxZero`, or `SetMaxBegin`, `SetMaxEvict` and
`SetMaxEnd`. `header_table_evict` is `Evict`; when the table is empty it returns `ret_ok` without assigning
`*ret_evicted`, and the slot the caller then adds to its set is any slot the first time round, and the one of the turn
before after that. `AddStore` is the call of `header_offs_add` and the three of `header_data_add`, each of which may
refuse; the rollback behind them can't be reached and is not modelled.

Two properties of the code are conditional, and the runs show both sides. (1) Reads are right until the octets stored
since the last clear reach half the buffer: then `offset + head` stays below its size. `Horizon` bounds `stored`; the
pass run has `2 * Horizon = DataSize`. (2) The accounting is right for fields that are not empty and whose buffers
have been allocated.

### BitmapSet

A set is the set of its indexes; `WordOf` gives the bits of a word. `RestMask` is the mask of the iterator, computed in
an `int` of `IntBits` bits: for a wider word the top bit is sign extended, and larger shifts, undefined in C, are taken
modulo `IntBits`, which is what x86 and ARM do.

### HeaderParser

`at` says where `hpack_header_parser_all` is. A representation is one of: indexed (`IndexedKnown`, `IndexedTable`,
`IndexedStatic`), literal (`LiteralOnly`, `LiteralIndexed`), context update (`Emptying`, `Resize`), or malformed.
`TableStep` runs the table's operation, and `StaticAdded`, `LiteralAdded`, `AddFailed` and `Resized` take up its
result. `FinalEmit`, `FinalEnd` and `FinishedBefore` are `final_reference_set_process`. `Emit` is the store: it takes
the field, or fails and ends the block. A block may be followed by another whatever its outcome.

History: `emitted` holds the live slots whose field this block has emitted, read back correctly (`Emitting` looks the
index up with `Get` and compares what is found with what was stored); `clean` says that the call before this one ended
well.

### HeaderWire, IntegerCodec and HuffmanCodec

`HeaderParser` abstracts octets to representations; `HeaderWire` has the octets of the ones the encoder writes:
literals with a new name, without indexing. `EncoderAdd` and `Render` are the encoder; `Receive` gives the parser what
has been rendered or as much of it as has come, `ReceiveOther` octets of somebody else's. `ParsePair` is one turn of
`hpack_header_parser_all`; other representations end the block (`ParseOther`). Encoder and parser are new for each
block, so the table and the reference set are empty and `ParseEnd` has nothing to emit.

`DecodeInt` takes the digits of an integer with quantifiers where the code loops; `LookedAt` is the bound of its loop,
the `unsigned char` included. `EncodeSymbol` keeps the loop of `encode_symbol`. The decode table is a function of the
code, computed as the generator does it by walking the tree (`Descend`); a node of the tree is the bits that lead to
it. `Represents` and `IsHuffmanOf` say without any loop what octets stand for, and are what the properties compare
with.

### Avl and Dictionary

A node is named after its key, so `node` is a function from the keys of allocated nodes to their contents; `root`,
threads and children are keys or `Null`. `Add` and `Del` are `chula_avl_generic_add` and `_del`, comparison into a
`short` (`NodeCmp`), linking and the whole climb of the rebalancing included. The stack of parents that
`node_remove_key` and `_add` keep is a sequence. `chula_avl_generic_while` is spread over `While`, `WhileNext` and
`WhileStop`, one step per call of its function, so that the function may add and remove between them. `AddNoMem` is an
add that finds no memory for the node or for its key. A lookup is the operator `Get`. `Dictionary` is the same as a
function and a position, with `Rank` for the order of the keys, shorter ones first as `chula_buffer_cmp_buf` has it.

### ChulaBuffer and BufferClient

A buffer is its cells, its `len` and its `size`. Every call is an operator from the buffer (and whether the allocator
has memory) to the buffer afterwards and what is returned. `Put` writes where the code writes, inside the allocation
or not: a cell that was not allocated appears in `mem` beyond `size`, and `InBounds` sees it. What `realloc` adds and
what a `memmove` leaves is `Junk`. `BufferClient` has one step per call, on two buffers that are copied and swapped.

### ChulaText, ChulaEdit, ChulaHash and TextClient

The conversions keep the passes of the code apart: what is counted, what memory that takes, what is written, what the
length is set to; a count that differs from what is written shows as `Junk` within the length or as a cell outside
the allocation. `TextClient` types any text of a kind and applies every operation for that kind to it in each state.
A hash is the octets that wait for their block, the count, in one word or two, and the blocks transformed so far; the
transform is not looked at. `TextClient` gives it a message in any pieces.

### HeaderStore, ChulaList, MemPolicy and Lists

All heads and entries are cells of one memory with a `next` and a `prev`. `HeaderStore` has a store and a list of
contents in it, one step per call; `FieldCopy` is `hpack_header_field_copy`, `EntryFree` the release of an entry.
Each call of the allocator goes through the policy, which counts it or refuses it. `Lists` is two
sequences; sorting is stated as the one stable permutation in order. A merge is modelled by how many of the first k
entries came from either run (`Taken`), a pass by where each place of the list gets its entry, and the passes, the
walk along a list and the loops over one as recursive functions of the number of steps.

## Runs

| Run | Shows | Bounds |
|---|---|---|
| `table_fifo` | the table implements the FIFO, reports its evictions, accounts for its size, reads back what was added, every call returns | 4 slots, 32 octets, two fields, four maxima, 16 octets stored between clears |
| `table_ring` | nothing in use is overwritten, in any conditions | 3 slots, 10 octets, an empty field, a field without a name buffer, maximum 0, 23 octets stored: both rings wrap more than once |
| `table_late_fetch` | a field is read back wrong once the data wraps | as `table_fifo`, twice the octets |
| `bitmap_iterator` | the iterator refines `IndexSet` | 2 words of 3 bits, all 64 sets, every change |
| `parser` | references live, each block emits what it refers to, the parser goes on | 4 slots, 24 octets, two static fields, non-empty blocks |
| `parser_any_input` | only references wait to be emitted, none is emitted twice | wide words, index 0, empty blocks, maximum 0, partial adds; 9 octets in a buffer of 8 |
| `wire` | what is rendered is read back; cut short it is never taken for complete nor for something else; other literals are read as HPACK defines them | two fields of five strings rendered once or twice, cut anywhere; blocks of up to five octets |
| `wire_long_string` | a rendered field is refused | sizes an eighth of those in the code |
| `avl` | the tree stays balanced and threaded, loses no node and does what a dictionary would, walks included | 9 keys, of two lengths, one empty, two equal without case; two values for one of them; trees of up to 8 nodes are built, of up to 5 walked |
| `buffer` | no call leaves the allocation; one without memory changes no text; one that succeeds does all it was told; texts end with a Nul | texts of up to 2 octets built up to 3, `REALLOC_EXTRA_SIZE` 1, any size of memory that comes of it |
| `text` | counted is reserved is written; what is encoded is decoded; what can be said of an edit without its loop; digests do not depend on pieces | every text of up to 5 octets (7 for digits and words) over the octets that matter to its kind; messages of up to 9 blocks of 8 octets, counted in words of 6 and 8 bits |
| `store` | links, memory and order of the store and a list under counting and failing allocators | 3 entries in all, 8 calls counted, a failure of one call or of all after any of the first four |

`wire` has digits of two bits instead of seven, lengths with two bits in the first octet, and a code of 38 symbols of
the shape of HPACK's: lengths of several octets, codes over one and over two octets and both kinds of padding occur in
short strings. `LenWrap`, 256 in the code, is more than any block is long, and `UIntMax` is such that an announced
length either exceeds it or is far from it, so that `n + len` in `parse_string` does not wrap.

The sizes keep what the code relies on: a table full of the smallest fields takes fewer slots than there are
(`Entries * (Overhead + 1) > DataSize`; 128 * 33 > 4096 in the code), and a uint16_t holds every size (`DataSize <
U16`). In `parser`, `Static + num_headers` stays within `Entries`, as it does in the code until the table holds 68
fields.

`avl` has enough keys for every rotation, for removals with two children at every depth that makes a rotation. In
`buffer` one octet more or less decides whether memory is grown, which with `Extra` = 1 happens within three octets;
the theorem below covers every other size. In `text`, `Block` is an eighth of that of the hashes, and `CountWord` and
`WideWord` are small enough for the count to carry; `IntWord` is a C int of 8 bits, so that numbers reach both ends of
their width. In `store`, entries and homes are interchangeable (`SYMMETRY`); three entries are what the merge sort
needs for an uneven split.

Deadlock is checked everywhere. Bounds in guards: `Horizon` (in `AddBegin`), `MaxAdded` (in `EncoderAdd`),
`MaxRendered` (in `Render`), `MaxWalked` (in `While`), `MaxLen` (in the calls of `BufferClient` that add, and in
`Type` and `Update`) and `MaxCalls` (in `StoreNext`).

Fairness: `FairSpec` asks that an operation under way takes its next step; nothing in the library waits. The parser's
asks the same of a representation and of the final emission, and asks nothing of the data: a block may go on for ever.

## Findings

The two violation runs are behaviours of the code that its comments rule out; `PROJECT.json` quotes them. They were
met while modelling. More is known from the code that a reader of the models should know; the models have all of it,
and the properties are stated around it where they would fail.

- Table: `clear` restores the initial maximum, although its comment says that it does not change it (`HeaderTableFifo`
  has `AddTooLarge` do the same). `set_max (0)` drops every field and reports no eviction, which is why 0 is not among
  the maxima of `table_fifo` and `parser`. A field whose buffers were never allocated counts 0 octets when it is added
  and 32 when it is evicted, so a table of such fields comes to be empty while it is thought to be in use.
- Bitmap sets: the mask of the iterator is computed in an `int`; in words wider than that elements are missed.
- Parser: a block that is empty after one that was finished emits nothing. A reference to a static field that does not
  fit in the table is left without a field. A literal whose name index has four zero low bits is taken for a new name.
- Buffer: `chula_buffer_remove_chunk` takes all of `len` off, also when less than that is there.
  `chula_buffer_add_va_fixed` cuts what does not fit and overwrites the closing Nul. `chula_buffer_add_va_list` reads its
  arguments again after they are used up when its estimation was low. A slice `[0:x]` copies nothing, since a begin of
  0 is compared as the end. `chula_buffer_multiply` adds the buffer to itself and relies on the memory not moving.
  `chula_buffer_decode_hex` halves the length of whatever it has. `chula_buffer_add_escape_html` and
  `chula_buffer_replace_string` count by length and copy as C strings, so a Nul in the text leaves the two apart.
  `chula_buffer_substitute_string` empties its destination. A malformed UTF-8 character swallows the octets
  behind it. `encode_sha1_base64` does not look at what the calls in it return.
- Store: `hpack_header_store_add` ignores what the copy of the field returns; without memory a field is stored without
  its name, its value or both, and `ret_ok` is returned.
- Tree: a node whose key could not be copied is refused and not freed (`AddNoMem` leaves it out). `node_check` does not
  look at its recursive calls. Lengths of keys are compared in a `short` (`KeysFitShort`).
- List: `chula_list_reparent` of an empty list leaves the other head as it was.

## Proofs

`HeaderTableProofs` proves, for every value of the constants, under `SizesAssumption` (both rings have at least two
places, the octets are fewer than 2^16, and so on) and `FieldsAssumption` (lengths are naturals) only:

| Theorem | Says |
|---|---|
| `TypeCorrect` | `Spec => []TypeOK`: no operation takes a position out of its buffer or a counter out of its width |
| `RingHoldsLiveAlways` | `Spec => []RingHoldsLive`: the fields counted fit between head and tail of the ring of offsets |
| `NothingOverwritten` | `Spec => []NoOverwrite`, as an action property: no step writes over a live offset or live octet |

They hold whatever lengths an eviction misreads, so outside the regime of `table_fifo` as well. The inductive invariant
is `RingInv`, the type invariant and `RingHoldsLive` together. Positions stay in their buffers because they are all
computed modulo its size (`CbMove`); that `num_headers` stays below `Entries` needs `RingHoldsLive`, `num_headers <=
Dist(head, tail)`, which an add keeps because `OffsetsFull` stops it one slot before tail meets head, and an eviction
keeps because it moves head by one and counts down by one. It is an inequality because an add that fails half way
moves tail and does not count.
`NoOverwrite` follows in each step from `DataFree`: the lemmas about `Dist` and `CbMove` show that a position less
than `Dist(head, tail)` from head is never among the positions an add writes.

`HeaderTableRegimeProofs` proves what `table_fifo` checks, for any sizes, fields and maxima, under one hypothesis more,
`Regime`: no more than half the buffer is stored between clears (`2 * Horizon <= DataSize`), a table full of the
smallest fields takes fewer slots than there are, fields are not empty and have buffers, and 0 is not set as a maximum.

| Theorem | Says |
|---|---|
| `EvictionsReported` | `Spec => []EvictedReported`: a caller that follows the evicted sets holds the slots in use |
| `EvictedSlotsAreFree` | `Spec => []EvictedAreGone`: what is reported as evicted is no longer in the table |
| `RecordsLieEndToEnd` | `Spec => []RecordsContiguous` |
| `ReadsBackWhatIsStored` | `Spec => []FetchReturnsStored`: each live field is read back as it was added |
| `SizeIsAccounted` | `Spec => []Accounting`: `used_data` is HPACK's size of the table |
| `StaysWithinMax` | `Spec => []WithinMax`: between operations it is within the maximum |
| `EvictionFindsAField` | `Spec => []EvictFindsField`: the loops that evict end before the table is empty |
| `AddNeverFails` | `Spec => NeverFails`: no add fails after it has begun |

They depend on one another: how much an eviction gives back is read from the buffer, so the accounting is right only
while the reads are, and an add finds room only while the accounting is right. Hence one inductive invariant,
`RegimeInv`. It adds to `RingInv`: where the data lies (`Layout`: `data_tail` is what has been stored, so the data
has not wrapped, and `used_data` is the distance of the two ends plus a constant for each field); that the record of
each live field is there whole, begins where its offset says, and ends where the next begins (`RecordOf`); that the
call under way fits (`CallFits`); and what has been reported (`Reports`). `EvictIs` shows that an eviction reads the
lengths of the oldest record, and so takes out its size; `OneRecord` that the last record spans the data there is; and
`SlotLeft` that the slots do not give out before the octets do, which is where `Entries * (Overhead + 1) > DataSize`
is needed. The table keeps no list of its fields: that the sizes add up is shown without a sum, from the ends alone.

`HeaderTableRefinementProofs` proves, under `Regime` as well:

| Theorem | Says |
|---|---|
| `ImplementsFifo` | `Spec => RefinesFifo`: the table is a bounded queue; fields leave in the order they came, only for room, and no more of them than needed |

The queue takes an operation in one step, the table in one step for each field it evicts. In between, the mapping reads
the evicted fields from the buffers, so the proof needs that they are still there: `SeenInv` says that the fields
evicted by the call under way lie just behind `offs_head` with their records whole and end to end with the live ones,
and that each of them was evicted only because what there was did not fit. The last step of an operation then has to be
`Newest` of the queue, the longest run of newest fields that fits: that it fits is the condition that ends the loop,
and that no longer one does is what `SeenInv` remembers. How large a run is, the queue sums up and the table reads
from the offsets. `TotalSeen` shows these to be the same; its heart is `TotalIs`, that any function which adds the
fields one by one is the sum, by the least place where two would differ.

`BitmapSetProofs` and `BitmapSetClientProofs` prove, for any number of words and `WordBits <= IntBits`:

| Theorem | Says |
|---|---|
| `IteratorImplementsIndexSet` | `SetSpec => RefinesIndexSet`: the set and its iterator implement `IndexSet` |
| `IteratorWithinWords` | `SetSpec => []IteratorOK`: however the set is changed, the iterator never leaves its words |

`IterLeast` is the heart of it: `IterNext` returns the least element at or after the position. Its proof orders indexes
by word first (`WordOrder`), finds the word and bit of every element (`PlaceOf`), and takes the least word with
something left in it and the least bit left there; that a least one exists is `MinIsLeast`, from the well-foundedness
of the naturals. The refinement needs one more invariant, `PositionOK`: the position is just after the last index
returned, or past the end. The hypothesis on the widths enters where the mask is computed
(`MaskIsRest`) and can't be dropped: in a wider word the iterator misses elements.

`HeaderParserProofs` proves, under the assumptions of the modules it extends and `ParserAssumption` (the sets have one
bit for each slot), for words of any width:

| Theorem | Says |
|---|---|
| `ParserUsesTable` | `ParserSpec => Spec`: the decoder drives the table by its operations only, so the theorems about the table hold within it |
| `ParserTypeCorrect` | `ParserSpec => []ParserTypeOK` |
| `OnlyReferencesPend` | `ParserSpec => []PendingAreReferences` |
| `NothingEmittedTwice` | `ParserSpec => []EmittedOnce` |

The inductive invariant is `ParserInv`: the table's `RingInv`, the types, and the last two together, since what is
emitted at the end is taken from `ref_not_emitted`. That the end of a block emits the slot it takes out of the set,
although it goes by way of the HPACK index, is `SwitchTwice`: `INDEX_SWITCH_HT_HPACK` is its own inverse on slots.

Its second part proves what else `parser` checks of the references, under `ParserRegime`: `Regime`, index 0
is not asked for, and each static field fits within every maximum. The last is what the code takes for granted
(`header_parser.c`: "We don't need to check if it could be added"); `parser_any_input` is run without the three, and
checks the theorems of the first part only.

| Theorem | Says |
|---|---|
| `ReferencesAreLive` | `ParserSpec => []ReferencesLive`: no reference outlives the eviction of its field |
| `EveryReferenceEmitted` | `ParserSpec => []BlockEmitsReferences`: a block read to its end has emitted every field it refers to |

`ReferInv` puts the table's `RegimeInv` into the decoder. A reference is to a live field between representations; in the
midst of an operation of the table it is to a live field or to one already reported, and when the operation ends, what
was reported is taken out of the set (`ReferencesKnown`). `EvictionsReported` is what makes that enough.
`CallMatches` says that the operation under way is the one the decoder started, and that it won't fail half way.
`EmitInv` adds that what the iterator has passed is not waited for any more, so that the field it finds next is
the least that waits, and that a reference has been emitted or waits. `EveryReferenceEmitted` has two hypotheses more:
`WordBits <= IntBits`, without which the iterator misses elements (see above), and `EmptyBlocks = FALSE`, because a
block without a representation finds `finished` still set by the block before it and emits nothing.

`ChulaBufferProofs` proves, for texts of any length over any octets, any `REALLOC_EXTRA_SIZE` and any word size,
whichever calls of the allocator fail:

| Theorem | Says |
|---|---|
| `NeverOutOfBounds` | `ClientSpec => []MemoryOK`: no sequence of calls writes outside an allocation or leaves no cell for the Nul |
| `EndsStay` | `ClientSpec => EndKept`: a text that ended with a Nul does so after any call, one that fails half way included, but for a print that did not fit |
| `NoMemoryIsHarmless` | `ClientSpec => []NoMemKeepsText`: a call that returns `ret_nomem` has not changed the text |
| `CallsDoTheirWork` | `ClientSpec => []CallsDoAsTold`: given memory, the calls succeed and leave the text they promise: added, inserted, repeated, cut |

`MaxLen`, which bounds the run, is any natural number there. The inductive invariant is `BothGood`: `MemoryOK`, and
that a buffer is a record. There is one lemma for each call (`AddGood`, `InsertGood`, `AddVaListGood`, ...), resting
on `WithSizeRoom` and `RoomGood` (what is asked for leaves room for the text and its Nul), `PutWithin` and
`EndedGood`. `RemoveChunkGood` needs `Chunk`, the condition on the arguments that the callers of
`chula_buffer_remove_chunk` keep: without it the length wraps.

`EndsStay` and `CallsDoTheirWork` have the hypothesis `MaxLen + 1 < Word`: lengths are computed in `uint32_t` and the
functions have no check that a sum of them wraps, so it is for texts of less than 4 GiB that they hold. It is the
bound of the client, plus one for the text that is imported, that must be below. `BothShort`, that both texts
are within it, is the invariant these two need besides `BothGood`. What a call leaves is shown as follows.
`RoomHolds`: making room keeps the cells of the text. `AddAllMem` and `TextIsJoin` say which cells the text and what is added
come to lie in, and that read together they are the two texts one after the other; the lemmas of each call
(`InsertGives`, `AddVaListGives`, ...) rest on them. `MultiplyGives` is about a loop that copies the text onto its
own end: memory is reserved once, so it stays, and each cell holds the octet of its position modulo the length
(`ModAgain`). `TextWithout` reads the text that is left when a chunk has been moved over.

`HeaderStoreProofs` proves all that the run `store` checks, for any set of cells, fields, items, heads and schedules:

| Theorem | Says |
|---|---|
| `StoreInvHolds` | `StoreSpec => []StoreInv`: the heads lead to two lists that share no cell, with all that is allocated on them and counted |
| `LinksAreOK` | `StoreSpec => []LinksOK`: the links agree both ways, whatever was added, removed, turned, sorted or moved before |
| `NothingIsLost` | `StoreSpec => []NothingLost`: whatever was refused, every block is on a list, and the calls counted come to the blocks there are |
| `AddTellsTheTruth` | `StoreSpec => StoredOrRefused`: an add without memory changed nothing; one that says `ret_ok` stored the whole field unless a call was refused in it |
| `StoreIsTwoLists` | `StoreSpec => RefinesLists`: the store and the list of items implement two sequences, the stable sort included |

Its assumptions are that the cells are finite and the heads among them different (`CellsAssumption`,
`HeadsAssumption`), that a field is a name and a value (`FieldsAssumption`), and that the caller who sorts compares any
two items consistently (`OrderAssumption`: total and transitive; items may be equal to it), which only the last theorem
needs. The run evaluates all of them.

The inductive invariant `StoreInv` says that there are two sequences of cells, w and v, for which `Kept` holds. It is
needed because `LinksOK` speaks of what a walk finds, and a walk says nothing of the links it does not come by.
`Kept` describes the links by the sequences: `Ring` says that the links lead from the head by the entries and
back, either way. `Holds` has a ring for the store and one for the items, with no cell in both, and what is
allocated on the one or the other; `Balanced` equates the calls counted with the blocks there are.
`WalkIs` reads the sequence back from the links. Each operation of `ChulaList` has a lemma that gives the ring it
makes and the cells it does not write to (`AddRing`, `DelRing`, `ReparentRing`, `InvertRing`, `LinkedRing`, ...);
`PairOnto` is why the other list does not notice. `MrproperIs`, `ContentFreeIs` and `FreeEntries` follow the loops that
free.

`chula_list_sort` is `SortIs`. Of two runs in order a merge makes one in order, in which equal entries of the first run
come before those of the second (`MergeOrder`); a pass takes each place from the pair of runs it is in (`CameIs`), each
entry once (`CameOnce`), so that runs of d entries in order become runs of 2d (`CameOrders`, `StagePass`); and the
last pass has one run over all of the list (`StageEnds`). `CarriedSort` says what that makes of the contents.

The recursive functions of the model are solutions of an equation that `CHOOSE` picks. `Recursion` shows, without an
induction theorem and from the least natural number where it could fail, that there is a solution, and each proof
about such a function begins there.

Only model-checked: liveness (`CallsReturn`, `ParserGoesOn`), which is out of the prover's reach, and the properties of
`HeaderWire`, `Avl` and `TextClient`. These are about what recursive functions of the code compute from
the data (trees, octets, texts); they are modelled with `RECURSIVE` operators, which the prover
does not take, and the proofs would be inductions over the data.

## Not modelled

- The octets of indexes and maximum sizes (`HeaderParser` takes the representations as they are, `HeaderWire` has the
  literals with a new name).
- Allocation and release of the structures (`_new`, `_free`), and the functions that print them (`_repr`,
  `chula_buffer_print_debug` and its like): nothing but a `malloc`, a `free` and formatting.
- What MD5, SHA-1 and SHA-512 make of a block, and CRC-32: published algorithms over words of 32 and 64 bits, which
  enumeration can't check.
- `util.c` and `log.c`: layers over libc and the operating system (time, directories, uids, `errno` texts, output). What
  they return is decided outside of the program.
- The tables of HPACK (the static fields and the Huffman code): data; the code that is driven by them is modelled for
  small ones.

## Plan

1. Proofs: `GetsWhatIsStored` of the tree from an invariant on the order of its nodes, with its loops written as
   functions, as those of the lists are.
2. `HpackContext`: the decoder of the HPACK draft as an abstract machine, and `HeaderParser` shown to implement it.
3. The octets of indexes and context updates in `HeaderWire`, and blocks of several representations.
