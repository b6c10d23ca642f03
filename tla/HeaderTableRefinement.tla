----------------------- MODULE HeaderTableRefinement -----------------------
(***************************************************************************)
(* The header table of header_table.c implements the queue of              *)
(* HeaderTableFifo.  The queue is read out of the two circular buffers.    *)
(* While an operation runs its loop, the fields it has evicted so far      *)
(* still lie in the buffers, in the slots just behind offs_head, and the   *)
(* queue is the one the operation started from.                            *)
(***************************************************************************)
EXTENDS HeaderTable

Pending == IF pc = "idle" THEN 0 ELSE Cardinality(evicted)

EntriesSeen ==
  [k \in 1 .. num_headers + Pending |->
     FieldAt((offs_head - Pending + k - 1 + Entries) % Entries)]

SizeOf == [f \in Fields |-> FieldSize(f)]

Fifo == INSTANCE HeaderTableFifo
          WITH Size <- SizeOf, Settings <- DataSize,
               entries <- EntriesSeen, max <- max_data

\* The table behaves as the queue does: fields leave in the order they came,
\* only when room is needed, and exactly as many as needed; and what is read
\* through the offsets is what was added (hpack_header_table_add, _set_max).
RefinesFifo == Fifo!Spec
=============================================================================
