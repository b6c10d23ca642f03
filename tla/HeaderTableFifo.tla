-------------------------- MODULE HeaderTableFifo --------------------------
(***************************************************************************)
(* What the header table promises its users: a first-in first-out queue of *)
(* header fields whose size never exceeds a maximum.  Every operation is   *)
(* one step, and an operation drops only the oldest fields, and no more of *)
(* them than it has to.                                                    *)
(***************************************************************************)
EXTENDS Integers, Sequences

CONSTANTS
  Fields,
  Size,      \* Size[f]: the size of field f as HPACK counts it
  Settings,  \* SETTINGS_HEADER_TABLE_SIZE, the initial and largest maximum
  MaxSizes   \* the maximum sizes asked for

VARIABLES
  entries,   \* the fields in the table, the oldest first
  max        \* the maximum size

\* The size of the first k fields of s, for each k, and of all of them.
TotalSize(s) ==
  LET Upto[k \in 0 .. Len(s)] == IF k = 0 THEN 0 ELSE Upto[k - 1] + Size[s[k]]
  IN  Upto[Len(s)]

\* The longest run of the newest fields of s that is no larger than room.
Newest(s, room) ==
  LET fits == {k \in 0 .. Len(s) : TotalSize(SubSeq(s, k + 1, Len(s))) <= room}
      k    == CHOOSE k \in fits : \A j \in fits : k <= j
  IN  SubSeq(s, k + 1, Len(s))

Init == entries = <<>> /\ max = Settings

\* Clearing also restores the initial maximum.
Clear == entries' = <<>> /\ max' = Settings

Add(f) ==
  /\ Size[f] <= max
  /\ entries' = Append(Newest(entries, max - Size[f]), f)
  /\ UNCHANGED max

\* A field larger than the maximum empties the table.
AddTooLarge(f) == Size[f] > max /\ Clear

SetMax(m) ==
  /\ m <= Settings
  /\ entries' = Newest(entries, m)
  /\ max' = m

Next ==
  \/ Clear
  \/ \E f \in Fields : Add(f) \/ AddTooLarge(f)
  \/ \E m \in MaxSizes : SetMax(m)

Spec == Init /\ [][Next]_<<entries, max>>
=============================================================================
