----------------------------- MODULE ChulaList -----------------------------
(***************************************************************************)
(* The circular, doubly linked lists of list.h and list.c.  Heads and      *)
(* entries are cells of one memory; an operator takes the links of all of  *)
(* them and gives the links after the call.                                *)
(***************************************************************************)
EXTENDS Naturals, SequencesExt

CONSTANTS
  Cells,     \* heads and entries
  Local,     \* the head chula_list_invert has on its stack
  Compare(_, _)  \* the comparison of a caller that sorts: whether a goes before b or is equal

ASSUME CellsAssumption == IsFiniteSet(Cells) /\ Local \in Cells

\* INIT_LIST_HEAD
InitHead(l, c) == [next |-> [l.next EXCEPT ![c] = c], prev |-> [l.prev EXCEPT ![c] = c]]

IsEmpty(l, head) == l.next[head] = head

\* chula_list_add: between the head and what followed it
ListAdd(l, c, head) ==
  LET first == l.next[head]
  IN  [next |-> [l.next EXCEPT ![c] = first, ![head] = c],
       prev |-> [[l.prev EXCEPT ![c] = head] EXCEPT ![first] = c]]

ListAddTail(l, c, head) ==
  LET last == l.prev[head]
  IN  [next |-> [[l.next EXCEPT ![c] = head] EXCEPT ![last] = c],
       prev |-> [l.prev EXCEPT ![c] = last, ![head] = c]]

ListDel(l, c) ==
  [next |-> [l.next EXCEPT ![l.prev[c]] = l.next[c]],
   prev |-> [l.prev EXCEPT ![l.next[c]] = l.prev[c]]]

\* Slip: the entries at the ends still know the old head.
ReparentHead(l, list, head) ==
  IF IsEmpty(l, list) THEN l
  ELSE [next |-> [l.next EXCEPT ![head] = l.next[list]], prev |-> [l.prev EXCEPT ![head] = l.prev[list]]]

\* chula_list_reparent: an empty list leaves the other head as it is.
Reparent(l, list, head) ==
  LET first == l.next[list]
      last  == l.prev[list]
  IN  IF IsEmpty(l, list) THEN l
      ELSE [next |-> [[l.next EXCEPT ![head] = first] EXCEPT ![last] = head],
            prev |-> [[l.prev EXCEPT ![head] = last] EXCEPT ![first] = head]]

\* The entries list_for_each comes by; no list has more than there are cells.
Walk(l, head) ==
  LET most == Cardinality(Cells)
      at[k \in 0 .. most] == IF k = 0 THEN head ELSE l.next[at[k - 1]]
      len == CHOOSE n \in 0 .. most : /\ n = most \/ at[n + 1] = head
                                     /\ \A k \in 1 .. n : at[k] # head
  IN  [k \in 1 .. len |-> at[k]]

ListLen(l, head) == Len(Walk(l, head))

\* chula_list_invert
Invert(l, head) ==
  LET w == Walk(l, head)
      after[k \in 0 .. Len(w)] ==
        IF k = 0 THEN InitHead(l, Local) ELSE ListAdd(after[k - 1], w[k], Local)
  IN  Reparent(after[Len(w)], Local, head)

-----------------------------------------------------------------------------
(* chula_list_sort: runs of insize entries are merged two by two, until a  *)
(* pass over the list has merged no more than once.                        *)

\* How many of the first k entries came from p when p and q are merged.
Taken(info, p, q) ==
  LET from[k \in 0 .. Len(p) + Len(q)] ==
        IF k = 0 THEN 0
        ELSE LET i == from[k - 1]
                 j == k - 1 - i
                 first == /\ i < Len(p)
                          /\ j = Len(q) \/ Compare(info[p[i + 1]], info[q[j + 1]])
             IN  IF first THEN i + 1 ELSE i
  IN  from

MergeRuns(info, p, q) ==
  LET from == Taken(info, p, q)
  IN  [k \in 1 .. Len(p) + Len(q) |->
         IF from[k] > from[k - 1] THEN p[from[k]] ELSE q[k - from[k]]]

\* The run of n entries behind the first m.
Run(s, m, n) == SubSeq(s, m + 1, IF m + n < Len(s) THEN m + n ELSE Len(s))

\* One pass: where the k-th comes from is decided between two runs.
MergePass(info, s, insize) ==
  [k \in 1 .. Len(s) |->
     LET start == ((k - 1) \div (2 * insize)) * (2 * insize)
     IN  MergeRuns(info, Run(s, start, insize), Run(s, start + insize, insize))[k - start]]

\* Slip: one pass, whatever the list has.
SortOnce(info, s) == MergePass(info, s, 1)

\* Passes are made until one has merged no more than once; insize doubles, so
\* there are no more of them than entries.
SortPasses(info, s) ==
  LET pass[k \in 0 .. Len(s) + 1] ==
        IF k = 0 THEN [list |-> s, insize |-> 1, done |-> FALSE]
        ELSE LET last == pass[k - 1]
             IN  IF last.done THEN last
                 ELSE [list   |-> MergePass(info, last.list, last.insize),
                       insize |-> 2 * last.insize,
                       done   |-> Len(s) <= 2 * last.insize]
  IN  pass[Len(s) + 1].list

\* A head and its entries, linked in that order.
Linked(l, head, s) ==
  LET ring == <<head>> \o s
      At(i) == ring[((i - 1) % Len(ring)) + 1]
      Pos(c) == CHOOSE i \in DOMAIN ring : ring[i] = c
  IN  [next |-> [c \in Cells |-> IF c \in ToSet(ring) THEN At(Pos(c) + 1) ELSE l.next[c]],
       prev |-> [c \in Cells |-> IF c \in ToSet(ring) THEN At(Pos(c) + Len(s)) ELSE l.prev[c]]]

Sort(l, head, info) == Linked(l, head, SortPasses(info, Walk(l, head)))
=============================================================================
