------------------------------- MODULE Lists -------------------------------
(***************************************************************************)
(* What the header store and a list of items promise: two sequences.  A    *)
(* call may have no memory and change nothing; a header that is added may  *)
(* come in without its name, its value, or both.                           *)
(***************************************************************************)
EXTENDS Naturals, SequencesExt

CONSTANTS Field, Item, InOrder(_, _)

VARIABLES headers, items

lvars == <<headers, items>>

ListsInit == headers = <<>> /\ items = <<>>

\* What may be left of a field.
Parts(f) == {g \in [name : {f.name, <<>>}, value : {f.value, <<>>}] : TRUE}

AddHeader(f) == \E g \in Parts(f) : headers' = Append(headers, g) /\ UNCHANGED items

DropHeaders == headers' = <<>> /\ UNCHANGED items

Push(i) == items' \in {<<i>> \o items, Append(items, i)} /\ UNCHANGED headers

Drop(k) == items' = RemoveAt(items, k) /\ UNCHANGED headers

DropAll == items' = <<>> /\ UNCHANGED headers

Backwards == items' = Reverse(items) /\ UNCHANGED headers

\* s is t in order, and what was equal has stayed as it was.
SortOf(s, t) ==
  \E p \in [DOMAIN t -> DOMAIN t] :
    /\ \A i, j \in DOMAIN t :
         i < j => /\ p[i] # p[j]
                  /\ InOrder(t[p[i]], t[p[j]])
                  /\ InOrder(t[p[j]], t[p[i]]) => p[i] < p[j]
    /\ s = [i \in DOMAIN t |-> t[p[i]]]

Sorted == Len(items') = Len(items) /\ SortOf(items', items) /\ UNCHANGED headers

ListsNext ==
  \/ \E f \in Field : AddHeader(f)
  \/ \E i \in Item : Push(i)
  \/ \E k \in DOMAIN items : Drop(k)
  \/ DropHeaders \/ DropAll \/ Backwards \/ Sorted

ListsSpec == ListsInit /\ [][ListsNext]_lvars
=============================================================================
