---------------------------- MODULE HeaderStore ----------------------------
(***************************************************************************)
(* A header store (header_store.c) and a list of items, both kept in the   *)
(* lists of libchula, while a memory policy refuses some of the calls to   *)
(* the allocator.  The two share the memory their cells come from.         *)
(***************************************************************************)
EXTENDS ChulaList, MemPolicy, FiniteSets

CONSTANTS
  Fields,      \* the header fields that are added
  Items,       \* what the list carries: [item |-> ...]
  Headers,     \* the head in the store
  Homes,       \* heads for the items
  Schedules    \* <<fail_after, recover_after>> of the policies

ASSUME HeadsAssumption ==
  Headers \in Cells \ {Local} /\ Homes \subseteq Cells \ {Headers, Local}

ASSUME FieldsAssumption == \A f \in Fields : f = [name |-> f.name, value |-> f.value]

\* Who sorts compares any two items, and does so in a consistent way.
ASSUME OrderAssumption ==
  /\ \A x, y \in Items : Compare(x, y) \/ Compare(y, x)
  /\ \A x, y, z \in Items : Compare(x, y) /\ Compare(y, z) => Compare(x, z)

VARIABLES
  policy, frozen,  \* current_policy, current_manager->frozen
  links,
  blocks,          \* what is allocated: an entry of the store or an item
  home,            \* the head of the items
  answer           \* what the last call returned, and to which field if it added one

svars == <<policy, frozen, links, blocks, home, answer>>

Heads == Homes \cup {Headers, Local}

Unused == (Cells \ Heads) \ DOMAIN blocks

Nothing == [num |-> 0]

Answers(call, arg, ret) == answer' = [call |-> call, arg |-> arg, ret |-> ret]

StoreInit ==
  /\ policy \in {Counter} \cup {SchedFail(s[1], s[2]) : s \in Schedules}
  /\ frozen = FALSE
  /\ links = [next |-> [c \in Cells |-> c], prev |-> [c \in Cells |-> c]]
  /\ blocks = <<>>
  /\ home \in Homes
  /\ answer = [call |-> "other", arg |-> Nothing, ret |-> "ok"]

\* The links of cells nobody may look at any more.
Dead(l, cells) ==
  [next |-> [c \in Cells |-> IF c \in cells THEN c ELSE l.next[c]],
   prev |-> [c \in Cells |-> IF c \in cells THEN c ELSE l.prev[c]]]

\* Cells are given back to the allocator.
Released(cells) == [c \in DOMAIN blocks \ cells |-> blocks[c]]

\* A buffer of a field is copied into one without memory.
CopyBuffer(pol, txt) ==
  IF txt = <<>> THEN [policy |-> pol, ok |-> TRUE] ELSE Alloc(pol, frozen, "n_realloc")

\* Slip: the value is copied only when there is no name.
FieldCopyEither(pol, field) ==
  LET name  == CopyBuffer(pol, field.name)
      value == CopyBuffer(pol, field.value)
  IN  IF field.name # <<>>
      THEN [policy |-> name.policy,
            field  |-> [name |-> IF name.ok THEN field.name ELSE <<>>, value |-> <<>>]]
      ELSE [policy |-> value.policy,
            field  |-> [name |-> <<>>, value |-> IF value.ok THEN field.value ELSE <<>>]]

\* hpack_header_field_copy into a field just initialized.  Both buffers are
\* copied, also when there was no memory for the first.
FieldCopy(pol, field) ==
  LET name  == CopyBuffer(pol, field.name)
      value == CopyBuffer(name.policy, field.value)
  IN  [policy |-> value.policy,
       field  |-> [name  |-> IF name.ok THEN field.name ELSE <<>>,
                   value |-> IF value.ok THEN field.value ELSE <<>>]]

\* hpack_header_store_add, and the emit it is registered as.  Nobody looks at
\* what the copy returns.
StoreAdd(field) ==
  LET entry == Alloc(policy, frozen, "n_malloc")
      copy  == FieldCopy(entry.policy, field)
  IN  /\ UNCHANGED <<frozen, home>>
      /\ \/ /\ ~entry.ok
            /\ policy' = entry.policy
            /\ Answers("add", field, "nomem") /\ UNCHANGED <<links, blocks>>
         \/ /\ entry.ok
            /\ policy' = copy.policy
            /\ Answers("add", field, "ok")
            /\ \E c \in Unused :
                 /\ blocks' = [x \in DOMAIN blocks \cup {c} |-> IF x = c THEN copy.field ELSE blocks[x]]
                 /\ links' = ListAddTail(InitHead(links, c), c, Headers)

\* Slip: the buffer of the value is left behind.
EntryFreeNoValue(pol, entry) == Freed(Freed(pol, frozen, entry.name # <<>>), frozen, TRUE)

\* hpack_header_field_mrproper and the free of the entry
EntryFree(pol, entry) ==
  Freed(Freed(Freed(pol, frozen, entry.name # <<>>), frozen, entry.value # <<>>), frozen, TRUE)

\* hpack_header_store_mrproper, and hpack_header_store_init for the next store
StoreMrproper ==
  LET gone == Walk(links, Headers)
      after[k \in 0 .. Len(gone)] ==
        IF k = 0 THEN policy ELSE EntryFree(after[k - 1], blocks[gone[k]])
  IN  /\ policy' = after[Len(gone)]
      /\ blocks' = Released(ToSet(gone))
      /\ links' = Dead(InitHead(links, Headers), ToSet(gone))
      /\ Answers("other", Nothing, "ok") /\ UNCHANGED <<frozen, home>>

\* hpack_header_store_get_n counts down to 0, which 0 itself never reaches.
GetN(num) ==
  LET w == Walk(links, Headers)
  IN  IF num \in DOMAIN w THEN [ret |-> "ok", field |-> blocks[w[num]]] ELSE [ret |-> "not_found"]

\* chula_list_content_add, or chula_list_content_add_tail when at is that
ContentAdd(item, at) ==
  LET new == Alloc(policy, frozen, "n_malloc")
  IN  /\ policy' = new.policy /\ UNCHANGED <<frozen, home>>
      /\ \/ ~new.ok /\ Answers("other", Nothing, "nomem") /\ UNCHANGED <<links, blocks>>
         \/ /\ new.ok /\ Answers("other", Nothing, "ok")
            /\ \E c \in Unused :
                 /\ blocks' = [x \in DOMAIN blocks \cup {c} |-> IF x = c THEN item ELSE blocks[x]]
                 /\ links' = IF at = "head" THEN ListAdd(InitHead(links, c), c, home)
                             ELSE ListAddTail(InitHead(links, c), c, home)

\* chula_list_content_free_item
ContentFreeItem(c) ==
  /\ c \in ToSet(Walk(links, home))
  /\ links' = Dead(ListDel(links, c), {c})
  /\ blocks' = Released({c})
  /\ policy' = Freed(policy, frozen, TRUE)
  /\ Answers("other", Nothing, "ok") /\ UNCHANGED <<frozen, home>>

ContentFree ==
  LET gone == Walk(links, home)
      after[k \in 0 .. Len(gone)] ==
        IF k = 0 THEN [links |-> links, policy |-> policy]
        ELSE [links  |-> ListDel(after[k - 1].links, gone[k]),
              policy |-> Freed(after[k - 1].policy, frozen, TRUE)]
  IN  /\ links' = Dead(InitHead(after[Len(gone)].links, home), ToSet(gone))
      /\ policy' = after[Len(gone)].policy
      /\ blocks' = Released(ToSet(gone))
      /\ Answers("other", Nothing, "ok") /\ UNCHANGED <<frozen, home>>

Relinked(l) ==
  links' = Dead(l, {Local}) /\ Answers("other", Nothing, "ok") /\ UNCHANGED <<policy, frozen, blocks, home>>

InvertItems == Relinked(Invert(links, home))

SortItems == Relinked(Sort(links, home, blocks))

\* chula_list_reparent to a head the caller has just initialized
MoveItems(head) ==
  /\ head # home /\ home' = head
  /\ links' = Dead(Reparent(InitHead(links, head), home, head), {home})
  /\ Answers("other", Nothing, "ok") /\ UNCHANGED <<policy, frozen, blocks>>

\* chula_mem_mgr_freeze and _thaw, around what a test does for itself.  It has
\* no calls left out of the counts.
FreezeOrThaw ==
  /\ ~Counts(policy)
  /\ frozen' = ~frozen /\ Answers("other", Nothing, "ok") /\ UNCHANGED <<policy, links, blocks, home>>

\* What a policy has counted; bounded by MaxCalls, as the schedules are.
Calls == IF Counts(policy) THEN policy.n_malloc + policy.n_realloc + policy.n_free ELSE 0

StoreNext ==
  \/ /\ Calls < MaxCalls
     /\ \/ \E f \in Fields : StoreAdd(f)
        \/ \E i \in Items, at \in {"head", "tail"} : ContentAdd(i, at)
        \/ \E c \in DOMAIN blocks : ContentFreeItem(c)
        \/ StoreMrproper \/ ContentFree
  \/ \E h \in Homes : MoveItems(h)
  \/ InvertItems \/ SortItems \/ FreezeOrThaw

StoreSpec == StoreInit /\ [][StoreNext]_svars
-----------------------------------------------------------------------------
(* Properties *)

\* Every head leads through entries that are allocated back to itself, the same
\* way forwards and backwards, and no entry is in both lists.
LinksOK ==
  /\ \A h \in {Headers, home} :
       LET cells == ToSet(Walk(links, h)) \cup {h}
       IN  /\ cells \ {h} \subseteq DOMAIN blocks
           /\ \A c \in cells : /\ links.next[c] \in cells /\ links.prev[c] \in cells
                               /\ links.prev[links.next[c]] = c /\ links.next[links.prev[c]] = c
  /\ ToSet(Walk(links, Headers)) \cap ToSet(Walk(links, home)) = {}

\* The buffers of the fields in the store that have memory.
Buffers ==
  {p \in ToSet(Walk(links, Headers)) \X {"name", "value"} : blocks[p[1]][p[2]] # <<>>}

\* No entry is lost, whatever the allocator refused: what is allocated is on a
\* list, and a policy that counts has counted one call for every block.
NothingLost ==
  /\ DOMAIN blocks = ToSet(Walk(links, Headers)) \cup ToSet(Walk(links, home))
  /\ Counts(policy) =>
       policy.n_malloc + policy.n_realloc =
         policy.n_free + Cardinality(DOMAIN blocks) + Cardinality(Buffers)

HeaderList == [n \in 1 .. ListLen(links, Headers) |-> GetN(n).field]

ItemList == LET w == Walk(links, home) IN [i \in DOMAIN w |-> blocks[w[i]]]

\* The lists are two sequences: calls put entries in, take them out, turn and
\* sort them as they should, sorting keeps equal items in their order, and no
\* call on one list touches the other.
Sequences2 == INSTANCE Lists WITH
  Field <- Fields, Item <- Items, InOrder <- Compare,
  headers <- HeaderList, items <- ItemList

RefinesLists == Sequences2!ListsSpec

\* The policy has refused one of the calls of this step.
Short ==
  /\ ~Counts(policy)
  /\ \E n \in policy.counter .. policy'.counter : Refused([policy EXCEPT !.counter = n], frozen)

\* A call that is told there is no memory has changed nothing and says so; one
\* that is not has stored all of the field, not a part of it.
StoredOrRefused ==
  [][answer'.call = "add" =>
       CASE answer'.ret = "nomem" -> Short /\ blocks' = blocks /\ links' = links
         [] answer'.ret = "ok" -> Short \/ blocks'[links'.prev[Headers]] = answer'.arg]_svars
=============================================================================
