------------------------- MODULE HeaderStoreProofs -------------------------
(***************************************************************************)
(* What is proved of HeaderStore, for every number of cells, fields, items *)
(* and schedules.                                                          *)
(*                                                                         *)
(* The links of a list are described by the sequence of its entries (Ring) *)
(* and each operation of ChulaList is shown to make of a ring the ring it  *)
(* should, and to write to no cell outside of it; chula_list_sort is in    *)
(* four parts: one merge, one pass, all of the passes, the links.  Two     *)
(* rings that share no cell (Pair) and what is allocated on them (Holds)   *)
(* stay so whatever is called.  With the calls of the allocator counted    *)
(* (Balanced) that is the inductive invariant StoreInv; LinksOK,           *)
(* NothingLost, StoredOrRefused and the refinement of Lists follow.        *)
(*                                                                         *)
(* Walk, Taken, SortPasses and others are recursive functions.  Recursion  *)
(* shows that there is a function that solves such an equation, and every  *)
(* proof about one starts from there.                                      *)
(***************************************************************************)
EXTENDS HeaderStore, TLAPS, FiniteSetTheorems, SequenceTheorems, WellFoundedInduction

(* Recursive functions *)

\* A set of numbers with 0 and, after each, the next.
LEMMA UpTo ==
  ASSUME NEW n \in Nat, NEW S, 0 \in S,
         \A k \in 0 .. n - 1 : k \in S => k + 1 \in S
  PROVE  0 .. n \subseteq S
<1> DEFINE left == {k \in 0 .. n : k \notin S}
<1>1. SUFFICES ASSUME left # {} PROVE FALSE
  OBVIOUS
<1>2. left \in SUBSET Nat
  OBVIOUS
<1>3. PICK x \in left : \A y \in left : ~ (<<y, x>> \in OpToRel(<, Nat))
  <2> HIDE DEF left
  <2> QED
    BY <1>1, <1>2, NatLessThanWellFounded, WFMin
<1>4. x \in Nat /\ x # 0 /\ x \in 0 .. n /\ x \notin S
  <2>1. x \in left
    BY <1>3
  <2> QED
    BY <2>1
<1>5. x - 1 \in Nat /\ x - 1 < x /\ x - 1 \in 0 .. n /\ x - 1 \in 0 .. n - 1 /\ (x - 1) + 1 = x
  BY <1>4
<1>6. x - 1 \in S
  BY <1>3, <1>4, <1>5 DEF OpToRel
<1> QED
  BY <1>4, <1>5, <1>6

\* f begins with a, and each value comes from the one before by the step for it.
Steps(f, n, a, step) ==
  f[0] = a /\ \A k \in 1 .. n : f[k] = step[k][f[k - 1]]

\* There is a function for every beginning and every steps.
LEMMA Recursion ==
  ASSUME NEW n \in Nat, NEW D, NEW a \in D, NEW step,
         \A k \in 1 .. n : \A x \in D : step[k][x] \in D
  PROVE  \E f \in [0 .. n -> D] : Steps(f, n, a, step)
<1> DEFINE S == {m \in 0 .. n : \E f \in [0 .. m -> D] : Steps(f, m, a, step)}
<1>1. 0 \in S
  <2> DEFINE f == [k \in 0 .. 0 |-> a]
  <2>1. f \in [0 .. 0 -> D] /\ f[0] = a /\ 1 .. 0 = {}
    OBVIOUS
  <2>2. Steps(f, 0, a, step)
    BY <2>1 DEF Steps
  <2> QED
    BY <2>1, <2>2
<1>2. ASSUME NEW m \in 0 .. n - 1, m \in S
      PROVE  m + 1 \in S
  <2>1. PICK f \in [0 .. m -> D] : Steps(f, m, a, step)
    BY <1>2
  <2> DEFINE g == [k \in 0 .. m + 1 |-> IF k = m + 1 THEN step[m + 1][f[m]] ELSE f[k]]
  <2>2. m \in Nat /\ m + 1 \in 1 .. n /\ m \in 0 .. m /\ m + 1 \in 0 .. m + 1 /\ 0 \in 0 .. m + 1 /\ 0 # m + 1
    OBVIOUS
  <2>3. step[m + 1][f[m]] \in D
    BY <2>1, <2>2
  <2>4. \A k \in 0 .. m : k \in 0 .. m + 1 /\ k # m + 1 /\ f[k] \in D
    BY <2>1, <2>2
  <2>5. g \in [0 .. m + 1 -> D]
    BY <2>2, <2>3, <2>4
  <2>6. g[0] = a
    BY <2>1, <2>2 DEF Steps
  <2>7. ASSUME NEW k \in 1 .. m + 1
        PROVE  g[k] = step[k][g[k - 1]]
    <3>1. k - 1 \in 0 .. m /\ k \in 0 .. m + 1 /\ (k # m + 1 => k \in 1 .. m)
      BY <2>2
    <3>2. g[k - 1] = f[k - 1]
      BY <3>1, <2>4
    <3>3. CASE k = m + 1
      BY <3>1, <3>2, <3>3, <2>2
    <3>4. CASE k # m + 1
      <4>1. g[k] = f[k]
        BY <3>1, <3>4
      <4> QED
        BY <3>1, <3>2, <3>4, <4>1, <2>1 DEF Steps
    <3> QED
      BY <3>3, <3>4
  <2>8. Steps(g, m + 1, a, step)
    <3> HIDE DEF g
    <3> QED
      BY <2>6, <2>7 DEF Steps
  <2> HIDE DEF g
  <2>9. m + 1 \in 0 .. n
    BY <2>2
  <2> QED
    BY <2>5, <2>8, <2>9
<1>3. n \in S
  <2> HIDE DEF S
  <2> QED
    BY <1>1, <1>2, UpTo
<1> QED
  BY <1>3

(* Rings *)

\* Links: every cell has one before it and one behind.
IsLinks(l) == l \in [next : [Cells -> Cells], prev : [Cells -> Cells]]

\* The i-th stop on the way round from head by the entries w.
Stop(head, w, i) == IF i \in 1 .. Len(w) THEN w[i] ELSE head

\* The entries w are cells, each there once, and none is the head.
Loop(head, w) ==
  /\ head \in Cells /\ w \in Seq(Cells)
  /\ \A i \in 1 .. Len(w) : w[i] # head
  /\ \A i, j \in 1 .. Len(w) : w[i] = w[j] => i = j

\* The links lead from head by the entries w back to it, either way.
Ring(l, head, w) ==
  /\ Loop(head, w)
  /\ \A i \in 0 .. Len(w) : /\ l.next[Stop(head, w, i)] = Stop(head, w, i + 1)
                            /\ l.prev[Stop(head, w, i + 1)] = Stop(head, w, i)

\* No loop has more entries than there are cells, so that a walk comes round.
LEMMA LoopSize ==
  ASSUME NEW head, NEW w, Loop(head, w)
  PROVE  Len(w) \in Nat /\ Cardinality(Cells) \in Nat /\ Len(w) <= Cardinality(Cells)
<1>1. IsFiniteSet(Cells) /\ Cardinality(Cells) \in Nat
  BY CellsAssumption, FS_CardinalityType
<1>2. Len(w) \in Nat /\ w \in [1 .. Len(w) -> Cells]
  BY LenProperties DEF Loop
<1>3. w \in Injection(1 .. Len(w), Cells)
  BY <1>2 DEF Loop, Injection, IsInjective
<1>4. Cardinality(1 .. Len(w)) <= Cardinality(Cells)
  BY <1>1, <1>3, FS_Injection
<1>5. Cardinality(1 .. Len(w)) = Len(w)
  <2>1. Cardinality(1 .. Len(w)) = IF 1 > Len(w) THEN 0 ELSE Len(w) - 1 + 1
    BY <1>2, FS_Interval, SMTT(30)
  <2> QED
    BY <1>2, <2>1
<1> QED
  BY <1>1, <1>2, <1>4, <1>5

\* The walk along a ring comes by its entries.
LEMMA WalkIs ==
  ASSUME NEW l, NEW head, NEW w, IsLinks(l), Ring(l, head, w)
  PROVE  Walk(l, head) = w
<1> DEFINE most == Cardinality(Cells)
           n == Len(w)
           AtOf(f) == f = [k \in 0 .. most |-> IF k = 0 THEN head ELSE l.next[f[k - 1]]]
           at == CHOOSE f : AtOf(f)
           Ends(m) == /\ m = most \/ at[m + 1] = head
                      /\ \A k \in 1 .. m : at[k] # head
           len == CHOOSE m \in 0 .. most : Ends(m)
<1>1. Walk(l, head) = [k \in 1 .. len |-> at[k]]
  BY Zenon DEF Walk
<1>2. head \in Cells /\ most \in Nat /\ n \in Nat /\ n <= most
  BY LoopSize DEF Ring, Loop
<1>3. \E f : AtOf(f)
  <2> DEFINE step == [k \in 1 .. most |-> l.next]
  <2>1. \A k \in 1 .. most : \A x \in Cells : step[k][x] \in Cells
    BY DEF IsLinks
  <2>2. \E f \in [0 .. most -> Cells] : Steps(f, most, head, step)
    <3> HIDE DEF step, most
    <3> QED
      BY <1>2, <2>1, Recursion
  <2>3. PICK f \in [0 .. most -> Cells] : Steps(f, most, head, step)
    BY <2>2
  <2>4. \A k \in 0 .. most : f[k] = IF k = 0 THEN head ELSE l.next[f[k - 1]]
    <3>1. \A k \in 0 .. most : k # 0 => k \in 1 .. most
      BY <1>2
    <3> HIDE DEF most
    <3> QED
      BY <2>3, <3>1 DEF Steps
  <2>5. AtOf(f)
    <3> HIDE DEF most
    <3> QED
      BY <2>3, <2>4
  <2> HIDE DEF AtOf
  <2> QED
    BY <2>5
<1> HIDE DEF AtOf
<1>4. AtOf(at)
  BY <1>3
<1> HIDE DEF at
<1>5. \A k \in 0 .. most : at[k] = IF k = 0 THEN head ELSE l.next[at[k - 1]]
  <2> HIDE DEF most
  <2>1. at = [k \in 0 .. most |-> IF k = 0 THEN head ELSE l.next[at[k - 1]]]
    BY <1>4 DEF AtOf
  <2> QED
    BY <2>1
<1> HIDE DEF most, n
<1>6. \A k \in 0 .. most : k <= n + 1 => at[k] = Stop(head, w, k)
  <2> DEFINE S == {k \in 0 .. most : k <= n + 1 => at[k] = Stop(head, w, k)}
  <2>1. 0 \in S
    BY <1>2, <1>5 DEF Stop
  <2>2. ASSUME NEW k \in 0 .. most - 1, k \in S
        PROVE  k + 1 \in S
    <3>1. k + 1 \in 0 .. most /\ (k + 1) - 1 = k /\ k + 1 # 0
      BY <1>2
    <3>2. at[k + 1] = l.next[at[k]]
      BY <1>5, <3>1
    <3>3. ASSUME k + 1 <= n + 1
          PROVE  at[k + 1] = Stop(head, w, k + 1)
      <4>1. k \in 0 .. Len(w) /\ k <= n + 1
        BY <1>2, <3>3 DEF n
      <4>2. l.next[Stop(head, w, k)] = Stop(head, w, k + 1)
        BY <4>1 DEF Ring
      <4>3. at[k] = Stop(head, w, k)
        BY <2>2, <4>1
      <4> QED
        BY <3>2, <4>2, <4>3
    <3> QED
      BY <3>1, <3>3
  <2>3. 0 .. most \subseteq S
    <3> HIDE DEF S
    <3> QED
      BY <1>2, <2>1, <2>2, UpTo
  <2> QED
    BY <2>3
<1>7. \A k \in 1 .. n : k \in 0 .. most /\ at[k] = w[k] /\ at[k] # head
  <2> TAKE k \in 1 .. n
  <2>1. k \in 0 .. most /\ k <= n + 1 /\ k \in 1 .. Len(w)
    BY <1>2 DEF n
  <2>2. at[k] = w[k]
    BY <1>6, <2>1 DEF Stop
  <2> QED
    BY <2>1, <2>2 DEF Ring, Loop
<1>8. n # most => at[n + 1] = head
  <2> SUFFICES ASSUME n # most PROVE at[n + 1] = head
    OBVIOUS
  <2>1. n + 1 \in 0 .. most /\ n + 1 <= n + 1 /\ n + 1 \notin 1 .. Len(w)
    BY <1>2 DEF n
  <2> QED
    BY <1>6, <2>1 DEF Stop
<1>9. n \in 0 .. most /\ Ends(n)
  BY <1>2, <1>7, <1>8
<1>10. len \in 0 .. most /\ Ends(len)
  <2> HIDE DEF Ends
  <2> QED
    BY <1>9
<1> HIDE DEF len
<1>11. len = n
  <2>1. CASE len < n
    <3>1. len # most /\ len + 1 \in 1 .. n
      BY <1>2, <1>10, <2>1
    <3> QED
      BY <1>7, <1>10, <3>1
  <2>2. CASE n < len
    <3>1. n # most /\ n + 1 \in 1 .. len
      BY <1>2, <1>10, <2>2
    <3> QED
      BY <1>8, <1>10, <3>1
  <2> QED
    BY <1>2, <1>10, <2>1, <2>2
<1>12. w = [k \in 1 .. n |-> w[k]]
  BY LenProperties DEF Ring, Loop, n
<1>13. [k \in 1 .. len |-> at[k]] = [k \in 1 .. n |-> w[k]]
  BY <1>7, <1>11
<1> QED
  BY <1>1, <1>12, <1>13

\* The cells of a ring.
On(head, w) == {Stop(head, w, i) : i \in 0 .. Len(w)}

\* Two links agree about cells.
Same(l, k, S) == \A x \in S : k.next[x] = l.next[x] /\ k.prev[x] = l.prev[x]

\* What is on the way round a loop are cells.
LEMMA LoopType ==
  ASSUME NEW head, NEW w, Loop(head, w)
  PROVE  /\ head \in Cells /\ Len(w) \in Nat
         /\ \A i \in 1 .. Len(w) : w[i] \in Cells /\ w[i] # head
         /\ \A i \in Int : Stop(head, w, i) \in Cells
<1>1. Len(w) \in Nat /\ w \in [1 .. Len(w) -> Cells]
  BY LenProperties DEF Loop
<1> QED
  BY <1>1 DEF Loop, Stop

\* Nothing comes twice on one way round.
LEMMA StopOnce ==
  ASSUME NEW head, NEW w, Loop(head, w)
  PROVE  /\ \A i, j \in 0 .. Len(w) : Stop(head, w, i) = Stop(head, w, j) => i = j
         /\ \A i, j \in 1 .. Len(w) + 1 : Stop(head, w, i) = Stop(head, w, j) => i = j
<1> DEFINE n == Len(w)
<1>1. n \in Nat
  BY LoopType
<1>2. \A i \in 1 .. n : Stop(head, w, i) = w[i] /\ w[i] # head
  BY DEF Stop, Loop
<1>3. Stop(head, w, 0) = head /\ Stop(head, w, n + 1) = head
  BY <1>1 DEF Stop
<1>4. \A i, j \in 1 .. n : w[i] = w[j] => i = j
  BY DEF Loop
<1>5. \A i \in 0 .. n : i = 0 \/ i \in 1 .. n
  BY <1>1
<1>6. \A i \in 1 .. n + 1 : i = n + 1 \/ i \in 1 .. n
  BY <1>1
<1> HIDE DEF n
<1>7. \A i, j \in 0 .. n : Stop(head, w, i) = Stop(head, w, j) => i = j
  BY <1>2, <1>3, <1>4, <1>5
<1>8. \A i, j \in 1 .. n + 1 : Stop(head, w, i) = Stop(head, w, j) => i = j
  BY <1>2, <1>3, <1>4, <1>6
<1> QED
  BY <1>7, <1>8 DEF n

\* The cells of a ring are its head and its entries.
LEMMA OnIs ==
  ASSUME NEW head, NEW w, Loop(head, w)
  PROVE  /\ On(head, w) = {head} \cup ToSet(w) /\ On(head, w) \subseteq Cells
         /\ \A i \in Int : Stop(head, w, i) \in On(head, w)
<1>1. Len(w) \in Nat /\ DOMAIN w = 1 .. Len(w)
  BY LenProperties DEF Loop
<1>2. \A i \in Int : Stop(head, w, i) \in On(head, w)
  <2>1. 0 \in 0 .. Len(w) /\ Stop(head, w, 0) = head
    BY <1>1 DEF Stop
  <2>2. \A i \in 1 .. Len(w) : i \in 0 .. Len(w)
    BY <1>1
  <2> QED
    BY <2>1, <2>2 DEF On, Stop
<1>3. On(head, w) \subseteq {head} \cup ToSet(w)
  BY <1>1 DEF On, Stop, ToSet
<1>4. {head} \cup ToSet(w) \subseteq On(head, w)
  <2>1. head \in On(head, w)
    <3>1. Stop(head, w, 0) = head
      BY DEF Stop
    <3> QED
      BY <1>2, <3>1
  <2>2. ASSUME NEW i \in 1 .. Len(w) PROVE w[i] \in On(head, w)
    <3>1. Stop(head, w, i) = w[i]
      BY DEF Stop
    <3> QED
      BY <1>1, <1>2, <3>1
  <2> QED
    BY <1>1, <2>1, <2>2 DEF ToSet
<1>5. On(head, w) \subseteq Cells
  <2>1. \A i \in 0 .. Len(w) : Stop(head, w, i) \in Cells
    BY LoopType
  <2> QED
    BY <2>1 DEF On
<1> QED
  BY <1>2, <1>3, <1>4, <1>5

\* A ring none of whose cells was touched is there still.
LEMMA RingFrame ==
  ASSUME NEW l, NEW k, NEW head, NEW w, Ring(l, head, w), Same(l, k, On(head, w))
  PROVE  Ring(k, head, w)
<1>1. Loop(head, w)
  BY DEF Ring
<1>2. Len(w) \in Nat
  BY <1>1, LoopType
<1>3. ASSUME NEW i \in 0 .. Len(w)
      PROVE  /\ k.next[Stop(head, w, i)] = Stop(head, w, i + 1)
             /\ k.prev[Stop(head, w, i + 1)] = Stop(head, w, i)
  <2>1. Stop(head, w, i) \in On(head, w) /\ Stop(head, w, i + 1) \in On(head, w)
    BY <1>1, <1>2, OnIs
  <2>2. l.next[Stop(head, w, i)] = Stop(head, w, i + 1) /\ l.prev[Stop(head, w, i + 1)] = Stop(head, w, i)
    BY DEF Ring
  <2> QED
    BY <2>1, <2>2 DEF Same
<1> QED
  BY <1>1, <1>3 DEF Ring

\* A head that leads to itself is an empty list.
LEMMA EmptyRing ==
  ASSUME NEW l, NEW head \in Cells, l.next[head] = head, l.prev[head] = head
  PROVE  Ring(l, head, <<>>)
<1>1. Len(<<>>) = 0 /\ <<>> \in Seq(Cells)
  OBVIOUS
<1>2. Loop(head, <<>>)
  BY <1>1 DEF Loop
<1>3. \A i \in Int : Stop(head, <<>>, i) = head
  BY <1>1 DEF Stop
<1> QED
  BY <1>1, <1>2, <1>3 DEF Ring

\* INIT_LIST_HEAD makes an empty list of a cell and touches no other.
LEMMA InitHeadRing ==
  ASSUME NEW l, IsLinks(l), NEW c \in Cells
  PROVE  /\ IsLinks(InitHead(l, c)) /\ Ring(InitHead(l, c), c, <<>>)
         /\ Same(l, InitHead(l, c), Cells \ {c})
<1> DEFINE k == InitHead(l, c)
<1>1. IsLinks(k) /\ k.next[c] = c /\ k.prev[c] = c /\ Same(l, k, Cells \ {c})
  BY DEF IsLinks, InitHead, Same
<1>2. Ring(k, c, <<>>)
  <2> HIDE DEF k
  <2> QED
    BY <1>1, EmptyRing
<1> QED
  BY <1>1, <1>2

\* chula_list_add puts a cell before the entries, and writes only to that ring.
LEMMA AddRing ==
  ASSUME NEW l, NEW head, NEW w, NEW c \in Cells,
         IsLinks(l), Ring(l, head, w), c \notin On(head, w)
  PROVE  /\ IsLinks(ListAdd(l, c, head)) /\ Ring(ListAdd(l, c, head), head, <<c>> \o w)
         /\ Same(l, ListAdd(l, c, head), Cells \ (On(head, w) \cup {c}))
<1> DEFINE n == Len(w)
           k == ListAdd(l, c, head)
           first == l.next[head]
           v == <<c>> \o w
           At(i) == Stop(head, w, i)
<1>1. Loop(head, w)
  BY DEF Ring
<1>2. n \in Nat /\ head \in Cells /\ \A i \in Int : At(i) \in Cells /\ At(i) \in On(head, w) /\ At(i) # c
  BY <1>1, LoopType, OnIs
<1>3. At(0) = head /\ head # c /\ first = At(1)
  <2>1. At(0) = head
    BY DEF Stop
  <2>2. l.next[At(0)] = At(0 + 1)
    BY <1>2 DEF Ring
  <2> QED
    BY <1>2, <2>1, <2>2
<1>4. /\ IsLinks(k)
      /\ \A x \in Cells : k.next[x] = IF x = head THEN c ELSE IF x = c THEN first ELSE l.next[x]
      /\ \A x \in Cells : k.prev[x] = IF x = first THEN c ELSE IF x = c THEN head ELSE l.prev[x]
  BY <1>2, <1>3 DEF IsLinks, ListAdd
<1>5. w \in Seq(Cells) /\ v \in Seq(Cells) /\ Len(v) = n + 1 /\ v[1] = c /\ \A i \in 2 .. n + 1 : v[i] = w[i - 1]
  <2>1. w \in Seq(Cells) /\ <<c>> \in Seq(Cells) /\ Len(<<c>>) = 1 /\ <<c>>[1] = c
    BY <1>1 DEF Loop
  <2>2. v \in Seq(Cells) /\ Len(v) = n + 1 /\ v[1] = c
    BY <2>1, ConcatProperties
  <2>3. \A i \in 2 .. n + 1 : v[i] = w[i - 1]
    BY <1>2, <2>1, ConcatProperties
  <2> QED
    BY <2>1, <2>2, <2>3
<1>6. \A i \in 1 .. n : w[i] = At(i) /\ w[i] # c /\ w[i] # head
  BY <1>1, <1>2 DEF Stop, Loop
<1> HIDE DEF v
<1>7. Loop(head, v)
  <2>1. \A i \in 1 .. n + 1 : i = 1 \/ (i \in 2 .. n + 1 /\ i - 1 \in 1 .. n)
    BY <1>2
  <2>2. \A i \in 1 .. n + 1 : v[i] # head
    BY <1>3, <1>5, <1>6, <2>1
  <2>3. \A i, j \in 1 .. n + 1 : v[i] = v[j] => i = j
    <3>1. \A i, j \in 1 .. n : w[i] = w[j] => i = j
      BY <1>1 DEF Loop
    <3>2. ASSUME NEW i \in 1 .. n + 1, NEW j \in 1 .. n + 1, v[i] = v[j]
          PROVE  i = j
      <4>1. CASE i = 1 \/ j = 1
        BY <1>5, <1>6, <2>1, <3>2, <4>1
      <4>2. CASE i # 1 /\ j # 1
        <5>1. w[i - 1] = w[j - 1] /\ i - 1 \in 1 .. n /\ j - 1 \in 1 .. n
          BY <1>5, <2>1, <3>2, <4>2
        <5>2. i - 1 = j - 1
          BY <3>1, <5>1
        <5> QED
          BY <1>2, <5>2
      <4> QED
        BY <4>1, <4>2
    <3> QED
      BY <3>2
  <2> QED
    BY <1>2, <1>5, <2>2, <2>3 DEF Loop
<1>8. /\ Stop(head, v, 0) = head /\ Stop(head, v, 1) = c
      /\ \A i \in 2 .. n + 2 : Stop(head, v, i) = At(i - 1)
  <2>1. Stop(head, v, 0) = head /\ Stop(head, v, 1) = c
    BY <1>2, <1>5 DEF Stop
  <2>2. ASSUME NEW i \in 2 .. n + 2 PROVE Stop(head, v, i) = At(i - 1)
    <3>1. CASE i = n + 2
      BY <1>2, <1>5, <3>1 DEF Stop
    <3>2. CASE i # n + 2
      <4>1. i \in 2 .. n + 1 /\ i \in 1 .. n + 1 /\ i - 1 \in 1 .. n
        BY <1>2, <3>2
      <4> QED
        BY <1>5, <4>1 DEF Stop
    <3> QED
      BY <3>1, <3>2
  <2> QED
    BY <2>1, <2>2
<1>9. ASSUME NEW i \in 0 .. n + 1
      PROVE  /\ k.next[Stop(head, v, i)] = Stop(head, v, i + 1)
             /\ k.prev[Stop(head, v, i + 1)] = Stop(head, v, i)
  <2> HIDE DEF k, At, first, n
  <2>1. CASE i = 0
    BY <1>2, <1>3, <1>4, <1>8, <2>1
  <2>2. CASE i = 1
    <3>1. 2 \in 2 .. n + 2 /\ Stop(head, v, 2) = At(1)
      <4>1. 2 \in 2 .. n + 2 /\ 2 - 1 = 1
        BY <1>2
      <4> QED
        BY <1>8, <4>1
    <3>2. At(1) \in Cells /\ i + 1 = 2
      BY <1>2, <2>2
    <3> QED
      BY <1>2, <1>3, <1>4, <1>8, <2>2, <3>1, <3>2
  <2>3. CASE i \notin {0, 1}
    <3>1. /\ i \in 2 .. n + 2 /\ i + 1 \in 2 .. n + 2 /\ (i + 1) - 1 = i
          /\ i - 1 \in 1 .. n /\ i - 1 \in 0 .. n /\ i \in 0 .. n + 1 /\ (i - 1) + 1 = i /\ i \in 1 .. n + 1
          /\ 1 \in 1 .. n + 1
      BY <1>2, <2>3
    <3>2. Stop(head, v, i) = At(i - 1) /\ Stop(head, v, i + 1) = At(i)
      <4>1. Stop(head, v, i + 1) = At((i + 1) - 1)
        BY <1>8, <3>1
      <4> QED
        BY <1>8, <3>1, <4>1
    <3>3. l.next[At(i - 1)] = At(i) /\ l.prev[At(i)] = At(i - 1)
      <4>1. l.next[At(i - 1)] = At((i - 1) + 1) /\ l.prev[At((i - 1) + 1)] = At(i - 1)
        BY <3>1 DEF Ring, At, n
      <4> QED
        BY <3>1, <4>1
    <3>4. At(i - 1) # head /\ At(i) # first
      <4>1. At(i - 1) # head
        BY <1>6, <3>1
      <4>2. At(i) # At(1)
        BY <1>1, <2>3, <3>1, StopOnce DEF At, n
      <4> QED
        BY <1>3, <4>1, <4>2
    <3>5. At(i) \in Cells /\ At(i - 1) \in Cells /\ At(i) # c /\ At(i - 1) # c
      BY <1>2, <3>1
    <3> QED
      BY <1>4, <3>2, <3>3, <3>4, <3>5
  <2> QED
    BY <2>1, <2>2, <2>3
<1>10. Ring(k, head, v)
  BY <1>5, <1>7, <1>9 DEF Ring
<1>11. Same(l, k, Cells \ (On(head, w) \cup {c}))
  <2>1. head \in On(head, w) /\ first \in On(head, w)
    BY <1>2, <1>3
  <2> HIDE DEF k, first
  <2> QED
    BY <1>4, <2>1 DEF Same
<1> QED
  BY <1>4, <1>10, <1>11 DEF v

\* chula_list_add_tail puts it behind them.
LEMMA AddTailRing ==
  ASSUME NEW l, NEW head, NEW w, NEW c \in Cells,
         IsLinks(l), Ring(l, head, w), c \notin On(head, w)
  PROVE  /\ IsLinks(ListAddTail(l, c, head)) /\ Ring(ListAddTail(l, c, head), head, Append(w, c))
         /\ Same(l, ListAddTail(l, c, head), Cells \ (On(head, w) \cup {c}))
         /\ ListAddTail(l, c, head).prev[head] = c
<1> DEFINE n == Len(w)
           k == ListAddTail(l, c, head)
           last == l.prev[head]
           v == Append(w, c)
           At(i) == Stop(head, w, i)
<1>1. Loop(head, w)
  BY DEF Ring
<1>2. n \in Nat /\ head \in Cells /\ \A i \in Int : At(i) \in Cells /\ At(i) \in On(head, w) /\ At(i) # c
  BY <1>1, LoopType, OnIs
<1>3. At(0) = head /\ head # c /\ last = At(n)
  <2>1. At(0) = head /\ At(n + 1) = head
    BY <1>2 DEF Stop
  <2>2. l.prev[At(n + 1)] = At(n)
    BY <1>2 DEF Ring
  <2> QED
    BY <1>2, <2>1, <2>2
<1>4. /\ IsLinks(k)
      /\ \A x \in Cells : k.next[x] = IF x = last THEN c ELSE IF x = c THEN head ELSE l.next[x]
      /\ \A x \in Cells : k.prev[x] = IF x = head THEN c ELSE IF x = c THEN last ELSE l.prev[x]
  BY <1>2, <1>3 DEF IsLinks, ListAddTail
<1>5. w \in Seq(Cells) /\ v \in Seq(Cells) /\ Len(v) = n + 1 /\ v[n + 1] = c /\ \A i \in 1 .. n : v[i] = w[i]
  <2>1. w \in Seq(Cells)
    BY <1>1 DEF Loop
  <2> QED
    BY <2>1, AppendProperties
<1>6. \A i \in 1 .. n : w[i] = At(i) /\ w[i] # c /\ w[i] # head
  BY <1>1, <1>2 DEF Stop, Loop
<1> HIDE DEF v
<1>7. Loop(head, v)
  <2>1. \A i \in 1 .. n + 1 : i = n + 1 \/ i \in 1 .. n
    BY <1>2
  <2>2. \A i, j \in 1 .. n : w[i] = w[j] => i = j
    BY <1>1 DEF Loop
  <2> HIDE DEF n, At
  <2>3. \A i \in 1 .. n + 1 : v[i] # head
    BY <1>3, <1>5, <1>6, <2>1
  <2>4. \A i, j \in 1 .. n + 1 : v[i] = v[j] => i = j
    BY <1>5, <1>6, <2>1, <2>2
  <2> QED
    BY <1>2, <1>5, <2>3, <2>4 DEF Loop
<1>8. /\ Stop(head, v, n + 1) = c /\ Stop(head, v, n + 2) = head
      /\ \A i \in 0 .. n : Stop(head, v, i) = At(i)
  <2>1. n + 1 \in 1 .. n + 1 /\ n + 2 \notin 1 .. n + 1 /\ 0 \notin 1 .. n + 1
    BY <1>2
  <2>2. \A i \in 0 .. n : i = 0 \/ (i \in 1 .. n /\ i \in 1 .. n + 1)
    BY <1>2
  <2>3. \A i \in 0 .. n : Stop(head, v, i) = At(i)
    BY <1>3, <1>5, <1>6, <2>1, <2>2 DEF Stop
  <2> QED
    BY <1>5, <2>1, <2>3 DEF Stop
<1>9. ASSUME NEW i \in 0 .. n + 1
      PROVE  /\ k.next[Stop(head, v, i)] = Stop(head, v, i + 1)
             /\ k.prev[Stop(head, v, i + 1)] = Stop(head, v, i)
  <2> HIDE DEF k, At, last, n
  <2>1. CASE i = n + 1
    <3>1. i + 1 = n + 2
      BY <1>2, <2>1
    <3> QED
      BY <1>2, <1>3, <1>4, <1>8, <2>1, <3>1
  <2>2. CASE i = n
    <3>1. i \in 0 .. n /\ At(i) \in Cells /\ Stop(head, v, i) = last
      BY <1>2, <1>3, <1>8, <2>2
    <3> QED
      BY <1>2, <1>3, <1>4, <1>8, <2>2, <3>1
  <2>3. CASE i \notin {n, n + 1}
    <3>1. i \in 0 .. n /\ n \in 0 .. n /\ i + 1 \in 0 .. n /\ i + 1 \in 1 .. n
      BY <1>2, <2>3
    <3>2. l.next[At(i)] = At(i + 1) /\ l.prev[At(i + 1)] = At(i)
      BY <3>1 DEF Ring, At, n
    <3>3. At(i) # last
      <4>1. At(i) # At(n)
        BY <1>1, <2>3, <3>1, StopOnce DEF At, n
      <4> QED
        BY <1>3, <4>1
    <3>4. At(i + 1) # head
      BY <1>6, <3>1
    <3>5. At(i) \in Cells /\ At(i + 1) \in Cells /\ At(i) # c /\ At(i + 1) # c
      BY <1>2, <3>1
    <3> QED
      BY <1>4, <1>8, <3>1, <3>2, <3>3, <3>4, <3>5
  <2> QED
    BY <2>1, <2>2, <2>3
<1>10. Ring(k, head, v)
  BY <1>5, <1>7, <1>9 DEF Ring
<1>11. Same(l, k, Cells \ (On(head, w) \cup {c}))
  <2>1. head \in On(head, w) /\ last \in On(head, w)
    BY <1>2, <1>3
  <2> HIDE DEF k, last
  <2> QED
    BY <1>4, <2>1 DEF Same
<1>12. k.prev[head] = c
  BY <1>2, <1>4
<1> QED
  BY <1>4, <1>10, <1>11, <1>12 DEF v

\* What is left of a loop when the j-th has gone.
LEMMA RemoveAtIs ==
  ASSUME NEW S, NEW w \in Seq(S), NEW j \in 1 .. Len(w)
  PROVE  /\ RemoveAt(w, j) \in Seq(S) /\ Len(RemoveAt(w, j)) = Len(w) - 1
         /\ \A i \in 1 .. Len(w) - 1 : RemoveAt(w, j)[i] = IF i < j THEN w[i] ELSE w[i + 1]
<1> DEFINE n == Len(w)
           a == SubSeq(w, 1, j - 1)
           b == SubSeq(w, j + 1, n)
<1>1. n \in Nat /\ j \in Nat /\ 1 <= j /\ j <= n
  OBVIOUS
<1>2. a \in Seq(S) /\ Len(a) = j - 1 /\ \A i \in 1 .. j - 1 : a[i] = w[i]
  <2>1. \A i \in 1 .. j - 1 : i \in 1 .. n
    BY <1>1
  <2>2. a \in Seq(S)
    BY <2>1, SubSeqProperties
  <2>3. Len(a) = j - 1
    BY <1>1, <2>1, SubSeqProperties
  <2>4. \A i \in 1 .. j - 1 : a[i] = w[i]
    BY <1>1
  <2> QED
    BY <2>2, <2>3, <2>4
<1>3. b \in Seq(S) /\ Len(b) = n - j /\ \A i \in 1 .. n - j : b[i] = w[j + i]
  <2>2. b \in Seq(S)
    BY <1>1
  <2>3. Len(b) = n - j
    BY <1>1
  <2>4. \A i \in 1 .. n - j : b[i] = w[j + i]
    BY <1>1
  <2> QED
    BY <2>2, <2>3, <2>4
<1>4. RemoveAt(w, j) = a \o b
  BY DEF RemoveAt
<1> HIDE DEF a, b
<1>5. a \o b \in Seq(S) /\ Len(a \o b) = n - 1
  <2>1. a \in Seq(S) /\ b \in Seq(S)
    BY <1>2, <1>3
  <2>2. a \o b \in Seq(S) /\ Len(a \o b) = Len(a) + Len(b)
    BY <2>1, ConcatProperties
  <2>3. (j - 1) + (n - j) = n - 1
    BY <1>1
  <2> QED
    BY <1>2, <1>3, <2>2, <2>3
<1>6. ASSUME NEW i \in 1 .. n - 1
      PROVE  (a \o b)[i] = IF i < j THEN w[i] ELSE w[i + 1]
  <2>1. i \in 1 .. Len(a) + Len(b)
    BY <1>1, <1>2, <1>3
  <2>2. (a \o b)[i] = IF i <= Len(a) THEN a[i] ELSE b[i - Len(a)]
    BY <1>2, <1>3, <2>1, ConcatProperties
  <2>3. CASE i < j
    <3>1. i \in 1 .. j - 1
      BY <1>1, <2>3
    <3> QED
      BY <1>1, <1>2, <2>2, <2>3, <3>1
  <2>4. CASE ~ (i < j)
    <3>1. i - (j - 1) \in 1 .. n - j /\ ~ (i <= j - 1)
      BY <1>1, <2>4
    <3>2. b[i - (j - 1)] = w[j + (i - (j - 1))]
      BY <1>3, <3>1
    <3>3. j + (i - (j - 1)) = i + 1
      BY <1>1
    <3> QED
      BY <1>2, <2>2, <2>4, <3>1, <3>2, <3>3
  <2> QED
    BY <2>3, <2>4
<1> QED
  BY <1>4, <1>5, <1>6

\* chula_list_del takes out one entry, wherever it is.
LEMMA DelRing ==
  ASSUME NEW l, NEW head, NEW w, NEW j \in 1 .. Len(w), IsLinks(l), Ring(l, head, w)
  PROVE  /\ IsLinks(ListDel(l, w[j])) /\ Ring(ListDel(l, w[j]), head, RemoveAt(w, j))
         /\ Same(l, ListDel(l, w[j]), Cells \ On(head, w))
<1> DEFINE n == Len(w)
           k == ListDel(l, w[j])
           v == RemoveAt(w, j)
           At(i) == Stop(head, w, i)
<1>1. Loop(head, w)
  BY DEF Ring
<1>2. n \in Nat /\ head \in Cells /\ \A i \in Int : At(i) \in Cells /\ At(i) \in On(head, w)
  BY <1>1, LoopType, OnIs
<1>3. /\ j \in Nat /\ 1 <= j /\ j <= n /\ j - 1 \in 0 .. n /\ j + 1 \in 1 .. n + 1
      /\ j \in 0 .. n /\ (j - 1) + 1 = j
  BY <1>2
<1>4. w[j] = At(j) /\ l.next[w[j]] = At(j + 1) /\ l.prev[w[j]] = At(j - 1)
  <2>1. w[j] = At(j)
    BY DEF Stop
  <2>2. l.next[At(j)] = At(j + 1)
    BY <1>3 DEF Ring
  <2>3. l.prev[At((j - 1) + 1)] = At(j - 1)
    BY <1>3 DEF Ring
  <2> QED
    BY <1>3, <2>1, <2>2, <2>3
<1>5. At(j) \in Cells /\ At(j - 1) \in Cells /\ At(j + 1) \in Cells
      /\ At(j - 1) \in On(head, w) /\ At(j + 1) \in On(head, w)
  BY <1>2, <1>3
<1>6. /\ IsLinks(k)
      /\ \A x \in Cells : k.next[x] = IF x = At(j - 1) THEN At(j + 1) ELSE l.next[x]
      /\ \A x \in Cells : k.prev[x] = IF x = At(j + 1) THEN At(j - 1) ELSE l.prev[x]
  <2> HIDE DEF At
  <2> QED
    BY <1>4, <1>5 DEF IsLinks, ListDel
<1>7. v \in Seq(Cells) /\ Len(v) = n - 1 /\ \A i \in 1 .. n - 1 : v[i] = IF i < j THEN w[i] ELSE w[i + 1]
  <2>1. w \in Seq(Cells)
    BY <1>1 DEF Loop
  <2> QED
    BY <2>1, RemoveAtIs
<1> HIDE DEF v
<1>8. Loop(head, v)
  <2> DEFINE From(i) == IF i < j THEN i ELSE i + 1
  <2>1. \A i \in 1 .. n - 1 : From(i) \in 1 .. n /\ v[i] = w[From(i)]
    BY <1>2, <1>3, <1>7
  <2>2. \A h, i \in 1 .. n - 1 : From(h) = From(i) => h = i
    BY <1>2, <1>3
  <2> HIDE DEF From
  <2>3. \A i \in 1 .. n - 1 : v[i] # head
    BY <1>1, <2>1 DEF Loop
  <2>4. \A h, i \in 1 .. n - 1 : v[h] = v[i] => h = i
    BY <1>1, <2>1, <2>2 DEF Loop
  <2> QED
    BY <1>2, <1>7, <2>3, <2>4 DEF Loop
<1>9. \A i \in 0 .. n : Stop(head, v, i) = IF i < j THEN At(i) ELSE At(i + 1)
  <2> TAKE i \in 0 .. n
  <2>1. CASE i = 0 \/ i = n
    BY <1>2, <1>3, <1>7, <2>1 DEF Stop
  <2>2. CASE i # 0 /\ i # n
    <3>1. i \in 1 .. n - 1 /\ i \in 1 .. n /\ i + 1 \in 1 .. n
      BY <1>2, <2>2
    <3> QED
      BY <1>7, <3>1 DEF Stop
  <2> QED
    BY <2>1, <2>2
<1>10. ASSUME NEW i \in 0 .. n - 1
       PROVE  /\ k.next[Stop(head, v, i)] = Stop(head, v, i + 1)
              /\ k.prev[Stop(head, v, i + 1)] = Stop(head, v, i)
  <2> HIDE DEF k, At, n
  <2>0. i \in 0 .. n /\ i + 1 \in 0 .. n /\ i + 1 \in 1 .. n + 1 /\ i \in Nat /\ (i + 1) + 1 = i + 2
    BY <1>2
  <2>1. At(i) \in Cells /\ At(i + 1) \in Cells /\ At(i + 2) \in Cells
    BY <1>2, <2>0
  <2>2. l.next[At(i)] = At(i + 1) /\ l.prev[At(i + 1)] = At(i)
    BY <2>0 DEF Ring, At, n
  <2>3. l.next[At(i + 1)] = At(i + 2) /\ l.prev[At(i + 2)] = At(i + 1)
    <3>1. l.next[At(i + 1)] = At((i + 1) + 1) /\ l.prev[At((i + 1) + 1)] = At(i + 1)
      BY <2>0 DEF Ring, At, n
    <3> QED
      BY <2>0, <3>1
  <2>4. \A a, b \in 0 .. n : a # b => At(a) # At(b)
    BY <1>1, StopOnce DEF At, n
  <2>5. \A a, b \in 1 .. n + 1 : a # b => At(a) # At(b)
    BY <1>1, StopOnce DEF At, n
  <2>6. CASE i + 1 < j
    <3>1. Stop(head, v, i) = At(i) /\ Stop(head, v, i + 1) = At(i + 1)
      BY <1>3, <1>9, <2>0, <2>6
    <3>2. At(i) # At(j - 1)
      <4>1. i # j - 1
        BY <1>3, <2>0, <2>6
      <4> QED
        BY <1>3, <2>0, <2>4, <4>1
    <3>3. At(i + 1) # At(j + 1)
      <4>1. i + 1 # j + 1
        BY <1>3, <2>0, <2>6
      <4> QED
        BY <1>3, <2>0, <2>5, <4>1
    <3> QED
      BY <1>6, <2>1, <2>2, <3>1, <3>2, <3>3
  <2>7. CASE i + 1 = j
    <3>1. Stop(head, v, i) = At(j - 1) /\ Stop(head, v, i + 1) = At(j + 1)
      <4>1. Stop(head, v, i) = At(i) /\ Stop(head, v, i + 1) = At((i + 1) + 1) /\ i = j - 1 /\ i + 2 = j + 1
        BY <1>3, <1>9, <2>0, <2>7
      <4> QED
        BY <2>0, <4>1
    <3> QED
      BY <1>5, <1>6, <3>1
  <2>8. CASE i + 1 > j
    <3>1. Stop(head, v, i) = At(i + 1) /\ Stop(head, v, i + 1) = At(i + 2)
      <4>1. Stop(head, v, i) = At(i + 1) /\ Stop(head, v, i + 1) = At((i + 1) + 1)
        BY <1>3, <1>9, <2>0, <2>8
      <4> QED
        BY <2>0, <4>1
    <3>2. At(i + 1) # At(j - 1)
      <4>1. i + 1 # j - 1
        BY <1>3, <2>0, <2>8
      <4> QED
        BY <1>3, <2>0, <2>4, <4>1
    <3>3. At(i + 2) # At(j + 1)
      <4>1. i + 2 # j + 1 /\ i + 2 \in 1 .. n + 1
        BY <1>2, <1>3, <2>0, <2>8
      <4> QED
        BY <1>3, <2>5, <4>1
    <3> QED
      BY <1>6, <2>1, <2>3, <3>1, <3>2, <3>3
  <2> QED
    BY <1>3, <2>0, <2>6, <2>7, <2>8
<1>11. Ring(k, head, v)
  <2> HIDE DEF k
  <2> QED
    BY <1>7, <1>8, <1>10 DEF Ring
<1>12. Same(l, k, Cells \ On(head, w))
  <2> HIDE DEF k, At
  <2> QED
    BY <1>5, <1>6 DEF Same
<1> QED
  BY <1>6, <1>11, <1>12 DEF v

\* The entries of a ring that is not empty move to a head outside of it.
LEMMA ReparentRing ==
  ASSUME NEW l, NEW list, NEW w, NEW head \in Cells,
         IsLinks(l), Ring(l, list, w), Len(w) # 0, head \notin On(list, w)
  PROVE  /\ IsLinks(Reparent(l, list, head)) /\ Ring(Reparent(l, list, head), head, w)
         /\ Same(l, Reparent(l, list, head), Cells \ (On(list, w) \cup {head}))
<1> DEFINE n == Len(w)
           k == Reparent(l, list, head)
           At(i) == Stop(list, w, i)
<1>1. Loop(list, w)
  BY DEF Ring
<1>2. n \in Nat /\ n # 0 /\ list \in Cells /\ \A i \in Int : At(i) \in Cells /\ At(i) \in On(list, w)
  BY <1>1, LoopType, OnIs
<1>3. /\ 0 \in 0 .. n /\ n \in 0 .. n /\ 0 + 1 = 1 /\ 1 \in 1 .. n /\ n \in 1 .. n
      /\ n + 1 \notin 1 .. n /\ 0 \notin 1 .. n
  BY <1>2
<1>4. At(0) = list /\ At(n + 1) = list
  BY <1>3 DEF Stop
<1>5. l.next[list] = At(1) /\ l.prev[list] = At(n)
  <2>1. l.next[At(0)] = At(0 + 1) /\ l.prev[At(n + 1)] = At(n)
    BY <1>3 DEF Ring
  <2> QED
    BY <1>3, <1>4, <2>1
<1>6. \A i \in 1 .. n : At(i) = w[i] /\ w[i] \in Cells /\ w[i] # list /\ w[i] # head /\ Stop(head, w, i) = w[i]
  <2>1. \A i \in 1 .. n : i \in Int
    OBVIOUS
  <2> QED
    BY <1>1, <1>2, <2>1 DEF Loop, Stop
<1>7. /\ IsLinks(k)
      /\ \A x \in Cells : k.next[x] = IF x = At(n) THEN head ELSE IF x = head THEN At(1) ELSE l.next[x]
      /\ \A x \in Cells : k.prev[x] = IF x = At(1) THEN head ELSE IF x = head THEN At(n) ELSE l.prev[x]
  <2>1. At(1) \in Cells /\ At(n) \in Cells /\ At(1) # list
    BY <1>2, <1>3, <1>6
  <2>2. k = [next |-> [[l.next EXCEPT ![head] = At(1)] EXCEPT ![At(n)] = head],
             prev |-> [[l.prev EXCEPT ![head] = At(n)] EXCEPT ![At(1)] = head]]
    BY <1>5, <2>1 DEF Reparent, IsEmpty
  <2> HIDE DEF k, At
  <2> QED
    BY <2>1, <2>2 DEF IsLinks
<1>8. Loop(head, w)
  BY <1>1, <1>6 DEF Loop
<1>9. Stop(head, w, 0) = head /\ Stop(head, w, n + 1) = head
  BY <1>3 DEF Stop
<1>10. ASSUME NEW i \in 0 .. n
       PROVE  k.next[Stop(head, w, i)] = Stop(head, w, i + 1)
  <2> HIDE DEF k, At
  <2>1. CASE i = 0
    BY <1>2, <1>3, <1>6, <1>7, <1>9, <2>1
  <2>2. CASE i = n
    BY <1>2, <1>3, <1>6, <1>7, <1>9, <2>2
  <2>3. CASE i # 0 /\ i # n
    <3>1. i \in 1 .. n /\ i + 1 \in 1 .. n
      BY <1>2, <2>3
    <3>2. l.next[At(i)] = At(i + 1)
      BY DEF Ring, At
    <3>3. At(i) # At(n)
      BY <1>1, <1>3, <2>3, StopOnce DEF At
    <3> QED
      BY <1>6, <1>7, <3>1, <3>2, <3>3
  <2> QED
    BY <2>1, <2>2, <2>3
<1>11. ASSUME NEW i \in 0 .. n
       PROVE  k.prev[Stop(head, w, i + 1)] = Stop(head, w, i)
  <2> HIDE DEF k, At
  <2>1. CASE i = 0
    BY <1>2, <1>3, <1>6, <1>7, <1>9, <2>1
  <2>2. CASE i = n
    BY <1>2, <1>3, <1>6, <1>7, <1>9, <2>2
  <2>3. CASE i # 0 /\ i # n
    <3>1. i \in 1 .. n /\ i + 1 \in 1 .. n /\ i + 1 # 1 /\ 1 \in 1 .. n + 1 /\ i + 1 \in 1 .. n + 1
      BY <1>2, <2>3
    <3>2. l.prev[At(i + 1)] = At(i)
      BY DEF Ring, At
    <3>3. At(i + 1) # At(1)
      BY <1>1, <3>1, StopOnce DEF At
    <3> QED
      BY <1>6, <1>7, <3>1, <3>2, <3>3
  <2> QED
    BY <2>1, <2>2, <2>3
<1>12. Ring(k, head, w)
  <2> HIDE DEF k
  <2> QED
    BY <1>8, <1>10, <1>11 DEF Ring
<1>13. Same(l, k, Cells \ (On(list, w) \cup {head}))
  <2>1. At(1) \in On(list, w) /\ At(n) \in On(list, w)
    BY <1>2
  <2> HIDE DEF k, At
  <2> QED
    BY <1>7, <2>1 DEF Same
<1> QED
  BY <1>7, <1>12, <1>13

\* A function on 1 .. n is a sequence.
LEMMA MakesSeq ==
  ASSUME NEW S, NEW n \in Nat, NEW f \in [1 .. n -> S]
  PROVE  f \in Seq(S) /\ Len(f) = n
<1>1. [i \in 1 .. n |-> f[i]] \in Seq(S)
  OBVIOUS
<1>2. Len([i \in 1 .. n |-> f[i]]) = n
  OBVIOUS
<1>3. f = [i \in 1 .. n |-> f[i]]
  OBVIOUS
<1> QED
  BY <1>1, <1>2, <1>3

\* The first n entries of w, the last of them first.
Turned(w, n) == [i \in 1 .. n |-> w[n + 1 - i]]

\* One entry more of w goes before what has been turned.
LEMMA TurnedIs ==
  ASSUME NEW w \in Seq(Cells), NEW n \in 0 .. Len(w)
  PROVE  /\ Turned(w, n) \in Seq(Cells) /\ Len(Turned(w, n)) = n
         /\ \A i \in 1 .. n : Turned(w, n)[i] = w[n + 1 - i] /\ n + 1 - i \in 1 .. n
         /\ Turned(w, 0) = <<>>
         /\ n < Len(w) => Turned(w, n + 1) = <<w[n + 1]>> \o Turned(w, n)
<1>1. n \in Nat /\ Len(w) \in Nat
  OBVIOUS
<1>2. \A i \in 1 .. n : n + 1 - i \in 1 .. n /\ n + 1 - i \in 1 .. Len(w) /\ w[n + 1 - i] \in Cells
  <2>1. \A i \in 1 .. n : n + 1 - i \in 1 .. n /\ n + 1 - i \in 1 .. Len(w)
    BY <1>1
  <2> QED
    BY <2>1, ElementOfSeq
<1>3. Turned(w, n) \in Seq(Cells) /\ Len(Turned(w, n)) = n
  <2>1. Turned(w, n) \in [1 .. n -> Cells]
    BY <1>2 DEF Turned
  <2> QED
    BY <1>1, <2>1, MakesSeq
<1>4. \A i \in 1 .. n : Turned(w, n)[i] = w[n + 1 - i]
  BY DEF Turned
<1>5. Turned(w, 0) = <<>>
  BY DEF Turned
<1>6. ASSUME n < Len(w)
      PROVE  Turned(w, n + 1) = <<w[n + 1]>> \o Turned(w, n)
  <2> DEFINE c == w[n + 1]
             s == <<c>> \o Turned(w, n)
             t == Turned(w, n + 1)
  <2>1. c \in Cells
    BY <1>1, <1>6, ElementOfSeq
  <2>2. <<c>> \in Seq(Cells) /\ Len(<<c>>) = 1 /\ <<c>>[1] = c
    BY <2>1
  <2> HIDE DEF c
  <2>3. s \in Seq(Cells) /\ Len(s) = n + 1 /\ s[1] = c /\ \A i \in 2 .. n + 1 : s[i] = Turned(w, n)[i - 1]
    <3>1. s \in Seq(Cells) /\ Len(s) = Len(<<c>>) + Len(Turned(w, n))
      BY <1>3, <2>2, ConcatProperties
    <3>2. \A i \in 1 .. n + 1 : s[i] = IF i <= 1 THEN c ELSE Turned(w, n)[i - 1]
      BY <1>1, <1>3, <2>2, ConcatProperties
    <3>3. 1 \in 1 .. n + 1 /\ \A i \in 2 .. n + 1 : i \in 1 .. n + 1 /\ ~ (i <= 1)
      BY <1>1
    <3> QED
      BY <1>1, <1>3, <2>2, <3>1, <3>2, <3>3
  <2>4. t = [i \in 1 .. n + 1 |-> w[(n + 1) + 1 - i]]
    BY DEF Turned
  <2> HIDE DEF s, t
  <2>5. ASSUME NEW i \in 1 .. n + 1
        PROVE  w[(n + 1) + 1 - i] = s[i]
    <3>1. CASE i = 1
      <4>1. (n + 1) + 1 - i = n + 1
        BY <1>1, <3>1
      <4> QED
        BY <2>3, <3>1, <4>1 DEF c
    <3>2. CASE i # 1
      <4>1. i \in 2 .. n + 1 /\ i - 1 \in 1 .. n /\ (n + 1) + 1 - i = n + 1 - (i - 1)
        BY <1>1, <3>2
      <4> QED
        BY <1>4, <2>3, <4>1
    <3> QED
      BY <3>1, <3>2
  <2>6. s = [i \in 1 .. n + 1 |-> s[i]]
    BY <2>3
  <2>7. t = s
    BY <2>4, <2>5, <2>6
  <2> QED
    BY <2>7 DEF s, t, c
<1> QED
  BY <1>2, <1>3, <1>4, <1>5, <1>6

\* chula_list_invert: the entries go one by one to the head on the stack, and
\* from there, turned, back to the list.
LEMMA InvertRing ==
  ASSUME NEW l, NEW head, NEW w, IsLinks(l), Ring(l, head, w), Local \notin On(head, w)
  PROVE  /\ IsLinks(Invert(l, head)) /\ Ring(Invert(l, head), head, Reverse(w))
         /\ Same(l, Invert(l, head), Cells \ (On(head, w) \cup {Local}))
<1> DEFINE n == Len(w)
           Turns(f) == f = [k \in 0 .. n |-> IF k = 0 THEN InitHead(l, Local)
                                             ELSE ListAdd(f[k - 1], w[k], Local)]
           after == CHOOSE f : Turns(f)
           All == [next : [Cells -> Cells], prev : [Cells -> Cells]]
<1>1. Walk(l, head) = w
  BY WalkIs
<1>2. Invert(l, head) = Reparent(after[n], Local, head)
  BY <1>1, Zenon DEF Invert
<1>3. Loop(head, w) /\ Local \in Cells /\ head \in Cells /\ head # Local
  <2>1. Loop(head, w)
    BY DEF Ring
  <2> QED
    BY <2>1, LoopType, OnIs, CellsAssumption
<1>4. /\ w \in Seq(Cells) /\ n \in Nat /\ On(head, w) = {head} \cup ToSet(w)
      /\ \A i \in 1 .. n : w[i] \in Cells /\ w[i] # head /\ w[i] \in ToSet(w) /\ w[i] # Local
      /\ \A i, j \in 1 .. n : w[i] = w[j] => i = j
  <2>1. w \in Seq(Cells) /\ n \in Nat /\ On(head, w) = {head} \cup ToSet(w)
    BY <1>3, LoopType, OnIs DEF Loop
  <2>2. \A i \in 1 .. n : w[i] \in ToSet(w)
    BY <2>1 DEF ToSet
  <2> QED
    BY <1>3, <2>1, <2>2, LoopType DEF Loop
<1>5. \E f : Turns(f)
  <2> DEFINE step == [k \in 1 .. n |-> [x \in All |-> ListAdd(x, w[k], Local)]]
  <2>1. ASSUME NEW k \in 1 .. n, NEW x \in All
        PROVE  step[k][x] \in All
    <3>1. w[k] \in Cells
      BY <1>4
    <3>2. step[k][x] = ListAdd(x, w[k], Local)
      OBVIOUS
    <3>3. ListAdd(x, w[k], Local) \in All
      <4> DEFINE c == w[k]
      <4> HIDE DEF c
      <4>1. ListAdd(x, c, Local) \in All
        BY <1>3, <3>1 DEF ListAdd, c
      <4> QED
        BY <4>1 DEF c
    <3> QED
      BY <3>2, <3>3
  <2>2. InitHead(l, Local) \in All
    BY <1>3, InitHeadRing DEF IsLinks
  <2>3. \E f \in [0 .. n -> All] : Steps(f, n, InitHead(l, Local), step)
    <3> HIDE DEF step, n, All
    <3> QED
      BY <1>4, <2>1, <2>2, Recursion
  <2>4. PICK f \in [0 .. n -> All] : Steps(f, n, InitHead(l, Local), step)
    BY <2>3
  <2>5. ASSUME NEW k \in 0 .. n
        PROVE  f[k] = IF k = 0 THEN InitHead(l, Local) ELSE ListAdd(f[k - 1], w[k], Local)
    <3>1. CASE k = 0
      BY <2>4, <3>1 DEF Steps
    <3>2. CASE k # 0
      <4>1. k \in 1 .. n /\ k - 1 \in 0 .. n
        BY <1>4, <3>2
      <4>2. f[k] = step[k][f[k - 1]]
        BY <2>4, <4>1 DEF Steps
      <4>3. f[k - 1] \in All
        BY <2>4, <4>1
      <4>4. step[k][f[k - 1]] = ListAdd(f[k - 1], w[k], Local)
        BY <4>1, <4>3
      <4> QED
        BY <3>2, <4>2, <4>4
    <3> QED
      BY <3>1, <3>2
  <2>6. f = [k \in 0 .. n |-> f[k]]
    BY <2>4
  <2> HIDE DEF n
  <2>7. Turns(f)
    BY <2>5, <2>6
  <2> HIDE DEF Turns
  <2> QED
    BY <2>7
<1> HIDE DEF Turns
<1>6. Turns(after)
  BY <1>5
<1> HIDE DEF after
<1>7. \A k \in 0 .. n : after[k] = IF k = 0 THEN InitHead(l, Local) ELSE ListAdd(after[k - 1], w[k], Local)
  <2> HIDE DEF n
  <2>1. after = [k \in 0 .. n |-> IF k = 0 THEN InitHead(l, Local) ELSE ListAdd(after[k - 1], w[k], Local)]
    BY <1>6 DEF Turns
  <2> QED
    BY <2>1
<1> HIDE DEF n
<1> DEFINE Rest == Cells \ ({Local} \cup ToSet(w))
           Good(k) == /\ IsLinks(after[k]) /\ Ring(after[k], Local, Turned(w, k))
                      /\ Same(l, after[k], Rest)
<1>8. Good(0)
  <2>1. 0 \in 0 .. n /\ 0 \in 0 .. Len(w)
    BY <1>4 DEF n
  <2>2. after[0] = InitHead(l, Local)
    BY <1>7, <2>1
  <2>3. Turned(w, 0) = <<>>
    BY <1>4, <2>1, TurnedIs
  <2>4. IsLinks(after[0]) /\ Ring(after[0], Local, <<>>) /\ Same(l, after[0], Cells \ {Local})
    BY <1>3, <2>2, InitHeadRing
  <2> QED
    BY <2>3, <2>4 DEF Same
<1>9. ASSUME NEW k \in 0 .. n - 1, Good(k)
      PROVE  Good(k + 1)
  <2>1. k \in Nat /\ k \in 0 .. n /\ k + 1 \in 0 .. n /\ k + 1 \in 1 .. n /\ (k + 1) - 1 = k /\ k + 1 # 0 /\ k < n
        /\ k \in 0 .. Len(w) /\ k < Len(w)
    BY <1>4 DEF n
  <2>2. after[k + 1] = ListAdd(after[k], w[k + 1], Local)
    BY <1>7, <2>1
  <2>3. w[k + 1] \in Cells /\ w[k + 1] # Local /\ w[k + 1] \in ToSet(w)
    BY <1>4, <2>1
  <2>4. Loop(Local, Turned(w, k))
    BY <1>9 DEF Ring
  <2>5. Len(Turned(w, k)) = k /\ \A i \in 1 .. k : Turned(w, k)[i] = w[k + 1 - i] /\ k + 1 - i \in 1 .. k
    BY <1>4, <2>1, TurnedIs
  <2>6. \A i \in 1 .. k : Turned(w, k)[i] \in ToSet(w) /\ Turned(w, k)[i] # w[k + 1]
    <3> TAKE i \in 1 .. k
    <3>1. k + 1 - i \in 1 .. n /\ k + 1 - i # k + 1
      BY <1>4, <2>1
    <3> QED
      BY <1>4, <2>1, <2>5, <3>1
  <2>7. On(Local, Turned(w, k)) \subseteq {Local} \cup ToSet(w) /\ w[k + 1] \notin On(Local, Turned(w, k))
    BY <2>3, <2>5, <2>6 DEF On, Stop
  <2>8. Turned(w, k + 1) = <<w[k + 1]>> \o Turned(w, k)
    BY <1>4, <2>1, TurnedIs
  <2>9. /\ IsLinks(after[k + 1]) /\ Ring(after[k + 1], Local, Turned(w, k + 1))
        /\ Same(after[k], after[k + 1], Cells \ (On(Local, Turned(w, k)) \cup {w[k + 1]}))
    <3> DEFINE x == after[k]
               v == Turned(w, k)
               c == w[k + 1]
    <3>1. IsLinks(x) /\ Ring(x, Local, v) /\ c \in Cells /\ c \notin On(Local, v)
      BY <1>9, <2>3, <2>7
    <3> HIDE DEF x, v, c
    <3>2. /\ IsLinks(ListAdd(x, c, Local)) /\ Ring(ListAdd(x, c, Local), Local, <<c>> \o v)
          /\ Same(x, ListAdd(x, c, Local), Cells \ (On(Local, v) \cup {c}))
      BY <3>1, AddRing
    <3> QED
      BY <2>2, <2>8, <3>2 DEF x, v, c
  <2>10. Same(l, after[k + 1], Rest)
    BY <1>9, <2>3, <2>7, <2>9 DEF Same
  <2> QED
    BY <2>9, <2>10
<1>10. Good(n)
  <2> DEFINE S == {k \in 0 .. n : Good(k)}
  <2>1. 0 \in S
    BY <1>4, <1>8
  <2>2. ASSUME NEW k \in 0 .. n - 1, k \in S PROVE k + 1 \in S
    <3>1. Good(k) /\ k + 1 \in 0 .. n
      BY <1>4, <2>2
    <3>2. Good(k + 1)
      BY <1>9, <3>1
    <3> QED
      BY <3>1, <3>2
  <2>3. 0 .. n \subseteq S
    <3> HIDE DEF S
    <3> QED
      BY <1>4, <2>1, <2>2, UpTo
  <2>4. n \in 0 .. n
    BY <1>4
  <2> QED
    BY <2>3, <2>4
<1> DEFINE k == after[n]
           t == Turned(w, n)
<1>11. IsLinks(k) /\ Ring(k, Local, t) /\ Same(l, k, Rest)
  BY <1>10
<1>12. t = Reverse(w) /\ Len(t) = n /\ t \in Seq(Cells) /\ \A i \in 1 .. n : t[i] \in ToSet(w)
  <2>1. n \in 0 .. Len(w)
    BY <1>4 DEF n
  <2>2. t = Reverse(w)
    <3>1. \A i \in 1 .. n : n + 1 - i = n - i + 1
      BY <1>4
    <3> QED
      BY <3>1 DEF Turned, Reverse, n
  <2>3. Len(t) = n /\ t \in Seq(Cells) /\ \A i \in 1 .. n : t[i] = w[n + 1 - i] /\ n + 1 - i \in 1 .. n
    BY <1>4, <2>1, TurnedIs
  <2> QED
    BY <1>4, <2>2, <2>3
<1>13. On(Local, t) \subseteq {Local} \cup ToSet(w)
  BY <1>12 DEF On, Stop
<1> HIDE DEF k, t
<1>14. head \in Rest
  BY <1>3, <1>4 DEF ToSet, n
<1>15. CASE n = 0
  <2>1. t = <<>> /\ w = <<>>
    BY <1>4, <1>12, <1>15 DEF n
  <2>2. k.next[Local] = Local
    <3>1. 0 \in 0 .. Len(t) /\ Stop(Local, t, 0) = Local /\ Stop(Local, t, 0 + 1) = Local
      BY <1>12, <1>15 DEF Stop
    <3> QED
      BY <1>11, <3>1 DEF Ring
  <2>3. Invert(l, head) = k
    BY <1>2, <2>2 DEF Reparent, IsEmpty, k
  <2>4. k.next[head] = head /\ k.prev[head] = head
    <3>1. 0 \in 0 .. Len(w) /\ Stop(head, w, 0) = head /\ Stop(head, w, 0 + 1) = head
      BY <1>15 DEF Stop, n
    <3>2. l.next[head] = head /\ l.prev[head] = head
      BY <3>1 DEF Ring
    <3> QED
      BY <1>11, <1>14, <3>2 DEF Same
  <2>5. Ring(k, head, <<>>)
    BY <1>3, <2>4, EmptyRing
  <2>6. Reverse(w) = <<>>
    BY <1>12, <2>1
  <2>7. Same(l, k, Cells \ (On(head, w) \cup {Local}))
    BY <1>4, <1>11 DEF Same
  <2> QED
    BY <1>11, <2>3, <2>5, <2>6, <2>7
<1>16. CASE n # 0
  <2>1. head \notin On(Local, t)
    BY <1>13, <1>14
  <2>2. /\ IsLinks(Reparent(k, Local, head)) /\ Ring(Reparent(k, Local, head), head, t)
        /\ Same(k, Reparent(k, Local, head), Cells \ (On(Local, t) \cup {head}))
    BY <1>3, <1>11, <1>12, <1>16, <2>1, ReparentRing
  <2>3. Invert(l, head) = Reparent(k, Local, head)
    BY <1>2 DEF k
  <2>4. Same(l, Reparent(k, Local, head), Cells \ (On(head, w) \cup {Local}))
    BY <1>4, <1>11, <1>13, <2>2 DEF Same
  <2> QED
    BY <1>12, <2>2, <2>3, <2>4
<1> QED
  BY <1>15, <1>16

\* Positions on a ring, counted round it.
LEMMA RoundRing ==
  ASSUME NEW n \in Nat, n # 0, NEW i \in 0 .. n - 1
  PROVE  i % n = i /\ (i + n) % n = i
<1>1. i % n = i
  BY Z3
<1>2. (i + n) % n = i
  BY Z3
<1> QED
  BY <1>1, <1>2

\* Cells that are linked up in an order are a ring in that order.
LEMMA LinkedRing ==
  ASSUME NEW l, NEW head, NEW s, IsLinks(l), Loop(head, s)
  PROVE  /\ IsLinks(Linked(l, head, s)) /\ Ring(Linked(l, head, s), head, s)
         /\ Same(l, Linked(l, head, s), Cells \ On(head, s))
<1> DEFINE n == Len(s)
           ring == <<head>> \o s
           At(i) == ring[((i - 1) % Len(ring)) + 1]
           Pos(c) == CHOOSE i \in DOMAIN ring : ring[i] = c
           k == Linked(l, head, s)
           S(i) == Stop(head, s, i)
<1>1. n \in Nat /\ head \in Cells /\ s \in Seq(Cells) /\ \A i \in Int : S(i) \in Cells /\ S(i) \in On(head, s)
  BY LoopType, OnIs DEF Loop
<1>2. Len(ring) = n + 1 /\ DOMAIN ring = 1 .. n + 1 /\ \A i \in 0 .. n : ring[i + 1] = S(i)
  <2>1. <<head>> \in Seq(Cells) /\ Len(<<head>>) = 1 /\ <<head>>[1] = head
    BY <1>1
  <2>2. ring \in Seq(Cells) /\ Len(ring) = n + 1
    BY <1>1, <2>1, ConcatProperties
  <2>3. \A i \in 1 .. n + 1 : ring[i] = IF i <= 1 THEN head ELSE s[i - 1]
    BY <1>1, <2>1, ConcatProperties
  <2>4. DOMAIN ring = 1 .. n + 1
    BY <2>2, LenProperties
  <2> HIDE DEF ring
  <2>5. ASSUME NEW i \in 0 .. n PROVE ring[i + 1] = S(i)
    <3>1. i + 1 \in 1 .. n + 1 /\ (i + 1) - 1 = i /\ (i + 1 <= 1 <=> i = 0) /\ (i # 0 => i \in 1 .. n)
      BY <1>1
    <3> QED
      BY <2>3, <3>1 DEF Stop
  <2> QED
    BY <2>2, <2>4, <2>5
<1>3. ToSet(ring) = On(head, s)
  <2>1. \A j \in 1 .. n + 1 : j - 1 \in 0 .. n /\ (j - 1) + 1 = j
    BY <1>1
  <2>2. \A i \in 0 .. n : i + 1 \in 1 .. n + 1
    BY <1>1
  <2> HIDE DEF ring
  <2>3. ToSet(ring) \subseteq On(head, s)
    <3>1. \A j \in 1 .. n + 1 : ring[j] = S(j - 1)
      BY <1>2, <2>1
    <3>2. \A j \in 1 .. n + 1 : S(j - 1) \in On(head, s)
      BY <1>1, <2>1
    <3> QED
      BY <1>2, <3>1, <3>2 DEF ToSet
  <2>4. On(head, s) \subseteq ToSet(ring)
    BY <1>2, <2>2 DEF ToSet, On
  <2> QED
    BY <2>3, <2>4
<1>4. k = [next |-> [c \in Cells |-> IF c \in ToSet(ring) THEN At(Pos(c) + 1) ELSE l.next[c]],
           prev |-> [c \in Cells |-> IF c \in ToSet(ring) THEN At(Pos(c) + Len(s)) ELSE l.prev[c]]]
  BY Zenon DEF Linked
<1>5. ASSUME NEW i \in 0 .. n
      PROVE  Pos(S(i)) = i + 1
  <2> HIDE DEF ring
  <2>1. i + 1 \in 1 .. n + 1 /\ ring[i + 1] = S(i)
    BY <1>1, <1>2
  <2>2. \E j \in DOMAIN ring : ring[j] = S(i)
    BY <1>2, <2>1
  <2> DEFINE p == Pos(S(i))
  <2>3. p \in DOMAIN ring /\ ring[p] = S(i)
    BY <2>2
  <2> HIDE DEF p
  <2>4. p - 1 \in 0 .. n /\ (p - 1) + 1 = p
    BY <1>1, <1>2, <2>3
  <2>5. S(p - 1) = S(i)
    BY <1>2, <2>3, <2>4
  <2>6. p - 1 = i
    BY <2>4, <2>5, StopOnce
  <2>7. p = i + 1
    BY <2>4, <2>6
  <2> QED
    BY <2>7 DEF p
<1> HIDE DEF ring, k
<1>6. ASSUME NEW i \in 0 .. n
      PROVE  At(Pos(S(i)) + 1) = S(i + 1) /\ At(Pos(S(i)) + Len(s)) = IF i = 0 THEN S(n) ELSE S(i - 1)
  <2>1. Pos(S(i)) = i + 1
    BY <1>5
  <2> HIDE DEF Pos
  <2>2. At(Pos(S(i)) + 1) = S(i + 1)
    <3>1. At(Pos(S(i)) + 1) = ring[((i + 1) % (n + 1)) + 1]
      <4>1. ((i + 1) + 1) - 1 = i + 1
        BY <1>1
      <4> QED
        BY <1>2, <2>1, <4>1
    <3>2. CASE i = n
      <4>1. (i + 1) % (n + 1) = 0
        <5>1. (0 + (n + 1)) % (n + 1) = 0 /\ 0 + (n + 1) = i + 1
          BY <1>1, <3>2, RoundRing
        <5> QED
          BY <5>1
      <4>2. 0 \in 0 .. n /\ S(0) = S(i + 1)
        BY <1>1, <3>2 DEF Stop
      <4> QED
        BY <1>2, <3>1, <4>1, <4>2
    <3>3. CASE i # n
      <4>1. i + 1 \in 0 .. n /\ i + 1 \in 0 .. (n + 1) - 1 /\ n + 1 \in Nat /\ n + 1 # 0
        BY <1>1, <3>3
      <4>2. (i + 1) % (n + 1) = i + 1
        BY <4>1, RoundRing
      <4> QED
        BY <1>2, <3>1, <4>1, <4>2
    <3> QED
      BY <3>2, <3>3
  <2>3. At(Pos(S(i)) + Len(s)) = IF i = 0 THEN S(n) ELSE S(i - 1)
    <3>1. At(Pos(S(i)) + Len(s)) = ring[((i + n) % (n + 1)) + 1]
      <4>1. ((i + 1) + n) - 1 = i + n
        BY <1>1
      <4> QED
        BY <1>2, <2>1, <4>1
    <3>2. CASE i = 0
      <4>1. (i + n) % (n + 1) = n
        <5>1. n \in 0 .. (n + 1) - 1 /\ n + 1 \in Nat /\ n + 1 # 0 /\ i + n = n
          BY <1>1, <3>2
        <5>2. n % (n + 1) = n
          BY <5>1, RoundRing
        <5> QED
          BY <5>1, <5>2
      <4>2. n \in 0 .. n
        BY <1>1
      <4> QED
        BY <1>2, <3>1, <3>2, <4>1, <4>2
    <3>3. CASE i # 0
      <4>1. i - 1 \in 0 .. n /\ i - 1 \in 0 .. (n + 1) - 1 /\ n + 1 \in Nat /\ n + 1 # 0 /\ (i - 1) + (n + 1) = i + n
        BY <1>1, <3>3
      <4>2. ((i - 1) + (n + 1)) % (n + 1) = i - 1
        BY <4>1, RoundRing
      <4>3. (i + n) % (n + 1) = i - 1
        BY <4>1, <4>2
      <4> QED
        BY <1>2, <3>1, <3>3, <4>1, <4>3
    <3> QED
      BY <3>2, <3>3
  <2> QED
    BY <2>2, <2>3
<1> HIDE DEF At, Pos
<1>7. \A i \in 0 .. n : k.next[S(i)] = S(i + 1) /\ k.prev[S(i)] = IF i = 0 THEN S(n) ELSE S(i - 1)
  <2> TAKE i \in 0 .. n
  <2>1. S(i) \in Cells /\ S(i) \in ToSet(ring)
    BY <1>1, <1>3
  <2>2. k.next[S(i)] = At(Pos(S(i)) + 1) /\ k.prev[S(i)] = At(Pos(S(i)) + Len(s))
    BY <1>4, <2>1
  <2> QED
    BY <1>6, <2>2
<1>8. IsLinks(k)
  <2>1. ASSUME NEW c \in Cells
        PROVE  /\ (IF c \in ToSet(ring) THEN At(Pos(c) + 1) ELSE l.next[c]) \in Cells
               /\ (IF c \in ToSet(ring) THEN At(Pos(c) + Len(s)) ELSE l.prev[c]) \in Cells
    <3>1. CASE c \in ToSet(ring)
      <4>1. PICK i \in 0 .. n : c = S(i)
        BY <1>3, <3>1 DEF On
      <4>2. S(i + 1) \in Cells /\ S(n) \in Cells /\ S(i - 1) \in Cells
        BY <1>1
      <4> QED
        BY <1>6, <3>1, <4>1, <4>2
    <3>2. CASE c \notin ToSet(ring)
      BY <3>2 DEF IsLinks
    <3> QED
      BY <3>1, <3>2
  <2> QED
    BY <1>4, <2>1 DEF IsLinks
<1>9. ASSUME NEW i \in 0 .. n
      PROVE  k.next[S(i)] = S(i + 1) /\ k.prev[S(i + 1)] = S(i)
  <2>1. k.next[S(i)] = S(i + 1)
    BY <1>7
  <2>2. CASE i = n
    <3>1. S(i + 1) = S(0) /\ 0 \in 0 .. n
      BY <1>1, <2>2 DEF Stop
    <3> QED
      BY <1>7, <2>1, <2>2, <3>1
  <2>3. CASE i # n
    <3>1. i + 1 \in 0 .. n /\ i + 1 # 0 /\ (i + 1) - 1 = i
      BY <1>1, <2>3
    <3> QED
      BY <1>7, <2>1, <3>1
  <2> QED
    BY <2>2, <2>3
<1>10. Ring(k, head, s)
  BY <1>9 DEF Ring
<1>11. Same(l, k, Cells \ On(head, s))
  BY <1>3, <1>4 DEF Same
<1> QED
  BY <1>8, <1>10, <1>11 DEF k

-----------------------------------------------------------------------------
(* Sorting: one merge *)

(* The merge sort *)

\* What Taken computes, step by step.
Takes(info, p, q, from) ==
  /\ from[0] = 0
  /\ \A k \in 1 .. Len(p) + Len(q) :
       LET i == from[k - 1]
           j == k - 1 - i
       IN  from[k] = IF i < Len(p) /\ (j = Len(q) \/ Compare(info[p[i + 1]], info[q[j + 1]]))
                     THEN i + 1 ELSE i

\* Taken is such a function.
LEMMA TakenIs ==
  ASSUME NEW info, NEW p, NEW q, Len(p) \in Nat, Len(q) \in Nat
  PROVE  Takes(info, p, q, Taken(info, p, q))
<1> DEFINE n == Len(p) + Len(q)
           First(k, i) == /\ i < Len(p)
                          /\ (k - 1 - i) = Len(q) \/ Compare(info[p[i + 1]], info[q[(k - 1 - i) + 1]])
           Tells(f) ==
             f = [k \in 0 .. n |->
                    IF k = 0 THEN 0 ELSE IF First(k, f[k - 1]) THEN f[k - 1] + 1 ELSE f[k - 1]]
           from == CHOOSE f : Tells(f)
<1>1. Taken(info, p, q) = from
  BY Zenon DEF Taken
<1>2. n \in Nat
  OBVIOUS
<1> HIDE DEF First, n
<1>3. \E f : Tells(f)
  <2> DEFINE step == [k \in 1 .. n |-> [i \in Nat |-> IF First(k, i) THEN i + 1 ELSE i]]
  <2>1. \A k \in 1 .. n : \A x \in Nat : step[k][x] \in Nat /\ step[k][x] = IF First(k, x) THEN x + 1 ELSE x
    OBVIOUS
  <2> HIDE DEF step
  <2>2. \E f \in [0 .. n -> Nat] : Steps(f, n, 0, step)
    BY <1>2, <2>1, Recursion
  <2>3. PICK f \in [0 .. n -> Nat] : Steps(f, n, 0, step)
    BY <2>2
  <2>4. ASSUME NEW k \in 0 .. n
        PROVE  f[k] = IF k = 0 THEN 0 ELSE IF First(k, f[k - 1]) THEN f[k - 1] + 1 ELSE f[k - 1]
    <3>1. CASE k = 0
      BY <2>3, <3>1 DEF Steps
    <3>2. CASE k # 0
      <4>1. k \in 1 .. n /\ k - 1 \in 0 .. n
        BY <1>2, <3>2
      <4>2. f[k] = step[k][f[k - 1]] /\ f[k - 1] \in Nat
        BY <2>3, <4>1 DEF Steps
      <4> QED
        BY <2>1, <3>2, <4>1, <4>2
    <3> QED
      BY <3>1, <3>2
  <2>5. f = [k \in 0 .. n |-> f[k]]
    BY <2>3
  <2>6. Tells(f)
    BY <2>4, <2>5
  <2> HIDE DEF Tells
  <2> QED
    BY <2>6
<1> HIDE DEF Tells
<1>4. Tells(from)
  BY <1>3
<1> HIDE DEF from
<1>5. \A k \in 0 .. n :
        from[k] = IF k = 0 THEN 0 ELSE IF First(k, from[k - 1]) THEN from[k - 1] + 1 ELSE from[k - 1]
  <2>1. from = [k \in 0 .. n |->
                  IF k = 0 THEN 0 ELSE IF First(k, from[k - 1]) THEN from[k - 1] + 1 ELSE from[k - 1]]
    BY <1>4 DEF Tells
  <2> QED
    BY <2>1
<1>6. from[0] = 0
  BY <1>2, <1>5
<1>7. ASSUME NEW k \in 1 .. n
      PROVE  from[k] = IF First(k, from[k - 1]) THEN from[k - 1] + 1 ELSE from[k - 1]
  BY <1>2, <1>5
<1> QED
  BY <1>1, <1>6, <1>7 DEF Takes, First, n

\* A merge takes no more from a run than the run has.
LEMMA TakesBounds ==
  ASSUME NEW info, NEW p, NEW q, NEW f, NEW a \in Nat, NEW b \in Nat,
         Len(p) = a, Len(q) = b, Takes(info, p, q, f)
  PROVE  \A k \in 0 .. a + b : f[k] \in Nat /\ f[k] <= a /\ k - f[k] \in Nat /\ k - f[k] <= b
<1> DEFINE Good(k) == f[k] \in Nat /\ f[k] <= a /\ k - f[k] \in Nat /\ k - f[k] <= b
           S == {k \in 0 .. a + b : Good(k)}
<1>1. 0 \in S
  <2>1. f[0] = 0
    BY DEF Takes
  <2> QED
    BY <2>1
<1>2. ASSUME NEW k \in 0 .. a + b - 1, k \in S
      PROVE  k + 1 \in S
  <2>1. k \in Nat /\ k + 1 \in 1 .. a + b /\ k + 1 \in 0 .. a + b /\ (k + 1) - 1 = k
    OBVIOUS
  <2> DEFINE i == f[k]
             first == Compare(info[p[i + 1]], info[q[(k - i) + 1]])
  <2>2. f[k + 1] = IF i < a /\ (k - i = b \/ first) THEN i + 1 ELSE i
    BY <2>1 DEF Takes
  <2> HIDE DEF first, i
  <2>3. i \in Nat /\ i <= a /\ k - i \in Nat /\ k - i <= b
    BY <1>2 DEF i
  <2>4. Good(k + 1)
    BY <2>1, <2>2, <2>3
  <2> QED
    BY <2>1, <2>4
<1>3. 0 .. a + b \subseteq S
  <2>1. a + b \in Nat
    OBVIOUS
  <2> HIDE DEF S
  <2> QED
    BY <1>1, <1>2, <2>1, UpTo
<1> QED
  BY <1>3

\* What the k-th entry is taken from, and why.
OneTaken(info, p, q, f, k) ==
  LET i == f[k - 1]
      j == k - 1 - i
  IN  /\ i \in Nat /\ j \in Nat /\ i <= Len(p) /\ j <= Len(q)
      /\ \/ /\ f[k] = i + 1 /\ i < Len(p)
            /\ j < Len(q) => Compare(info[p[i + 1]], info[q[j + 1]])
         \/ /\ f[k] = i /\ j < Len(q)
            /\ i < Len(p) => ~ Compare(info[p[i + 1]], info[q[j + 1]])

\* Every entry merged comes from one of the runs, for the reason the code has.
LEMMA TakesStep ==
  ASSUME NEW info, NEW p, NEW q, NEW f, NEW a \in Nat, NEW b \in Nat,
         Len(p) = a, Len(q) = b, Takes(info, p, q, f), NEW k \in 1 .. a + b
  PROVE  OneTaken(info, p, q, f, k)
<1> DEFINE i == f[k - 1]
           j == k - 1 - i
           first == Compare(info[p[i + 1]], info[q[j + 1]])
<1>1. k - 1 \in 0 .. a + b /\ k \in Nat
  OBVIOUS
<1>2. i \in Nat /\ i <= a /\ j \in Nat /\ j <= b /\ i + j < a + b
  <2>1. i \in Nat /\ i <= a /\ j \in Nat /\ j <= b
    BY <1>1, TakesBounds
  <2> QED
    BY <1>1, <2>1
<1>3. f[k] = IF i < a /\ (j = b \/ first) THEN i + 1 ELSE i
  BY DEF Takes
<1> HIDE DEF first, i, j
<1>4. \/ f[k] = i + 1 /\ i < a /\ (j < b => first)
      \/ f[k] = i /\ j < b /\ (i < a => ~ first)
  BY <1>2, <1>3
<1> QED
  BY <1>2, <1>4 DEF OneTaken, first, i, j

\* What has been taken stays taken.
LEMMA TakesMonotone ==
  ASSUME NEW info, NEW p, NEW q, NEW f, NEW a \in Nat, NEW b \in Nat,
         Len(p) = a, Len(q) = b, Takes(info, p, q, f),
         NEW h \in 0 .. a + b, NEW k \in h .. a + b
  PROVE  f[h] <= f[k] /\ h - f[h] <= k - f[k]
<1> DEFINE n == a + b - h
           Good(m) == f[m] \in Nat /\ f[h] <= f[m] /\ h - f[h] <= m - f[m]
           S == {d \in 0 .. n : Good(h + d)}
<1>1. n \in Nat /\ h \in Nat /\ k - h \in 0 .. n /\ h + (k - h) = k
  OBVIOUS
<1>2. f[h] \in Nat
  BY TakesBounds
<1>3. 0 \in S
  <2>1. h + 0 = h /\ 0 \in 0 .. n
    BY <1>1
  <2> QED
    BY <1>2, <2>1
<1>4. ASSUME NEW d \in 0 .. n - 1, d \in S
      PROVE  d + 1 \in S
  <2> DEFINE m == h + d + 1
  <2>1. m \in 1 .. a + b /\ m - 1 = h + d /\ h + (d + 1) = m /\ d + 1 \in 0 .. n /\ m - 1 \in Nat /\ m \in Nat
    BY <1>1
  <2>2. Good(m - 1)
    BY <1>4, <2>1
  <2> HIDE DEF m
  <2>3. f[m] = f[m - 1] \/ f[m] = f[m - 1] + 1
    <3>1. OneTaken(info, p, q, f, m)
      BY <2>1, TakesStep
    <3> QED
      BY <3>1 DEF OneTaken
  <2> DEFINE x == f[m - 1]
             y == f[m]
             z == f[h]
  <2>4. x \in Nat /\ z \in Nat /\ z <= x /\ h - z <= (m - 1) - x /\ (y = x \/ y = x + 1)
    BY <1>2, <2>2, <2>3
  <2> HIDE DEF x, y, z
  <2>5. y \in Nat /\ z <= y /\ h - z <= m - y
    BY <1>1, <2>1, <2>4
  <2>6. Good(m)
    BY <2>5 DEF y, z
  <2> HIDE DEF Good
  <2> QED
    BY <2>1, <2>6
<1>5. 0 .. n \subseteq S
  <2> HIDE DEF S, n
  <2> QED
    BY <1>1, <1>3, <1>4, UpTo
<1>6. Good(k)
  <2> HIDE DEF Good, n
  <2>1. Good(h + (k - h))
    BY <1>1, <1>5
  <2> QED
    BY <1>1, <2>1
<1> QED
  BY <1>6

\* Where among the entries of p and q, one after the other, the k-th comes from.
Source(a, f, k) == IF f[k] > f[k - 1] THEN f[k] ELSE a + (k - f[k])

\* The k-th comes from one of the runs, from what is next there.
LEMMA SourceIs ==
  ASSUME NEW info, NEW p, NEW q, NEW f, NEW a \in Nat, NEW b \in Nat,
         Len(p) = a, Len(q) = b, Takes(info, p, q, f), NEW k \in 1 .. a + b
  PROVE  /\ Source(a, f, k) \in 1 .. a + b
         /\ \/ /\ f[k] > f[k - 1] /\ Source(a, f, k) = f[k] /\ f[k] \in 1 .. a /\ f[k - 1] = f[k] - 1
            \/ /\ ~ (f[k] > f[k - 1]) /\ Source(a, f, k) = a + (k - f[k]) /\ k - f[k] \in 1 .. b
               /\ f[k] \in Nat /\ f[k - 1] = f[k]
<1> DEFINE i == f[k - 1]
           x == f[k]
<1>1. /\ i \in Nat /\ (k - 1) - i \in Nat /\ i <= a /\ (k - 1) - i <= b
      /\ (x = i + 1 /\ i < a) \/ (x = i /\ (k - 1) - i < b)
  <2>1. OneTaken(info, p, q, f, k)
    BY TakesStep
  <2> QED
    BY <2>1 DEF OneTaken
<1>2. Source(a, f, k) = IF x > i THEN x ELSE a + (k - x)
  BY DEF Source
<1>3. k \in Nat
  OBVIOUS
<1> HIDE DEF i, x
<1>4. CASE x = i + 1 /\ i < a
  <2>1. x > i /\ x \in 1 .. a /\ x \in 1 .. a + b /\ i = x - 1
    BY <1>1, <1>4
  <2> QED
    BY <1>2, <2>1 DEF i, x
<1>5. CASE x = i /\ (k - 1) - i < b
  <2>1. ~ (x > i) /\ k - x \in 1 .. b /\ a + (k - x) \in 1 .. a + b /\ x \in Nat /\ i = x
    BY <1>1, <1>3, <1>5
  <2> QED
    BY <1>2, <2>1 DEF i, x
<1> QED
  BY <1>1, <1>4, <1>5

\* No entry is merged in twice.
LEMMA SourceOnce ==
  ASSUME NEW info, NEW p, NEW q, NEW f, NEW a \in Nat, NEW b \in Nat,
         Len(p) = a, Len(q) = b, Takes(info, p, q, f),
         NEW h \in 1 .. a + b, NEW k \in 1 .. a + b, h < k
  PROVE  Source(a, f, h) # Source(a, f, k)
<1>1. k - 1 \in h .. a + b /\ h \in 0 .. a + b /\ k \in Nat /\ h \in Nat
  OBVIOUS
<1>2. f[h] <= f[k - 1] /\ h - f[h] <= (k - 1) - f[k - 1]
  BY <1>1, TakesMonotone
<1>0. f[k] \in Nat /\ f[h] \in Nat /\ f[k - 1] \in Nat
  BY <1>1, TakesBounds
<1>3. \/ Source(a, f, h) = f[h] /\ f[h] \in 1 .. a
      \/ Source(a, f, h) = a + (h - f[h]) /\ h - f[h] \in 1 .. b /\ f[h] \in Nat
  BY SourceIs
<1>4. \/ Source(a, f, k) = f[k] /\ f[k] \in 1 .. a /\ f[k - 1] = f[k] - 1
      \/ Source(a, f, k) = a + (k - f[k]) /\ k - f[k] \in 1 .. b /\ f[k] \in Nat /\ f[k - 1] = f[k]
  BY SourceIs
<1> DEFINE x == f[h]
           y == f[k]
           z == f[k - 1]
           u == Source(a, f, h)
           v == Source(a, f, k)
<1>5. /\ x \in Nat /\ y \in Nat /\ z \in Nat /\ x <= z /\ h - x <= (k - 1) - z
      /\ (u = x /\ x \in 1 .. a) \/ (u = a + (h - x) /\ h - x \in 1 .. b)
      /\ (v = y /\ y \in 1 .. a /\ z = y - 1) \/ (v = a + (k - y) /\ k - y \in 1 .. b /\ z = y)
  BY <1>0, <1>2, <1>3, <1>4
<1> HIDE DEF x, y, z, u, v
<1>6. u # v
  BY <1>1, <1>5
<1> QED
  BY <1>6 DEF u, v

\* On S the comparison is total, and transitive.
Orders(S) ==
  /\ \A x, y \in S : Compare(x, y) \/ Compare(y, x)
  /\ \A x, y, z \in S : Compare(x, y) /\ Compare(y, z) => Compare(x, z)

\* One before the other: no greater, and if equal of lower rank.
Before(E, o, u, v) == Compare(E[u], E[v]) /\ (Compare(E[v], E[u]) => o[u] < o[v])

\* E is what is compared of the entries of p and q, o their ranks; each of the
\* two is in order, and the ranks in p are the lower ones.
Halves(info, p, q, S, E, o) ==
  LET a == Len(p)
      b == Len(q)
  IN  /\ \A i \in 1 .. a : E[i] = info[p[i]]
      /\ \A j \in 1 .. b : E[a + j] = info[q[j]]
      /\ \A u \in 1 .. a + b : E[u] \in S
      /\ \A u, v \in 1 .. a : u < v => Before(E, o, u, v)
      /\ \A u, v \in a + 1 .. a + b : u < v => Before(E, o, u, v)
      /\ \A u \in 1 .. a, v \in a + 1 .. a + b : o[u] < o[v]

\* Of runs in order a merge makes a run in order, and entries that compare equal
\* keep theirs.
LEMMA MergeOrder ==
  ASSUME NEW info, NEW p, NEW q, NEW f, NEW a \in Nat, NEW b \in Nat,
         Len(p) = a, Len(q) = b, Takes(info, p, q, f),
         NEW S, NEW E, NEW o, Orders(S), Halves(info, p, q, S, E, o),
         NEW h \in 1 .. a + b, NEW k \in 1 .. a + b, h < k
  PROVE  Before(E, o, Source(a, f, h), Source(a, f, k))
<1>1. k - 1 \in h .. a + b /\ h \in 0 .. a + b /\ k - 1 \in 0 .. a + b /\ h - 1 \in 0 .. a + b
      /\ k \in Nat /\ h \in Nat
  OBVIOUS
<1>2. f[h] \in Nat /\ f[k] \in Nat /\ f[h - 1] \in Nat /\ f[k - 1] \in Nat
  BY <1>1, TakesBounds, SMTT(30)
<1>3. f[h] <= f[k - 1] /\ h - f[h] <= (k - 1) - f[k - 1]
  BY <1>1, TakesMonotone
<1>4. OneTaken(info, p, q, f, h) /\ OneTaken(info, p, q, f, k)
  BY TakesStep
<1> DEFINE i == f[h - 1]
           j == h - 1 - i
           x == f[k - 1]
           y == k - 1 - x
           u == Source(a, f, h)
           v == Source(a, f, k)
<1>5. /\ i \in Nat /\ j \in Nat /\ x \in Nat /\ y \in Nat
      /\ \/ /\ f[h] = i + 1 /\ i < a /\ u = i + 1
            /\ j < b => Compare(info[p[i + 1]], info[q[j + 1]])
         \/ /\ f[h] = i /\ j < b /\ u = a + (j + 1)
            /\ i < a => ~ Compare(info[p[i + 1]], info[q[j + 1]])
  <2>1. /\ j \in Nat
        /\ \/ /\ f[h] = i + 1 /\ i < a
              /\ j < b => Compare(info[p[i + 1]], info[q[j + 1]])
           \/ /\ f[h] = i /\ j < b
              /\ i < a => ~ Compare(info[p[i + 1]], info[q[j + 1]])
    BY <1>4 DEF OneTaken
  <2>2. f[h] = i + 1 => u = i + 1
    BY <1>2 DEF Source
  <2>3. f[h] = i => u = a + (j + 1)
    BY <1>1, <1>2 DEF Source
  <2>4. y \in Nat
    BY <1>4 DEF OneTaken
  <2> QED
    BY <1>2, <2>1, <2>2, <2>3, <2>4
<1>6. \/ f[k] = x + 1 /\ x < a /\ v = x + 1
      \/ f[k] = x /\ y < b /\ v = a + (y + 1)
  <2>1. (f[k] = x + 1 /\ x < a) \/ (f[k] = x /\ y < b)
    BY <1>4 DEF OneTaken
  <2>2. f[k] = x + 1 => v = x + 1
    BY <1>2 DEF Source
  <2>3. f[k] = x => v = a + (y + 1)
    BY <1>1, <1>2 DEF Source
  <2> QED
    BY <2>1, <2>2, <2>3
<1>7. f[h] <= x /\ (f[h] = i + 1 => j <= y) /\ (f[h] = i => j + 1 <= y)
  BY <1>1, <1>2, <1>3, SMTT(30)
<1>8. /\ \A m \in 1 .. a : E[m] = info[p[m]]
      /\ \A m \in 1 .. b : E[a + m] = info[q[m]]
      /\ \A m \in 1 .. a + b : E[m] \in S
      /\ \A m, n \in 1 .. a : m < n => Before(E, o, m, n)
      /\ \A m, n \in a + 1 .. a + b : m < n => Before(E, o, m, n)
      /\ \A m \in 1 .. a, n \in a + 1 .. a + b : o[m] < o[n]
  BY DEF Halves
<1> HIDE DEF i, j, x, y, u, v
<1>9. CASE (f[h] = i + 1 /\ u = i + 1) /\ (f[k] = x + 1 /\ x < a /\ v = x + 1)
  <2>1. u \in 1 .. a /\ v \in 1 .. a /\ u < v
    BY <1>5, <1>7, <1>9
  <2> QED
    BY <1>8, <2>1 DEF u, v
<1>10. CASE (f[h] = i /\ j < b /\ u = a + (j + 1)) /\ (f[k] = x /\ y < b /\ v = a + (y + 1))
  <2>1. u \in a + 1 .. a + b /\ v \in a + 1 .. a + b /\ u < v
    BY <1>5, <1>7, <1>10, SMTT(30)
  <2> QED
    BY <1>8, <2>1 DEF u, v
<1>11. CASE /\ f[h] = i + 1 /\ i < a /\ u = i + 1
            /\ j < b => Compare(info[p[i + 1]], info[q[j + 1]])
            /\ f[k] = x /\ y < b /\ v = a + (y + 1)
  <2>1. /\ i + 1 \in 1 .. a /\ j + 1 \in 1 .. b /\ y + 1 \in 1 .. b /\ j < b /\ j <= y
        /\ u \in 1 .. a + b /\ a + (j + 1) \in 1 .. a + b /\ v \in 1 .. a + b
        /\ a + (j + 1) \in a + 1 .. a + b /\ v \in a + 1 .. a + b /\ u \in 1 .. a
        /\ (j # y => a + (j + 1) < v)
    BY <1>5, <1>7, <1>11
  <2>2. Compare(E[u], E[a + (j + 1)])
    BY <1>8, <1>11, <2>1
  <2>3. Compare(E[u], E[v])
    <3>1. CASE j = y
      BY <1>11, <2>2, <3>1
    <3>2. CASE j # y
      <4>1. Compare(E[a + (j + 1)], E[v])
        BY <1>8, <2>1, <3>2 DEF Before
      <4>2. E[u] \in S /\ E[v] \in S /\ E[a + (j + 1)] \in S
        BY <1>8, <2>1
      <4> QED
        BY <2>2, <4>1, <4>2 DEF Orders
    <3> QED
      BY <3>1, <3>2
  <2>4. o[u] < o[v]
    BY <1>8, <2>1
  <2>5. Before(E, o, u, v)
    BY <2>3, <2>4 DEF Before
  <2> QED
    BY <2>5 DEF u, v
<1>12. CASE /\ f[h] = i /\ j < b /\ u = a + (j + 1)
            /\ i < a => ~ Compare(info[p[i + 1]], info[q[j + 1]])
            /\ f[k] = x + 1 /\ x < a /\ v = x + 1
  <2>1. /\ i < a /\ i + 1 \in 1 .. a /\ j + 1 \in 1 .. b /\ i <= x
        /\ u \in 1 .. a + b /\ i + 1 \in 1 .. a + b /\ v \in 1 .. a + b
        /\ v \in 1 .. a /\ (i # x => i + 1 < v)
    BY <1>5, <1>7, <1>12
  <2>2. ~ Compare(E[i + 1], E[u])
    BY <1>8, <1>12, <2>1
  <2>3. E[u] \in S /\ E[v] \in S /\ E[i + 1] \in S
    BY <1>8, <2>1
  <2>4. i # x => Compare(E[i + 1], E[v])
    BY <1>8, <2>1 DEF Before
  <2>5. ~ Compare(E[v], E[u])
    BY <1>12, <2>2, <2>3, <2>4 DEF Orders
  <2>6. Compare(E[u], E[v])
    BY <2>3, <2>5 DEF Orders
  <2>7. Before(E, o, u, v)
    BY <2>5, <2>6 DEF Before
  <2> QED
    BY <2>7 DEF u, v
<1> QED
  BY <1>5, <1>6, <1>9, <1>10, <1>11, <1>12

-----------------------------------------------------------------------------
(* Sorting: one pass over the list *)

\* Multiples of a number are at least that number apart.
LEMMA Multiples ==
  ASSUME NEW e \in Nat, NEW x \in Nat, NEW y \in Nat, x < y
  PROVE  x * e \in Nat /\ y * e \in Nat /\ x * e + e <= y * e
<1>1. PICK k \in Nat : y = x + 1 + k
  <2>1. y - x - 1 \in Nat /\ y = x + 1 + (y - x - 1)
    OBVIOUS
  <2> QED
    BY <2>1
<1>2. k * e \in Nat /\ x * e \in Nat
  OBVIOUS
<1>3. y * e = x * e + e + k * e
  BY <1>1
<1> QED
  BY <1>2, <1>3

\* The two runs of d entries merged behind the first start.
Left(t, d, start) == Run(t, start, d)
Right(t, d, start) == Run(t, start + d, d)

\* Where before a pass the k-th entry was, when its runs begin behind start.
Place(info, t, d, start, k) ==
  start + Source(Len(Left(t, d, start)), Taken(info, Left(t, d, start), Right(t, d, start)), k - start)

\* k is in the c-th pair of runs of d entries.
InPair(c, d, k) == c \in Nat /\ c * (2 * d) < k /\ k <= c * (2 * d) + 2 * d

\* Every place of a list is in the pair of runs its number says.
LEMMA PairOf ==
  ASSUME NEW d \in Nat \ {0}, NEW k \in Nat \ {0}
  PROVE  InPair((k - 1) \div (2 * d), d, k)
<1> DEFINE e == 2 * d
<1>1. e \in Nat /\ e > 0 /\ k - 1 \in Nat
  OBVIOUS
<1> HIDE DEF e
<1>2. (k - 1) \div e \in Nat /\ (k - 1) % e \in 0 .. e - 1 /\ k - 1 = ((k - 1) \div e) * e + ((k - 1) % e)
  BY <1>1
<1> DEFINE c == (k - 1) \div e
           r == (k - 1) % e
<1>3. c * e \in Nat
  BY <1>1, <1>2
<1> DEFINE z == c * e
<1>4. z \in Nat /\ k - 1 = z + r /\ r \in 0 .. e - 1
  BY <1>2, <1>3
<1> HIDE DEF z, r
<1>5. z < k /\ k <= z + e
  BY <1>1, <1>4
<1> QED
  BY <1>2, <1>5 DEF InPair, e, z

\* And in no other.
LEMMA OnePair ==
  ASSUME NEW d \in Nat \ {0}, NEW k \in Nat \ {0}, NEW b, NEW c, InPair(b, d, k), InPair(c, d, k)
  PROVE  b = c
<1> DEFINE e == 2 * d
<1>1. e \in Nat /\ b \in Nat /\ c \in Nat /\ b * e < k /\ k <= b * e + e /\ c * e < k /\ k <= c * e + e
  BY DEF InPair
<1> HIDE DEF e
<1>2. b * e \in Nat /\ c * e \in Nat
  BY <1>1
<1>3. b < c => b * e + e <= c * e
  BY <1>1, Multiples
<1>4. c < b => c * e + e <= b * e
  BY <1>1, Multiples
<1> DEFINE y == b * e
           z == c * e
<1>5. y \in Nat /\ z \in Nat /\ y < k /\ k <= y + e /\ z < k /\ k <= z + e
      /\ (b < c => y + e <= z) /\ (c < b => z + e <= y)
  BY <1>1, <1>2, <1>3, <1>4
<1> HIDE DEF y, z
<1> QED
  BY <1>1, <1>5

\* The run of d entries behind start, as far as the list goes.
LEMMA RunIs ==
  ASSUME NEW t \in Seq(Cells), NEW start \in Nat, NEW d \in Nat
  PROVE  /\ Len(Run(t, start, d)) = IF start + d <= Len(t) THEN d
                                    ELSE IF start <= Len(t) THEN Len(t) - start ELSE 0
         /\ \A i \in 1 .. Len(Run(t, start, d)) : Run(t, start, d)[i] = t[start + i]
<1> DEFINE n == Len(t)
           last == IF start + d < n THEN start + d ELSE n
           r == Run(t, start, d)
<1>1. n \in Nat /\ last \in Nat /\ last <= n /\ start + 1 \in Int
  OBVIOUS
<1>2. r = SubSeq(t, start + 1, last)
  BY DEF Run
<1>3. \A i \in start + 1 .. last : t[i] \in Cells
  <2>1. \A i \in start + 1 .. last : i \in 1 .. n
    BY <1>1
  <2> QED
    BY <2>1, ElementOfSeq
<1> HIDE DEF last
<1>4. Len(r) = IF start + 1 <= last THEN last - (start + 1) + 1 ELSE 0
  BY <1>1, <1>2, <1>3, SubSeqProperties
<1>5. \A i \in 1 .. last - (start + 1) + 1 : r[i] = t[(start + 1) + i - 1]
  BY <1>1, <1>2, <1>3, SubSeqProperties
<1> HIDE DEF r, n
<1>6. \A i \in 1 .. Len(r) : i \in 1 .. last - (start + 1) + 1 /\ (start + 1) + i - 1 = start + i
  BY <1>1, <1>4
<1>7. \A i \in 1 .. Len(r) : r[i] = t[start + i]
  BY <1>5, <1>6
<1>8. Len(r) = IF start + d <= n THEN d ELSE IF start <= n THEN n - start ELSE 0
  BY <1>1, <1>4 DEF last
<1> QED
  BY <1>7, <1>8 DEF r, n

\* The two runs behind start have a and b entries: which, and how many.
PairFacts(t, d, start, a, b) ==
  /\ a \in Nat /\ b \in Nat /\ a <= d /\ b <= d /\ (b > 0 => a = d)
  /\ start + a + b <= Len(t) /\ (start + 2 * d <= Len(t) => a + b = 2 * d)
  /\ (start + 2 * d > Len(t) => start + a + b = Len(t))
  /\ \A i \in 1 .. a : Left(t, d, start)[i] = t[start + i]
  /\ \A j \in 1 .. b : Right(t, d, start)[j] = t[start + (a + j)]

\* The two runs behind start lie one after the other, as far as the list goes.
LEMMA PairIs ==
  ASSUME NEW t \in Seq(Cells), NEW start \in Nat, NEW d \in Nat \ {0}, start < Len(t)
  PROVE  PairFacts(t, d, start, Len(Left(t, d, start)), Len(Right(t, d, start)))
<1> DEFINE a == Len(Left(t, d, start))
           b == Len(Right(t, d, start))
<1> DEFINE n == Len(t)
<1>1. n \in Nat
  OBVIOUS
<1>2. a = IF start + d <= n THEN d ELSE IF start <= n THEN n - start ELSE 0
  BY RunIs DEF Left
<1>3. b = IF (start + d) + d <= n THEN d ELSE IF start + d <= n THEN n - (start + d) ELSE 0
  <2>1. start + d \in Nat
    OBVIOUS
  <2> QED
    BY <2>1, RunIs DEF Right
<1>4. \A i \in 1 .. a : Left(t, d, start)[i] = t[start + i]
  BY RunIs DEF Left
<1>5. \A j \in 1 .. b : Right(t, d, start)[j] = t[(start + d) + j]
  <2>1. start + d \in Nat
    OBVIOUS
  <2> QED
    BY <2>1, RunIs DEF Right
<1> HIDE DEF n, a, b
<1>6. /\ a \in Nat /\ b \in Nat /\ a <= d /\ b <= d /\ (b > 0 => a = d)
      /\ start + a + b <= n /\ (start + 2 * d <= n => a + b = 2 * d)
      /\ (start + 2 * d > n => start + a + b = n)
  <2>1. CASE start + 2 * d <= n
    <3>1. start + d <= n /\ (start + d) + d <= n
      BY <1>1, <2>1
    <3>2. a = d /\ b = d
      BY <1>2, <1>3, <3>1
    <3> QED
      BY <1>1, <2>1, <3>2
  <2>2. CASE start + d <= n /\ ~ (start + 2 * d <= n)
    <3>1. ~ ((start + d) + d <= n)
      BY <1>1, <2>2
    <3>2. a = d /\ b = n - (start + d)
      BY <1>2, <1>3, <2>2, <3>1
    <3> QED
      BY <1>1, <2>2, <3>2
  <2>3. CASE ~ (start + d <= n)
    <3>1. ~ ((start + d) + d <= n) /\ ~ (start + 2 * d <= n) /\ start <= n
      BY <1>1, <2>3 DEF n
    <3>2. a = n - start /\ b = 0
      BY <1>2, <1>3, <2>3, <3>1
    <3> QED
      BY <1>1, <2>3, <3>1, <3>2
  <2> QED
    BY <2>1, <2>2, <2>3
<1>7. \A j \in 1 .. b : (start + d) + j = start + (a + j)
  BY <1>6
<1> QED
  BY <1>4, <1>5, <1>6, <1>7 DEF PairFacts, n, a, b

\* A place in a pair of runs, counted from where the pair begins.
LEMMA WithinPair ==
  ASSUME NEW n \in Nat, NEW start \in Nat, NEW d \in Nat, NEW a \in Nat, NEW b \in Nat,
         NEW k \in start + 1 .. start + 2 * d, k <= n, a <= d, b <= d, start + a + b <= n,
         start + 2 * d <= n => a + b = 2 * d, start + 2 * d > n => start + a + b = n
  PROVE  /\ k - start \in 1 .. a + b
         /\ \A x \in 1 .. a + b : start + x \in start + 1 .. start + 2 * d /\ start + x \in 1 .. n
  OBVIOUS

\* After a pass the k-th entry is the one that was at its place.
LEMMA PassIs ==
  ASSUME NEW info, NEW t \in Seq(Cells), NEW d \in Nat \ {0}, NEW k \in 1 .. Len(t), NEW c, InPair(c, d, k),
         NEW start, start = c * (2 * d)
  PROVE  /\ start \in Nat
         /\ Place(info, t, d, start, k) \in start + 1 .. start + 2 * d
         /\ Place(info, t, d, start, k) \in 1 .. Len(t)
         /\ MergePass(info, t, d)[k] = t[Place(info, t, d, start, k)]
<1> DEFINE n == Len(t)
           p == Left(t, d, start)
           q == Right(t, d, start)
           a == Len(p)
           b == Len(q)
           f == Taken(info, p, q)
           h == k - start
<1>1. k \in Nat /\ k # 0 /\ n \in Nat /\ k <= n /\ c \in Nat /\ start \in Nat /\ start < k /\ k <= start + 2 * d
  BY DEF InPair
<1>2. c = (k - 1) \div (2 * d)
  BY <1>1, PairOf, OnePair
<1>3. MergePass(info, t, d)[k] = MergeRuns(info, p, q)[h]
  BY <1>2 DEF MergePass, Left, Right
<1>4. /\ a \in Nat /\ b \in Nat /\ a <= d /\ b <= d
      /\ start + a + b <= n /\ (start + 2 * d <= n => a + b = 2 * d)
      /\ (start + 2 * d > n => start + a + b = n)
      /\ \A i \in 1 .. a : p[i] = t[start + i]
      /\ \A j \in 1 .. b : q[j] = t[start + (a + j)]
  <2>1. start < Len(t)
    BY <1>1
  <2>2. start \in Nat
    BY <1>1
  <2>3. PairFacts(t, d, start, a, b)
    BY <2>1, <2>2, PairIs
  <2> QED
    BY <2>3 DEF PairFacts
<1> DEFINE x == Source(a, f, h)
<1>5. Place(info, t, d, start, k) = start + x
  BY DEF Place
<1>6. MergeRuns(info, p, q) = [m \in 1 .. a + b |-> IF f[m] > f[m - 1] THEN p[f[m]] ELSE q[m - f[m]]]
  BY DEF MergeRuns
<1> HIDE DEF p, q, a, b, f
<1>7. Takes(info, p, q, f)
  BY <1>4, TakenIs DEF a, b, f
<1>8. h \in 1 .. a + b /\ \A y \in 1 .. a + b : start + y \in start + 1 .. start + 2 * d /\ start + y \in 1 .. n
  <2>1. k \in start + 1 .. start + 2 * d
    BY <1>1
  <2> HIDE DEF n
  <2> QED
    BY <1>1, <1>4, <2>1, WithinPair
<1> HIDE DEF h, n
<1>9. /\ x \in 1 .. a + b
      /\ \/ f[h] > f[h - 1] /\ x = f[h] /\ f[h] \in 1 .. a
         \/ ~ (f[h] > f[h - 1]) /\ x = a + (h - f[h]) /\ h - f[h] \in 1 .. b
  <2>1. Len(p) = a /\ Len(q) = b
    BY DEF a, b
  <2>2. a \in Nat /\ b \in Nat /\ h \in 1 .. a + b
    BY <1>4, <1>8
  <2> QED
    BY ONLY <1>7, <2>1, <2>2, SourceIs
<1> HIDE DEF x
<1>10. MergeRuns(info, p, q)[h] = t[start + x]
  BY <1>4, <1>6, <1>8, <1>9
<1>11. start + x \in start + 1 .. start + 2 * d /\ start + x \in 1 .. n
  BY <1>8, <1>9
<1> QED
  BY <1>1, <1>3, <1>5, <1>10, <1>11 DEF n

\* Where the k-th entry after a pass was before it.
Came(info, t, d, k) == Place(info, t, d, ((k - 1) \div (2 * d)) * (2 * d), k)

\* A pass takes the k-th from the pair of runs that k is in.
LEMMA CameIs ==
  ASSUME NEW info, NEW t \in Seq(Cells), NEW d \in Nat \ {0}, NEW k \in 1 .. Len(t),
         NEW c, InPair(c, d, k)
  PROVE  /\ Came(info, t, d, k) = Place(info, t, d, c * (2 * d), k)
         /\ Came(info, t, d, k) \in 1 .. Len(t) /\ InPair(c, d, Came(info, t, d, k))
         /\ MergePass(info, t, d)[k] = t[Came(info, t, d, k)]
<1> DEFINE start == c * (2 * d)
           x == Place(info, t, d, start, k)
<1>1. k \in Nat /\ k # 0 /\ c \in Nat
  BY DEF InPair
<1>2. c = (k - 1) \div (2 * d)
  BY <1>1, PairOf, OnePair
<1>3. Came(info, t, d, k) = x
  BY <1>2 DEF Came
<1>4. start \in Nat /\ x \in start + 1 .. start + 2 * d /\ x \in 1 .. Len(t)
      /\ MergePass(info, t, d)[k] = t[x]
  BY PassIs
<1>5. InPair(c, d, x)
  <2> DEFINE z == start
  <2>1. z \in Nat /\ x \in z + 1 .. z + 2 * d /\ x \in Nat
    BY <1>4
  <2> HIDE DEF z, x
  <2>2. z < x /\ x <= z + 2 * d
    BY <2>1
  <2> QED
    BY <1>1, <2>2 DEF InPair, z
<1> HIDE DEF start, x
<1> QED
  BY <1>3, <1>4, <1>5 DEF start, x

\* No entry comes twice out of a pass.
LEMMA CameOnce ==
  ASSUME NEW info, NEW t \in Seq(Cells), NEW d \in Nat \ {0},
         NEW h \in 1 .. Len(t), NEW k \in 1 .. Len(t), h < k
  PROVE  Came(info, t, d, h) # Came(info, t, d, k)
<1> SUFFICES ASSUME Came(info, t, d, h) = Came(info, t, d, k)
             PROVE  FALSE
  OBVIOUS
<1> DEFINE b == (h - 1) \div (2 * d)
           c == (k - 1) \div (2 * d)
           y == Came(info, t, d, k)
<1>1. h \in Nat \ {0} /\ k \in Nat \ {0} /\ Len(t) \in Nat
  OBVIOUS
<1>2. InPair(b, d, h) /\ InPair(c, d, k)
  BY <1>1, PairOf
<1> HIDE DEF b, c
<1>3. InPair(b, d, y) /\ InPair(c, d, y) /\ y \in 1 .. Len(t)
  BY <1>2, CameIs
<1>4. b = c
  <2> HIDE DEF y
  <2>1. y \in Nat \ {0}
    BY <1>1, <1>3
  <2> QED
    BY <1>3, <2>1, OnePair
<1> DEFINE start == c * (2 * d)
           p == Left(t, d, start)
           q == Right(t, d, start)
           f == Taken(info, p, q)
<1>5. start \in Nat /\ start < h /\ start < k /\ k <= start + 2 * d /\ h <= start + 2 * d
  BY <1>2, <1>4 DEF InPair
<1>6. Place(info, t, d, start, h) = Place(info, t, d, start, k)
  BY <1>2, <1>4, CameIs
<1> HIDE DEF start
<1>7. PairFacts(t, d, start, Len(p), Len(q))
  <2>1. start < Len(t)
    BY <1>1, <1>5
  <2> QED
    BY <1>5, <2>1, PairIs
<1> DEFINE x == h - start
           z == k - start
           a == Len(p)
           n == Len(q)
<1>8. a \in Nat /\ n \in Nat /\ x \in 1 .. a + n /\ z \in 1 .. a + n /\ x < z
  <2>1. /\ a \in Nat /\ n \in Nat /\ a <= d /\ n <= d
        /\ start + a + n <= Len(t) /\ (start + 2 * d <= Len(t) => a + n = 2 * d)
        /\ (start + 2 * d > Len(t) => start + a + n = Len(t))
    BY <1>7 DEF PairFacts
  <2> HIDE DEF a, n
  <2>2. x \in 1 .. a + n /\ z \in 1 .. a + n
    <3>1. h \in start + 1 .. start + 2 * d /\ k \in start + 1 .. start + 2 * d
      BY <1>1, <1>5
    <3> QED
      BY <1>1, <1>5, <2>1, <3>1, WithinPair
  <2> QED
    BY <1>1, <1>5, <2>1, <2>2
<1>9. Takes(info, p, q, f)
  BY <1>8, TakenIs
<1>10. Source(a, f, x) # Source(a, f, z)
  <2> HIDE DEF p, q, f, x, z
  <2>1. Len(p) = a /\ Len(q) = n
    OBVIOUS
  <2> HIDE DEF a, n
  <2> QED
    BY <1>8, <1>9, <2>1, SourceOnce
<1>11. Source(a, f, x) \in Nat /\ Source(a, f, z) \in Nat
  <2> HIDE DEF p, q, f, x, z
  <2>1. Len(p) = a /\ Len(q) = n
    OBVIOUS
  <2> HIDE DEF a, n
  <2>2. Source(a, f, x) \in 1 .. a + n /\ Source(a, f, z) \in 1 .. a + n
    BY <1>8, <1>9, <2>1, SourceIs
  <2> QED
    BY <1>8, <2>2
<1>12. start + Source(a, f, x) = start + Source(a, f, z)
  BY <1>6 DEF Place
<1> QED
  BY <1>5, <1>10, <1>11, <1>12

\* The runs of d entries are in order: E is what is compared, o the ranks.
RunsInOrder(n, d, E, o) ==
  \A c \in Nat : \A i, j \in 1 .. n :
    c * d < i /\ i < j /\ j <= c * d + d => Before(E, o, i, j)

\* No entry has left its run.
RunsKept(n, d, m) == \A c \in Nat : \A i \in 1 .. n : i <= c * d <=> m[i] <= c * d

\* The c-th pair of runs of d entries begins behind start.
BeginsAt(c, d, start) == start = c * (2 * d)

\* E is what is compared of the entries of t, o their ranks.
Compared(info, t, S, E, o) ==
  \A i \in 1 .. Len(t) : E[i] = info[t[i]] /\ E[i] \in S /\ o[i] \in 1 .. Len(t)

\* The n values behind the first start.
Behind(E, start, n) == [u \in 1 .. n |-> E[start + u]]

\* The runs of a pair are in order when those of the list are.
LEMMA HalvesOf ==
  ASSUME NEW info, NEW t \in Seq(Cells), NEW d \in Nat \ {0}, NEW n, n = Len(t), NEW S, NEW E, NEW o,
         Compared(info, t, S, E, o),
         RunsInOrder(n, d, E, o), RunsKept(n, d, o),
         NEW c \in Nat, NEW start \in Nat, BeginsAt(c, d, start), start < n
  PROVE  LET p == Left(t, d, start)
             q == Right(t, d, start)
         IN  Halves(info, p, q, S, Behind(E, start, Len(p) + Len(q)), Behind(o, start, Len(p) + Len(q)))
<1> DEFINE p == Left(t, d, start)
           q == Right(t, d, start)
           a == Len(p)
           b == Len(q)
           E1 == Behind(E, start, a + b)
           o1 == Behind(o, start, a + b)
<1>1. n \in Nat
  OBVIOUS
<1>2. /\ a \in Nat /\ b \in Nat /\ a <= d /\ b <= d /\ (b > 0 => a = d)
      /\ start + a + b <= n
      /\ \A i \in 1 .. a : p[i] = t[start + i]
      /\ \A j \in 1 .. b : q[j] = t[start + (a + j)]
  <2>1. PairFacts(t, d, start, a, b)
    BY PairIs
  <2> HIDE DEF p, q
  <2> QED
    BY <2>1 DEF PairFacts, p, q
<1>3. 2 * c \in Nat /\ 2 * c + 1 \in Nat /\ (2 * c) * d = start /\ (2 * c + 1) * d = start + d
  BY DEF BeginsAt
<1>4. \A u \in 1 .. a + b : start + u \in 1 .. n /\ E1[u] = E[start + u] /\ o1[u] = o[start + u]
  <2>1. \A u \in 1 .. a + b : start + u \in 1 .. n
    BY <1>1, <1>2
  <2> QED
    BY <2>1 DEF Behind
<1> HIDE DEF E1, o1, p, q
<1>5. \A i \in 1 .. a : i \in 1 .. a + b /\ E1[i] = info[p[i]]
  <2> TAKE i \in 1 .. a
  <2>1. i \in 1 .. a + b
    BY <1>2
  <2> HIDE DEF a, b
  <2> QED
    BY <1>2, <1>4, <2>1 DEF Compared
<1>6. \A j \in 1 .. b : a + j \in 1 .. a + b /\ E1[a + j] = info[q[j]]
  <2> TAKE j \in 1 .. b
  <2>1. a + j \in 1 .. a + b
    BY <1>2
  <2> HIDE DEF a, b
  <2>2. E1[a + j] = E[start + (a + j)] /\ start + (a + j) \in 1 .. n
    BY <1>4, <2>1
  <2>3. E[start + (a + j)] = info[t[start + (a + j)]]
    BY <2>2 DEF Compared
  <2> QED
    BY <1>2, <2>1, <2>2, <2>3
<1>7. \A u \in 1 .. a + b : E1[u] \in S
  BY <1>4 DEF Compared
<1> HIDE DEF a, b
<1>8. ASSUME NEW u \in 1 .. a, NEW v \in 1 .. a, u < v
      PROVE  Before(E1, o1, u, v)
  <2>1. u \in 1 .. a + b /\ v \in 1 .. a + b
    BY <1>2
  <2>2. start < start + u /\ start + u < start + v /\ start + v <= start + d
    BY <1>2, <1>8
  <2>3. Before(E, o, start + u, start + v)
    <3>1. start + u \in 1 .. n /\ start + v \in 1 .. n
      BY <1>4, <2>1
    <3>2. (2 * c) * d < start + u /\ start + v <= (2 * c) * d + d
      BY <1>3, <2>2
    <3> QED
      BY <1>3, <2>2, <3>1, <3>2 DEF RunsInOrder
  <2> QED
    BY <1>4, <2>1, <2>3 DEF Before
<1>9. ASSUME NEW u \in a + 1 .. a + b, NEW v \in a + 1 .. a + b, u < v
      PROVE  Before(E1, o1, u, v)
  <2>1. u \in 1 .. a + b /\ v \in 1 .. a + b /\ a = d
    BY <1>2
  <2>2. start + d < start + u /\ start + u < start + v /\ start + v <= (start + d) + d
    BY <1>2, <1>9, <2>1
  <2>3. Before(E, o, start + u, start + v)
    <3>1. start + u \in 1 .. n /\ start + v \in 1 .. n
      BY <1>4, <2>1
    <3>2. (2 * c + 1) * d < start + u /\ start + v <= (2 * c + 1) * d + d
      BY <1>3, <2>2
    <3> QED
      BY <1>3, <2>2, <3>1, <3>2 DEF RunsInOrder
  <2> QED
    BY <1>4, <2>1, <2>3 DEF Before
<1>10. ASSUME NEW u \in 1 .. a, NEW v \in a + 1 .. a + b
       PROVE  o1[u] < o1[v]
  <2>1. u \in 1 .. a + b /\ v \in 1 .. a + b /\ a = d
    BY <1>2
  <2>2. start + u <= start + d /\ ~ (start + v <= start + d)
    BY <1>2, <2>1
  <2>3. start + u \in 1 .. n /\ start + v \in 1 .. n
    BY <1>4, <2>1
  <2>4. o[start + u] <= start + d /\ ~ (o[start + v] <= start + d)
    <3>1. (2 * c + 1) * d = start + d /\ 2 * c + 1 \in Nat
      BY <1>3
    <3>2. /\ start + u <= (2 * c + 1) * d <=> o[start + u] <= (2 * c + 1) * d
          /\ start + v <= (2 * c + 1) * d <=> o[start + v] <= (2 * c + 1) * d
      BY <2>3, <3>1 DEF RunsKept
    <3> QED
      BY <2>2, <3>1, <3>2
  <2>5. o[start + u] \in Nat /\ o[start + v] \in Nat
    BY <1>1, <2>3 DEF Compared
  <2> DEFINE y == o[start + u]
             z == o[start + v]
  <2>6. o1[u] = y /\ o1[v] = z
    BY <1>4, <2>1
  <2>7. y \in Nat /\ z \in Nat /\ y <= start + d /\ ~ (z <= start + d)
    BY <2>4, <2>5
  <2> HIDE DEF y, z
  <2>8. y < z
    BY <2>7
  <2> QED
    BY <2>6, <2>8
<1> QED
  BY <1>5, <1>6, <1>7, <1>8, <1>9, <1>10 DEF Halves, a, b, p, q, E1, o1

\* A pass leaves the runs of twice as many entries in order.
LEMMA CameOrders ==
  ASSUME NEW info, NEW t \in Seq(Cells), NEW d \in Nat \ {0}, NEW n, n = Len(t), NEW S, NEW E, NEW o,
         Compared(info, t, S, E, o),
         RunsInOrder(n, d, E, o), RunsKept(n, d, o), Orders(S),
         NEW c, NEW h \in 1 .. n, NEW k \in 1 .. n, h < k, InPair(c, d, h), InPair(c, d, k)
  PROVE  Before(E, o, Came(info, t, d, h), Came(info, t, d, k))
<1> DEFINE start == c * (2 * d)
           p == Left(t, d, start)
           q == Right(t, d, start)
           a == Len(p)
           b == Len(q)
           f == Taken(info, p, q)
           x == h - start
           z == k - start
           E1 == Behind(E, start, Len(p) + Len(q))
           o1 == Behind(o, start, Len(p) + Len(q))
<1>1. c \in Nat /\ n \in Nat /\ start \in Nat /\ start < h /\ start < k /\ k <= start + 2 * d /\ h <= start + 2 * d
  BY DEF InPair
<1>2. Came(info, t, d, h) = Place(info, t, d, start, h) /\ Came(info, t, d, k) = Place(info, t, d, start, k)
  BY CameIs
<1>3. start < n
  <2> HIDE DEF start
  <2> QED
    BY <1>1
<1>4. PairFacts(t, d, start, a, b)
  BY <1>1, <1>3, PairIs
<1>5. Halves(info, p, q, S, E1, o1)
  <2>1. BeginsAt(c, d, start)
    BY DEF BeginsAt
  <2> HIDE DEF start
  <2> QED
    BY <1>1, <1>3, <2>1, HalvesOf
<1> HIDE DEF start
<1>6. a \in Nat /\ b \in Nat /\ x \in 1 .. a + b /\ z \in 1 .. a + b /\ x < z
  <2>1. /\ a \in Nat /\ b \in Nat /\ a <= d /\ b <= d
        /\ start + a + b <= n /\ (start + 2 * d <= n => a + b = 2 * d)
        /\ (start + 2 * d > n => start + a + b = n)
    BY <1>4 DEF PairFacts
  <2> HIDE DEF a, b
  <2>2. x \in 1 .. a + b /\ z \in 1 .. a + b
    <3>1. h \in start + 1 .. start + 2 * d /\ k \in start + 1 .. start + 2 * d
      BY <1>1
    <3> QED
      BY <1>1, <2>1, <3>1, WithinPair
  <2> QED
    BY <1>1, <2>1, <2>2
<1>7. Takes(info, p, q, f)
  BY <1>6, TakenIs
<1>8. Len(p) = a /\ Len(q) = b
  OBVIOUS
<1> DEFINE u == Source(a, f, x)
           v == Source(a, f, z)
<1> HIDE DEF p, q, f, x, z, E1, o1
<1>9. Before(E1, o1, u, v)
  <2> HIDE DEF a, b
  <2> QED
    BY <1>5, <1>6, <1>7, <1>8, MergeOrder
<1>10. u \in 1 .. a + b /\ v \in 1 .. a + b
  <2> HIDE DEF a, b
  <2> QED
    BY <1>6, <1>7, <1>8, SourceIs
<1> HIDE DEF u, v
<1>11. Before(E, o, start + u, start + v)
  BY <1>9, <1>10 DEF Before, E1, o1, Behind, a, b
<1>12. Place(info, t, d, start, h) = start + u /\ Place(info, t, d, start, k) = start + v
  BY DEF Place, u, v, p, q, f, x, z
<1> QED
  BY <1>2, <1>11, <1>12 DEF start

-----------------------------------------------------------------------------
(* Sorting: all of the passes *)

\* m says where in s the entries of t were.
Moved(s, t, m) ==
  /\ m \in [1 .. Len(s) -> 1 .. Len(s)]
  /\ \A i, j \in 1 .. Len(s) : m[i] = m[j] => i = j
  /\ t = [i \in 1 .. Len(s) |-> s[m[i]]]

\* What is compared of the entries of s, in the order m.
InfoOf(info, s, m) == [i \in 1 .. Len(s) |-> info[s[m[i]]]]

\* s has been sorted up to runs of d entries.
Stage(info, s, t, d, m) ==
  /\ Moved(s, t, m) /\ RunsKept(Len(s), d, m)
  /\ Orders({info[s[i]] : i \in 1 .. Len(s)}) => RunsInOrder(Len(s), d, InfoOf(info, s, m), m)

\* A reordered list has the entries and the length it had.
LEMMA MovedIs ==
  ASSUME NEW s \in Seq(Cells), NEW t, NEW m, Moved(s, t, m)
  PROVE  /\ t \in Seq(Cells) /\ Len(t) = Len(s) /\ Len(s) \in Nat
         /\ \A i \in 1 .. Len(s) : m[i] \in 1 .. Len(s) /\ t[i] = s[m[i]]
<1>1. Len(s) \in Nat /\ m \in [1 .. Len(s) -> 1 .. Len(s)] /\ t = [i \in 1 .. Len(s) |-> s[m[i]]]
  BY DEF Moved
<1>2. t \in [1 .. Len(s) -> Cells]
  <2>1. \A i \in 1 .. Len(s) : s[m[i]] \in Cells
    BY <1>1, ElementOfSeq
  <2> QED
    BY <1>1, <2>1
<1>3. t \in Seq(Cells) /\ Len(t) = Len(s)
  BY <1>1, <1>2, MakesSeq
<1>4. \A i \in 1 .. Len(s) : m[i] \in 1 .. Len(s) /\ t[i] = s[m[i]]
  BY <1>1
<1> QED
  BY <1>1, <1>3, <1>4

\* Runs of one entry are in order.
LEMMA StageBegins ==
  ASSUME NEW info, NEW s \in Seq(Cells)
  PROVE  Stage(info, s, s, 1, [i \in 1 .. Len(s) |-> i])
<1> DEFINE m == [i \in 1 .. Len(s) |-> i]
           n == Len(s)
<1>1. n \in Nat /\ s = [i \in 1 .. n |-> s[i]]
  BY LenProperties
<1>2. Moved(s, s, m)
  BY <1>1 DEF Moved
<1>3. RunsKept(n, 1, m)
  BY DEF RunsKept
<1>4. RunsInOrder(n, 1, InfoOf(info, s, m), m)
  <2> SUFFICES ASSUME NEW c \in Nat, NEW i \in 1 .. n, NEW j \in 1 .. n, c * 1 < i, i < j, j <= c * 1 + 1
               PROVE  FALSE
    BY DEF RunsInOrder
  <2> QED
    BY <1>1
<1> QED
  BY <1>2, <1>3, <1>4 DEF Stage

\* A pass over runs in order makes runs of twice as many in order.
LEMMA StagePass ==
  ASSUME NEW info, NEW s \in Seq(Cells), NEW d \in Nat \ {0}, NEW t, NEW m, Stage(info, s, t, d, m)
  PROVE  Stage(info, s, MergePass(info, t, d), 2 * d,
               [k \in 1 .. Len(s) |-> m[Came(info, t, d, k)]])
<1> DEFINE n == Len(s)
           P(k) == Came(info, t, d, k)
           C(k) == (k - 1) \div (2 * d)
           w == [k \in 1 .. n |-> m[P(k)]]
           u == MergePass(info, t, d)
<1>1. /\ t \in Seq(Cells) /\ Len(t) = n /\ n \in Nat /\ Moved(s, t, m)
      /\ \A i \in 1 .. n : m[i] \in 1 .. n /\ t[i] = s[m[i]]
      /\ \A i, j \in 1 .. n : m[i] = m[j] => i = j
  <2>1. Moved(s, t, m)
    BY DEF Stage
  <2>2. \A i, j \in 1 .. n : m[i] = m[j] => i = j
    BY <2>1 DEF Moved
  <2> QED
    BY <2>1, <2>2, MovedIs
<1>2. \A k \in 1 .. n : k \in Nat \ {0} /\ InPair(C(k), d, k)
  <2> TAKE k \in 1 .. n
  <2>1. k \in Nat \ {0}
    BY <1>1
  <2> QED
    BY <2>1, PairOf
<1> HIDE DEF C
<1>3. \A k \in 1 .. n : P(k) \in 1 .. n /\ InPair(C(k), d, P(k)) /\ u[k] = t[P(k)]
  <2> TAKE k \in 1 .. n
  <2>1. k \in 1 .. Len(t) /\ InPair(C(k), d, k)
    BY <1>1, <1>2
  <2>2. /\ Came(info, t, d, k) \in 1 .. Len(t) /\ InPair(C(k), d, Came(info, t, d, k))
        /\ MergePass(info, t, d)[k] = t[Came(info, t, d, k)]
    <3> HIDE DEF P, u
    <3>1. t \in Seq(Cells)
      BY <1>1
    <3> QED
      BY <2>1, <3>1, CameIs
  <2>3. Len(t) = n
    BY <1>1
  <2> QED
    BY <2>2, <2>3
<1>4. \A h, k \in 1 .. n : P(h) = P(k) => h = k
  <2> SUFFICES ASSUME NEW h \in 1 .. n, NEW k \in 1 .. n, P(h) = P(k) PROVE h = k
    OBVIOUS
  <2>1. h \in 1 .. Len(t) /\ k \in 1 .. Len(t) /\ h \in Int /\ k \in Int
    BY <1>1
  <2>2. h < k => P(h) # P(k)
    BY <1>1, <2>1, CameOnce
  <2>3. k < h => P(k) # P(h)
    BY <1>1, <2>1, CameOnce
  <2> HIDE DEF P
  <2> QED
    BY <2>1, <2>2, <2>3
<1>5. u = [k \in 1 .. n |-> u[k]]
  <2>1. u = [k \in 1 .. Len(t) |->
               LET start == ((k - 1) \div (2 * d)) * (2 * d)
               IN  MergeRuns(info, Run(t, start, d), Run(t, start + d, d))[k - start]]
    BY Zenon DEF MergePass
  <2> HIDE DEF u
  <2> QED
    BY <1>1, <2>1
<1> HIDE DEF P, u
<1>6. Moved(s, u, w)
  <2>1. w \in [1 .. n -> 1 .. n] /\ \A k \in 1 .. n : w[k] = m[P(k)]
    BY <1>1, <1>3
  <2> HIDE DEF w
  <2> HIDE DEF n
  <2>2. ASSUME NEW i \in 1 .. n, NEW j \in 1 .. n, w[i] = w[j]
        PROVE  i = j
    <3>1. m[P(i)] = m[P(j)] /\ P(i) \in 1 .. n /\ P(j) \in 1 .. n
      BY <1>3, <2>1, <2>2
    <3>2. P(i) = P(j)
      BY <1>1, <3>1
    <3> QED
      BY <1>4, <3>2
  <2>3. ASSUME NEW k \in 1 .. n PROVE u[k] = s[w[k]]
    <3>1. u[k] = t[P(k)] /\ w[k] = m[P(k)] /\ P(k) \in 1 .. n
      BY <1>3, <2>1
    <3> QED
      BY <1>1, <3>1
  <2>4. u = [k \in 1 .. n |-> s[w[k]]]
    BY <1>5, <2>3
  <2> QED
    BY <2>1, <2>2, <2>4 DEF Moved, n
<1>7. RunsKept(n, 2 * d, w)
  <2> SUFFICES ASSUME NEW c \in Nat, NEW i \in 1 .. n
               PROVE  i <= c * (2 * d) <=> w[i] <= c * (2 * d)
    BY DEF RunsKept
  <2>1. w[i] = m[P(i)] /\ P(i) \in 1 .. n /\ InPair(C(i), d, i) /\ InPair(C(i), d, P(i))
    BY <1>2, <1>3
  <2>2. i <= c * (2 * d) <=> P(i) <= c * (2 * d)
    <3> DEFINE b == C(i)
               e == 2 * d
               x == P(i)
    <3>1. b \in Nat /\ e \in Nat /\ b * e < i /\ i <= b * e + e /\ b * e < x /\ x <= b * e + e /\ x \in Nat /\ i \in Nat
      BY <1>1, <2>1 DEF InPair
    <3> HIDE DEF b, e, x
    <3>2. b * e \in Nat /\ c * e \in Nat
      BY <3>1
    <3>3. b < c => b * e + e <= c * e
      BY <3>1, Multiples
    <3>4. c < b => c * e + e <= b * e
      BY <3>1, Multiples
    <3>5. b = c => b * e = c * e
      OBVIOUS
    <3> DEFINE y == b * e
               z == c * e
    <3>6. /\ y \in Nat /\ z \in Nat /\ e \in Nat /\ y < i /\ i <= y + e /\ y < x /\ x <= y + e
          /\ (b < c => y + e <= z) /\ (c < b => z + e <= y) /\ (b = c => y = z)
      BY <3>1, <3>2, <3>3, <3>4, <3>5
    <3> HIDE DEF y, z
    <3>7. i <= z <=> x <= z
      BY <3>1, <3>6
    <3> QED
      BY <3>7 DEF x, z, e
  <2>3. P(i) <= c * (2 * d) <=> m[P(i)] <= c * (2 * d)
    <3>1. RunsKept(n, d, m)
      BY DEF Stage
    <3>2. 2 * c \in Nat /\ (2 * c) * d = c * (2 * d)
      OBVIOUS
    <3>3. P(i) <= (2 * c) * d <=> m[P(i)] <= (2 * c) * d
      BY <2>1, <3>1, <3>2 DEF RunsKept
    <3> QED
      BY <3>2, <3>3
  <2> QED
    BY <2>1, <2>2, <2>3
<1>8. ASSUME Orders({info[s[i]] : i \in 1 .. n})
      PROVE  RunsInOrder(n, 2 * d, InfoOf(info, s, w), w)
  <2> DEFINE S == {info[s[i]] : i \in 1 .. n}
             E == InfoOf(info, s, m)
             F == InfoOf(info, s, w)
  <2>1. Compared(info, t, S, E, m) /\ RunsInOrder(n, d, E, m) /\ RunsKept(n, d, m)
    <3>1. RunsInOrder(n, d, E, m) /\ RunsKept(n, d, m)
      BY <1>8 DEF Stage
    <3>2. Compared(info, t, S, E, m)
      <4> SUFFICES ASSUME NEW i \in 1 .. n
                   PROVE  E[i] = info[t[i]] /\ E[i] \in S /\ m[i] \in 1 .. n
        BY <1>1 DEF Compared
      <4>1. E[i] = info[s[m[i]]]
        BY DEF InfoOf
      <4> HIDE DEF E
      <4> QED
        BY <1>1, <4>1
    <3> QED
      BY <3>1, <3>2
  <2> HIDE DEF S, E
  <2>2. SUFFICES ASSUME NEW c \in Nat, NEW i \in 1 .. n, NEW j \in 1 .. n,
                        c * (2 * d) < i, i < j, j <= c * (2 * d) + 2 * d
                 PROVE  Before(F, w, i, j)
    BY DEF RunsInOrder
  <2>3. InPair(c, d, i) /\ InPair(c, d, j)
    <3> DEFINE z == c * (2 * d)
    <3>1. z \in Nat /\ z < i /\ i < j /\ j <= z + 2 * d /\ i \in Nat /\ j \in Nat
      BY <1>1, <2>2
    <3> HIDE DEF z
    <3>2. z < j /\ i <= z + 2 * d
      BY <3>1
    <3> QED
      BY <3>1, <3>2 DEF InPair, z
  <2>4. Before(E, m, P(i), P(j))
    <3>1. n = Len(t) /\ Orders(S)
      BY <1>1, <1>8 DEF S
    <3> HIDE DEF n
    <3> QED
      BY <1>1, <2>1, <2>2, <2>3, <3>1, CameOrders DEF P
  <2>5. E[P(i)] = info[s[m[P(i)]]] /\ E[P(j)] = info[s[m[P(j)]]]
    BY <1>3 DEF E, InfoOf
  <2>6. F[i] = info[s[w[i]]] /\ F[j] = info[s[w[j]]] /\ w[i] = m[P(i)] /\ w[j] = m[P(j)]
    BY DEF InfoOf
  <2> HIDE DEF F, w
  <2> QED
    BY <2>4, <2>5, <2>6 DEF Before
<1> HIDE DEF w
<1>9. Stage(info, s, u, 2 * d, w)
  BY <1>6, <1>7, <1>8 DEF Stage
<1> QED
  BY <1>9 DEF w, u, P

\* A pass gives a list of cells.
LEMMA PassType ==
  ASSUME NEW info, NEW t \in Seq(Cells), NEW d \in Nat \ {0}
  PROVE  MergePass(info, t, d) \in Seq(Cells)
<1> DEFINE u == MergePass(info, t, d)
           n == Len(t)
<1>1. n \in Nat
  OBVIOUS
<1>2. u = [k \in 1 .. n |-> u[k]]
  <2>1. u = [k \in 1 .. Len(t) |->
               LET start == ((k - 1) \div (2 * d)) * (2 * d)
               IN  MergeRuns(info, Run(t, start, d), Run(t, start + d, d))[k - start]]
    BY Zenon DEF MergePass
  <2> HIDE DEF u
  <2> QED
    BY <2>1
<1>3. ASSUME NEW k \in 1 .. n PROVE u[k] \in Cells
  <2>1. k \in Nat \ {0}
    BY <1>1
  <2>2. InPair((k - 1) \div (2 * d), d, k)
    BY <2>1, PairOf
  <2>3. Came(info, t, d, k) \in 1 .. n /\ u[k] = t[Came(info, t, d, k)]
    BY <2>2, CameIs
  <2> HIDE DEF u
  <2> QED
    BY <2>3, ElementOfSeq
<1> HIDE DEF u
<1>4. u \in [1 .. n -> Cells]
  BY <1>2, <1>3
<1> QED
  BY <1>1, <1>4, MakesSeq DEF u

\* s has been sorted: m says where its entries were.
SortedBy(info, s, t, m) ==
  /\ Moved(s, t, m)
  /\ Orders({info[s[i]] : i \in 1 .. Len(s)}) =>
       \A i, j \in 1 .. Len(s) : i < j => Before(InfoOf(info, s, m), m, i, j)

\* One run over all of the list is the list in order.
LEMMA StageEnds ==
  ASSUME NEW info, NEW s \in Seq(Cells), NEW d \in Nat, Len(s) <= d, NEW t, NEW m, Stage(info, s, t, d, m)
  PROVE  SortedBy(info, s, t, m)
<1>1. SUFFICES ASSUME Orders({info[s[i]] : i \in 1 .. Len(s)}), NEW i \in 1 .. Len(s), NEW j \in 1 .. Len(s), i < j
               PROVE  Before(InfoOf(info, s, m), m, i, j)
  BY DEF SortedBy, Stage
<1>2. RunsInOrder(Len(s), d, InfoOf(info, s, m), m)
  BY <1>1 DEF Stage
<1>3. Len(s) \in Nat /\ 0 * d = 0
  OBVIOUS
<1>4. 0 * d < i /\ i < j /\ j <= 0 * d + d
  BY <1>1, <1>3
<1> QED
  BY <1>2, <1>4 DEF RunsInOrder

\* chula_list_sort: the passes double the runs until one is over all of the list,
\* so that it is sorted, and equal entries are in the order they had.
LEMMA SortIs ==
  ASSUME NEW info, NEW s \in Seq(Cells)
  PROVE  \E m : SortedBy(info, s, SortPasses(info, s), m)
<1> DEFINE n == Len(s)
           D == [list : Seq(Cells), insize : Nat \ {0}, done : BOOLEAN]
           first == [list |-> s, insize |-> 1, done |-> FALSE]
           Pass1(x) == IF x.done THEN x
                     ELSE [list   |-> MergePass(info, x.list, x.insize),
                           insize |-> 2 * x.insize,
                           done   |-> Len(s) <= 2 * x.insize]
           Told(f) == f = [k \in 0 .. Len(s) + 1 |-> IF k = 0 THEN first ELSE Pass1(f[k - 1])]
           pass == CHOOSE f : Told(f)
<1>1. SortPasses(info, s) = pass[n + 1].list
  BY Zenon DEF SortPasses
<1>2. n \in Nat /\ n + 1 \in Nat
  OBVIOUS
<1>3. first \in D
  OBVIOUS
<1>4. ASSUME NEW x \in D PROVE Pass1(x) \in D
  <2>1. MergePass(info, x.list, x.insize) \in Seq(Cells)
    BY PassType
  <2>2. 2 * x.insize \in Nat \ {0} /\ (n <= 2 * x.insize) \in BOOLEAN
    OBVIOUS
  <2> QED
    BY <2>1, <2>2
<1> HIDE DEF D, first, Pass1
<1>5. \E f : Told(f)
  <2> DEFINE step == [k \in 1 .. n + 1 |-> [x \in D |-> Pass1(x)]]
  <2>1. \A k \in 1 .. n + 1 : \A x \in D : step[k][x] \in D /\ step[k][x] = Pass1(x)
    BY <1>4
  <2> HIDE DEF step, n
  <2>2. \E f \in [0 .. n + 1 -> D] : Steps(f, n + 1, first, step)
    BY <1>2, <1>3, <2>1, Recursion
  <2>3. PICK f \in [0 .. n + 1 -> D] : Steps(f, n + 1, first, step)
    BY <2>2
  <2>4. ASSUME NEW k \in 0 .. n + 1
        PROVE  f[k] = IF k = 0 THEN first ELSE Pass1(f[k - 1])
    <3>1. CASE k = 0
      BY <2>3, <3>1 DEF Steps
    <3>2. CASE k # 0
      <4>1. k \in 1 .. n + 1 /\ k - 1 \in 0 .. n + 1
        BY <1>2, <3>2
      <4>2. f[k] = step[k][f[k - 1]] /\ f[k - 1] \in D
        BY <2>3, <4>1 DEF Steps
      <4> QED
        BY <2>1, <3>2, <4>1, <4>2
    <3> QED
      BY <3>1, <3>2
  <2>5. f = [k \in 0 .. n + 1 |-> f[k]]
    BY <2>3
  <2>6. Told(f)
    BY <2>4, <2>5 DEF n
  <2> HIDE DEF Told
  <2> QED
    BY <2>6
<1> HIDE DEF Told
<1>6. Told(pass)
  BY <1>5
<1> HIDE DEF pass, n
<1>7. pass[0] = first /\ \A k \in 0 .. n : pass[k + 1] = Pass1(pass[k])
  <2>1. pass = [k \in 0 .. n + 1 |-> IF k = 0 THEN first ELSE Pass1(pass[k - 1])]
    BY <1>6 DEF Told, n
  <2>2. 0 \in 0 .. n + 1
    BY <1>2
  <2>3. ASSUME NEW k \in 0 .. n PROVE pass[k + 1] = Pass1(pass[k])
    <3>1. k + 1 \in 0 .. n + 1 /\ k + 1 # 0 /\ (k + 1) - 1 = k
      BY <1>2
    <3> QED
      BY <2>1, <3>1
  <2> QED
    BY <2>1, <2>2, <2>3
<1> DEFINE Good(k) ==
             /\ pass[k] \in D
             /\ \E d \in Nat \ {0} : \E m :
                  /\ Stage(info, s, pass[k].list, d, m)
                  /\ IF pass[k].done THEN n <= d ELSE d = pass[k].insize /\ k < d
<1>8. Good(0)
  <2>1. Stage(info, s, pass[0].list, 1, [i \in 1 .. Len(s) |-> i])
    BY <1>7, StageBegins DEF first
  <2>2. ~ pass[0].done /\ pass[0].insize = 1 /\ 1 \in Nat \ {0} /\ 0 < 1
    BY <1>7 DEF first
  <2> QED
    BY <1>3, <1>7, <2>1, <2>2
<1>9. ASSUME NEW k \in 0 .. n, Good(k)
      PROVE  Good(k + 1)
  <2>1. PICK d \in Nat \ {0} : \E m :
          /\ Stage(info, s, pass[k].list, d, m)
          /\ IF pass[k].done THEN n <= d ELSE d = pass[k].insize /\ k < d
    BY <1>9
  <2>2. PICK m : /\ Stage(info, s, pass[k].list, d, m)
                 /\ IF pass[k].done THEN n <= d ELSE d = pass[k].insize /\ k < d
    BY <2>1
  <2>3. pass[k + 1] = Pass1(pass[k]) /\ pass[k] \in D /\ pass[k + 1] \in D
    BY <1>4, <1>7, <1>9
  <2>4. CASE pass[k].done
    <3>1. pass[k + 1] = pass[k]
      BY <2>3, <2>4 DEF Pass1
    <3> QED
      BY <2>2, <2>3, <2>4, <3>1
  <2>5. CASE ~ pass[k].done
    <3> DEFINE t == pass[k].list
    <3>1. /\ pass[k + 1].list = MergePass(info, t, d) /\ pass[k + 1].insize = 2 * d
          /\ pass[k + 1].done = (n <= 2 * d)
      <4>1. pass[k].insize = d
        BY <2>2, <2>5
      <4>2. pass[k + 1] = [list |-> MergePass(info, t, d), insize |-> 2 * d, done |-> Len(s) <= 2 * d]
        BY <2>3, <2>5, <4>1 DEF Pass1
      <4> QED
        BY <4>2 DEF n
    <3>2. Stage(info, s, pass[k + 1].list, 2 * d, [i \in 1 .. Len(s) |-> m[Came(info, t, d, i)]])
      <4>1. Stage(info, s, t, d, m)
        BY <2>2
      <4> HIDE DEF t
      <4>2. Stage(info, s, MergePass(info, t, d), 2 * d, [i \in 1 .. Len(s) |-> m[Came(info, t, d, i)]])
        BY <4>1, StagePass
      <4> QED
        BY <3>1, <4>2
    <3>3. 2 * d \in Nat \ {0} /\ k + 1 < 2 * d
      BY <1>2, <2>2, <2>5
    <3> QED
      BY <2>3, <3>1, <3>2, <3>3
  <2> QED
    BY <2>4, <2>5
<1>10. Good(n + 1)
  <2> DEFINE S == {k \in 0 .. n + 1 : Good(k)}
  <2> HIDE DEF Good
  <2>1. 0 \in S
    BY <1>2, <1>8
  <2>2. ASSUME NEW k \in 0 .. (n + 1) - 1, k \in S PROVE k + 1 \in S
    <3>1. Good(k) /\ k + 1 \in 0 .. n + 1 /\ k \in 0 .. n
      BY <1>2, <2>2
    <3>2. Good(k + 1)
      BY <1>9, <3>1
    <3> QED
      BY <3>1, <3>2
  <2>3. 0 .. n + 1 \subseteq S
    <3> HIDE DEF S
    <3> QED
      BY <1>2, <2>1, <2>2, UpTo
  <2>4. n + 1 \in 0 .. n + 1
    BY <1>2
  <2> QED
    BY <2>3, <2>4
<1>11. PICK d \in Nat \ {0} : \E m :
          /\ Stage(info, s, pass[n + 1].list, d, m)
          /\ IF pass[n + 1].done THEN n <= d ELSE d = pass[n + 1].insize /\ n + 1 < d
  BY <1>10
<1>12. PICK m : /\ Stage(info, s, pass[n + 1].list, d, m)
                /\ IF pass[n + 1].done THEN n <= d ELSE d = pass[n + 1].insize /\ n + 1 < d
  BY <1>11
<1>13. Len(s) <= d /\ d \in Nat
  BY <1>2, <1>12 DEF n
<1>14. SortedBy(info, s, pass[n + 1].list, m)
  BY <1>12, <1>13, StageEnds
<1> QED
  BY <1>1, <1>14

\* As many entries are in a loop as it is long.
LEMMA LoopCount ==
  ASSUME NEW head, NEW w, Loop(head, w)
  PROVE  IsFiniteSet(ToSet(w)) /\ Cardinality(ToSet(w)) = Len(w)
<1> DEFINE n == Len(w)
<1>1. n \in Nat /\ w \in [1 .. n -> Cells] /\ DOMAIN w = 1 .. n
  BY LenProperties DEF Loop
<1>2. w \in [1 .. n -> ToSet(w)] /\ \A x \in ToSet(w) : \E i \in 1 .. n : w[i] = x
  BY <1>1 DEF ToSet
<1>3. \A i, j \in 1 .. n : w[i] = w[j] => i = j
  BY DEF Loop
<1>4. w \in Bijection(1 .. n, ToSet(w))
  BY <1>2, <1>3 DEF Bijection, Injection, Surjection, IsInjective
<1>5. ExistsBijection(1 .. n, ToSet(w))
  BY <1>4 DEF ExistsBijection
<1>6. Cardinality(ToSet(w)) = n
  BY <1>1, <1>5, FS_CountingElements
<1>7. IsFiniteSet(ToSet(w))
  BY <1>1, <1>5, FS_NatBijection
<1> QED
  BY <1>6, <1>7

\* An order of the entries is an order of all of them.
LEMMA MovedOnto ==
  ASSUME NEW head, NEW w, Loop(head, w), NEW t, NEW m, Moved(w, t, m)
  PROVE  Loop(head, t) /\ ToSet(t) = ToSet(w) /\ On(head, t) = On(head, w) /\ Len(t) = Len(w)
<1> DEFINE n == Len(w)
<1>1. w \in Seq(Cells) /\ n \in Nat /\ head \in Cells /\ DOMAIN w = 1 .. n
  BY LoopType DEF Loop
<1>2. /\ t \in Seq(Cells) /\ Len(t) = n /\ DOMAIN t = 1 .. n
      /\ \A i \in 1 .. n : m[i] \in 1 .. n /\ t[i] = w[m[i]]
      /\ \A i, j \in 1 .. n : m[i] = m[j] => i = j
  <2>1. t \in Seq(Cells) /\ Len(t) = n /\ \A i \in 1 .. n : m[i] \in 1 .. n /\ t[i] = w[m[i]]
    BY <1>1, MovedIs
  <2>2. \A i, j \in 1 .. n : m[i] = m[j] => i = j
    BY DEF Moved
  <2> QED
    BY <2>1, <2>2
<1>3. \A i, j \in 1 .. n : w[i] = w[j] => i = j
  BY DEF Loop
<1>4. \A i \in 1 .. n : w[i] # head
  BY DEF Loop
<1> HIDE DEF n
<1>5. \A i \in 1 .. n : t[i] # head
  BY <1>2, <1>4
<1>6. ASSUME NEW i \in 1 .. n, NEW j \in 1 .. n, t[i] = t[j]
      PROVE  i = j
  <2>1. w[m[i]] = w[m[j]]
    BY <1>2, <1>6
  <2>2. m[i] = m[j]
    BY <1>2, <1>3, <2>1
  <2> QED
    BY <1>2, <2>2
<1>7. Loop(head, t)
  BY <1>1, <1>2, <1>5, <1>6 DEF Loop
<1>8. ToSet(t) \subseteq ToSet(w)
  BY <1>1, <1>2 DEF ToSet
<1>9. ToSet(t) = ToSet(w)
  <2>1. IsFiniteSet(ToSet(w)) /\ Cardinality(ToSet(w)) = n /\ Cardinality(ToSet(t)) = n
    BY <1>2, <1>7, LoopCount DEF n
  <2>2. ToSet(t) \in SUBSET ToSet(w)
    BY <1>8
  <2> QED
    BY <2>1, <2>2, FS_Subset
<1>10. On(head, t) = On(head, w)
  <2>1. On(head, t) = {head} \cup ToSet(t)
    BY <1>7, OnIs
  <2>2. On(head, w) = {head} \cup ToSet(w)
    BY OnIs
  <2> QED
    BY <1>9, <2>1, <2>2
<1> QED
  BY <1>2, <1>7, <1>9, <1>10 DEF n

\* The entries of a list with one more.
LEMMA AddedSet ==
  ASSUME NEW x \in Seq(Cells), NEW c \in Cells
  PROVE  ToSet(<<c>> \o x) = ToSet(x) \cup {c} /\ ToSet(Append(x, c)) = ToSet(x) \cup {c}
<1> DEFINE n == Len(x)
           a == <<c>> \o x
           b == Append(x, c)
<1>1. n \in Nat /\ DOMAIN x = 1 .. n
  OBVIOUS
<1>2. Len(a) = n + 1 /\ DOMAIN a = 1 .. n + 1 /\ \A i \in 1 .. n + 1 : a[i] = IF i = 1 THEN c ELSE x[i - 1]
  <2>1. <<c>> \in Seq(Cells) /\ Len(<<c>>) = 1 /\ <<c>>[1] = c
    OBVIOUS
  <2>2. a \in Seq(Cells) /\ Len(a) = n + 1
    BY <2>1, ConcatProperties
  <2>3. \A i \in 1 .. n + 1 : a[i] = IF i <= 1 THEN c ELSE x[i - 1]
    BY <1>1, <2>1, ConcatProperties
  <2>4. \A i \in 1 .. n + 1 : i <= 1 <=> i = 1
    BY <1>1
  <2>5. DOMAIN a = 1 .. n + 1
    BY <2>2, LenProperties
  <2> HIDE DEF a
  <2> QED
    BY <2>1, <2>2, <2>3, <2>4, <2>5
<1>3. Len(b) = n + 1 /\ DOMAIN b = 1 .. n + 1 /\ \A i \in 1 .. n + 1 : b[i] = IF i = n + 1 THEN c ELSE x[i]
  OBVIOUS
<1> HIDE DEF a, b
<1>4. ToSet(a) = ToSet(x) \cup {c}
  <2>1. \A i \in 1 .. n + 1 : i = 1 \/ i - 1 \in 1 .. n
    BY <1>1
  <2>2. ToSet(a) \subseteq ToSet(x) \cup {c}
    BY <1>1, <1>2, <2>1 DEF ToSet
  <2>3. 1 \in 1 .. n + 1 /\ \A i \in 1 .. n : i + 1 \in 1 .. n + 1 /\ i + 1 # 1 /\ (i + 1) - 1 = i
    BY <1>1
  <2>4. a[1] = c /\ \A i \in 1 .. n : a[i + 1] = x[i]
    BY <1>2, <2>3
  <2>5. ToSet(x) \cup {c} \subseteq ToSet(a)
    BY <1>1, <1>2, <2>3, <2>4 DEF ToSet
  <2> QED
    BY <2>2, <2>5
<1>5. ToSet(b) = ToSet(x) \cup {c}
  <2>1. \A i \in 1 .. n + 1 : i = n + 1 \/ i \in 1 .. n
    BY <1>1
  <2>2. ToSet(b) \subseteq ToSet(x) \cup {c}
    BY <1>1, <1>3, <2>1 DEF ToSet
  <2>3. n + 1 \in 1 .. n + 1 /\ \A i \in 1 .. n : i \in 1 .. n + 1 /\ i # n + 1
    BY <1>1
  <2>4. ToSet(x) \cup {c} \subseteq ToSet(b)
    BY <1>1, <1>3, <2>3 DEF ToSet
  <2> QED
    BY <2>2, <2>4
<1> QED
  BY <1>4, <1>5 DEF a, b

-----------------------------------------------------------------------------
(* Two rings in one memory *)

\* Two rings that share no cell.
Pair(l, g, x, h, y) ==
  IsLinks(l) /\ Ring(l, g, x) /\ Ring(l, h, y) /\ On(g, x) \cap On(h, y) = {}

\* What a call does with one ring does nothing to the other.
LEMMA OtherRing ==
  ASSUME NEW l, NEW h, NEW y, Ring(l, h, y),
         NEW k, NEW F, Same(l, k, Cells \ F), F \cap On(h, y) = {}
  PROVE  Ring(k, h, y)
<1>1. On(h, y) \subseteq Cells
  BY OnIs DEF Ring
<1>2. Same(l, k, On(h, y))
  BY <1>1 DEF Same
<1> QED
  BY <1>2, RingFrame

\* Forgetting the links of some cells leaves those of the others.
LEMMA DeadIs ==
  ASSUME NEW l, IsLinks(l), NEW S, S \subseteq Cells
  PROVE  IsLinks(Dead(l, S)) /\ Same(l, Dead(l, S), Cells \ S)
  BY DEF IsLinks, Dead, Same

\* A new cell at either end of the first ring.
LEMMA PairAdd ==
  ASSUME NEW l, NEW g, NEW x, NEW h, NEW y, Pair(l, g, x, h, y),
         NEW c \in Cells, c \notin On(g, x), c \notin On(h, y)
  PROVE  /\ Pair(ListAdd(InitHead(l, c), c, g), g, <<c>> \o x, h, y)
         /\ Pair(ListAddTail(InitHead(l, c), c, g), g, Append(x, c), h, y)
         /\ ListAddTail(InitHead(l, c), c, g).prev[g] = c
<1> DEFINE k == InitHead(l, c)
           a == ListAdd(k, c, g)
           b == ListAddTail(k, c, g)
<1>1. IsLinks(l) /\ Ring(l, g, x) /\ Ring(l, h, y) /\ On(g, x) \cap On(h, y) = {}
  BY DEF Pair
<1>2. IsLinks(k) /\ Same(l, k, Cells \ {c})
  BY <1>1, InitHeadRing
<1>3. Ring(k, g, x) /\ Ring(k, h, y)
  <2> HIDE DEF k
  <2>1. {c} \cap On(g, x) = {} /\ {c} \cap On(h, y) = {}
    OBVIOUS
  <2> QED
    BY <1>1, <1>2, <2>1, OtherRing
<1> HIDE DEF k
<1>4. IsLinks(a) /\ Ring(a, g, <<c>> \o x) /\ Same(k, a, Cells \ (On(g, x) \cup {c}))
  BY <1>2, <1>3, AddRing
<1>5. IsLinks(b) /\ Ring(b, g, Append(x, c)) /\ Same(k, b, Cells \ (On(g, x) \cup {c})) /\ b.prev[g] = c
  BY <1>2, <1>3, AddTailRing
<1> HIDE DEF a, b
<1>6. (On(g, x) \cup {c}) \cap On(h, y) = {}
  BY <1>1
<1>7. Ring(a, h, y) /\ Ring(b, h, y)
  BY <1>3, <1>4, <1>5, <1>6, OtherRing
<1>8. On(g, <<c>> \o x) = On(g, x) \cup {c} /\ On(g, Append(x, c)) = On(g, x) \cup {c}
  <2>1. Loop(g, <<c>> \o x) /\ Loop(g, Append(x, c)) /\ Loop(g, x)
    BY <1>1, <1>4, <1>5 DEF Ring
  <2>2. On(g, <<c>> \o x) = {g} \cup ToSet(<<c>> \o x) /\ On(g, Append(x, c)) = {g} \cup ToSet(Append(x, c))
        /\ On(g, x) = {g} \cup ToSet(x)
    BY <2>1, OnIs
  <2>3. x \in Seq(Cells)
    BY <2>1 DEF Loop
  <2>4. ToSet(<<c>> \o x) = ToSet(x) \cup {c} /\ ToSet(Append(x, c)) = ToSet(x) \cup {c}
    BY <2>3, AddedSet
  <2> QED
    BY <2>2, <2>4
<1>9. Pair(a, g, <<c>> \o x, h, y) /\ Pair(b, g, Append(x, c), h, y)
  BY <1>4, <1>5, <1>6, <1>7, <1>8 DEF Pair
<1> QED
  BY <1>5, <1>9 DEF a, b, k

\* The other ring stays when one has become another where the two do not meet.
LEMMA PairOnto ==
  ASSUME NEW l, NEW g, NEW x, NEW h, NEW y, Pair(l, g, x, h, y),
         NEW k, IsLinks(k), NEW e, NEW z, Ring(k, e, z),
         NEW F, Same(l, k, Cells \ F), F \cap On(h, y) = {}, On(e, z) \subseteq F,
         NEW S, S \subseteq F, S \subseteq Cells, S \cap On(e, z) = {}
  PROVE  Pair(Dead(k, S), e, z, h, y)
<1>1. Ring(l, h, y)
  BY DEF Pair
<1>2. Ring(k, h, y)
  BY <1>1, OtherRing
<1>3. IsLinks(Dead(k, S)) /\ Same(k, Dead(k, S), Cells \ S)
  BY DeadIs
<1>4. Ring(Dead(k, S), e, z)
  BY <1>3, OtherRing
<1>5. Ring(Dead(k, S), h, y)
  <2>1. S \cap On(h, y) = {}
    OBVIOUS
  <2> QED
    BY <1>2, <1>3, <2>1, OtherRing
<1>6. On(e, z) \cap On(h, y) = {}
  OBVIOUS
<1> QED
  BY <1>3, <1>4, <1>5, <1>6 DEF Pair

\* The entries of a list with one less.
LEMMA RemovedSet ==
  ASSUME NEW g, NEW x, Loop(g, x), NEW j \in 1 .. Len(x)
  PROVE  ToSet(RemoveAt(x, j)) = ToSet(x) \ {x[j]}
<1> DEFINE n == Len(x)
           r == RemoveAt(x, j)
<1>1. x \in Seq(Cells) /\ n \in Nat /\ DOMAIN x = 1 .. n /\ j \in 1 .. n
  BY LoopType, SMTT(30) DEF Loop
<1>2. r \in Seq(Cells) /\ Len(r) = n - 1 /\ \A i \in 1 .. n - 1 : r[i] = IF i < j THEN x[i] ELSE x[i + 1]
  BY <1>1, RemoveAtIs
<1>3. DOMAIN r = 1 .. n - 1
  <2> HIDE DEF r
  <2> QED
    BY <1>2, LenProperties
<1>4. \A i, k \in 1 .. n : x[i] = x[k] => i = k
  BY DEF Loop
<1> HIDE DEF r, n
<1>5. ASSUME NEW i \in 1 .. n - 1
      PROVE  r[i] \in ToSet(x) \ {x[j]}
  <2>1. i \in 1 .. n /\ i + 1 \in 1 .. n /\ (i < j => i # j) /\ (~ (i < j) => i + 1 # j)
    BY <1>1
  <2> QED
    BY <1>1, <1>2, <1>4, <2>1 DEF ToSet
<1>6. ASSUME NEW i \in 1 .. n, i # j
      PROVE  x[i] \in ToSet(r)
  <2>1. CASE i < j
    <3>1. i \in 1 .. n - 1
      BY <1>1, <2>1
    <3> QED
      BY <1>2, <1>3, <2>1, <3>1 DEF ToSet
  <2>2. CASE ~ (i < j)
    <3>1. i - 1 \in 1 .. n - 1 /\ ~ (i - 1 < j) /\ (i - 1) + 1 = i
      BY <1>1, <1>6, <2>2
    <3> QED
      BY <1>2, <1>3, <3>1 DEF ToSet
  <2> QED
    BY <2>1, <2>2
<1>7. ToSet(r) \subseteq ToSet(x) \ {x[j]}
  BY <1>3, <1>5 DEF ToSet
<1>8. ToSet(x) \ {x[j]} \subseteq ToSet(r)
  BY <1>1, <1>6 DEF ToSet
<1> QED
  BY <1>7, <1>8 DEF r

\* What a pair of rings says of the first.
LEMMA PairSays ==
  ASSUME NEW l, NEW g, NEW x, NEW h, NEW y, Pair(l, g, x, h, y)
  PROVE  /\ IsLinks(l) /\ Ring(l, g, x) /\ Loop(g, x) /\ On(g, x) = {g} \cup ToSet(x)
         /\ On(g, x) \subseteq Cells /\ On(g, x) \cap On(h, y) = {}
         /\ g \in Cells /\ x \in Seq(Cells) /\ Len(x) \in Nat /\ g \notin ToSet(x) /\ ToSet(x) \subseteq Cells
<1>1. IsLinks(l) /\ Ring(l, g, x) /\ Loop(g, x) /\ On(g, x) \cap On(h, y) = {}
  BY DEF Pair, Ring
<1>2. On(g, x) = {g} \cup ToSet(x) /\ On(g, x) \subseteq Cells
  BY <1>1, OnIs
<1>3. g \in Cells /\ x \in Seq(Cells) /\ Len(x) \in Nat /\ \A i \in 1 .. Len(x) : x[i] # g
  BY <1>1, LoopType DEF Loop
<1>4. g \notin ToSet(x)
  <2>1. DOMAIN x = 1 .. Len(x)
    BY <1>3
  <2> QED
    BY <1>3, <2>1 DEF ToSet
<1> QED
  BY <1>1, <1>2, <1>3, <1>4

\* A cell taken out of the first ring.
LEMMA PairDel ==
  ASSUME NEW l, NEW g, NEW x, NEW h, NEW y, Pair(l, g, x, h, y), NEW j \in 1 .. Len(x)
  PROVE  Pair(Dead(ListDel(l, x[j]), {x[j]}), g, RemoveAt(x, j), h, y)
<1> DEFINE k == ListDel(l, x[j])
           r == RemoveAt(x, j)
<1>1. IsLinks(l) /\ Ring(l, g, x) /\ Loop(g, x) /\ On(g, x) = {g} \cup ToSet(x)
      /\ On(g, x) \subseteq Cells /\ On(g, x) \cap On(h, y) = {} /\ g \notin ToSet(x)
  BY PairSays
<1>2. IsLinks(k) /\ Ring(k, g, r) /\ Same(l, k, Cells \ On(g, x))
  BY <1>1, DelRing
<1>3. ToSet(r) = ToSet(x) \ {x[j]} /\ x[j] \in ToSet(x)
  <2>1. x \in Seq(Cells) /\ j \in DOMAIN x
    BY <1>1 DEF Loop
  <2> QED
    BY <1>1, <2>1, RemovedSet DEF ToSet
<1> HIDE DEF k, r
<1>4. On(g, r) = {g} \cup ToSet(r)
  <2>1. Loop(g, r)
    BY <1>2 DEF Ring
  <2> QED
    BY <2>1, OnIs
<1>5. On(g, r) \subseteq On(g, x) /\ {x[j]} \cap On(g, r) = {} /\ {x[j]} \subseteq On(g, x) /\ {x[j]} \subseteq Cells
  BY <1>1, <1>3, <1>4
<1>6. Pair(Dead(k, {x[j]}), g, r, h, y)
  BY <1>1, <1>2, <1>5, PairOnto
<1> QED
  BY <1>6 DEF k, r

\* All of the cells taken out of the first ring.
LEMMA PairClear ==
  ASSUME NEW l, NEW g, NEW x, NEW h, NEW y, Pair(l, g, x, h, y),
         NEW k, IsLinks(k), Same(l, k, Cells \ On(g, x))
  PROVE  Pair(Dead(InitHead(k, g), ToSet(x)), g, <<>>, h, y)
<1> DEFINE e == InitHead(k, g)
<1>1. On(g, x) = {g} \cup ToSet(x) /\ On(g, x) \subseteq Cells /\ On(g, x) \cap On(h, y) = {}
      /\ g \in Cells /\ g \notin ToSet(x) /\ ToSet(x) \subseteq Cells
  BY PairSays
<1>2. IsLinks(e) /\ Ring(e, g, <<>>) /\ Same(k, e, Cells \ {g})
  BY <1>1, InitHeadRing
<1> HIDE DEF e
<1>3. Same(l, e, Cells \ On(g, x))
  BY <1>1, <1>2 DEF Same
<1>4. On(g, <<>>) = {g}
  <2>1. Loop(g, <<>>)
    BY <1>2 DEF Ring
  <2>2. ToSet(<<>>) = {}
    BY DEF ToSet
  <2> QED
    BY <2>1, <2>2, OnIs
<1>5. On(g, <<>>) \subseteq On(g, x) /\ ToSet(x) \cap On(g, <<>>) = {} /\ ToSet(x) \subseteq On(g, x)
  BY <1>1, <1>4
<1>6. Pair(Dead(e, ToSet(x)), g, <<>>, h, y)
  BY <1>1, <1>2, <1>3, <1>5, PairOnto
<1> QED
  BY <1>6 DEF e

\* The first ring in another order, made with the help of a head of its own.
LEMMA PairMoved ==
  ASSUME NEW l, NEW g, NEW x, NEW h, NEW y, Pair(l, g, x, h, y),
         Local \notin On(g, x), Local \notin On(h, y),
         NEW t, NEW m, Moved(x, t, m),
         NEW k, IsLinks(k), Ring(k, g, t), Same(l, k, Cells \ (On(g, x) \cup {Local}))
  PROVE  Pair(Dead(k, {Local}), g, t, h, y) /\ ToSet(t) = ToSet(x)
<1>1. Loop(g, x) /\ On(g, x) \cap On(h, y) = {} /\ Local \in Cells
  BY PairSays, CellsAssumption
<1>2. On(g, t) = On(g, x) /\ ToSet(t) = ToSet(x)
  BY <1>1, MovedOnto
<1>3. On(g, t) \subseteq On(g, x) \cup {Local} /\ {Local} \cap On(g, t) = {} /\ {Local} \subseteq Cells
      /\ {Local} \subseteq On(g, x) \cup {Local} /\ (On(g, x) \cup {Local}) \cap On(h, y) = {}
  BY <1>1, <1>2
<1> QED
  BY <1>2, <1>3, PairOnto

\* A list turned around is another order of it.
LEMMA ReverseMoved ==
  ASSUME NEW x \in Seq(Cells)
  PROVE  Moved(x, Reverse(x), [i \in 1 .. Len(x) |-> Len(x) + 1 - i])
<1> DEFINE n == Len(x)
           m == [i \in 1 .. n |-> n + 1 - i]
<1>1. n \in Nat
  OBVIOUS
<1>2. m \in [1 .. n -> 1 .. n] /\ \A i, j \in 1 .. n : m[i] = m[j] => i = j
  BY <1>1
<1>3. Reverse(x) = [i \in 1 .. n |-> x[m[i]]]
  <2>1. \A i \in 1 .. n : (n - i) + 1 = n + 1 - i
    BY <1>1
  <2> QED
    BY <2>1 DEF Reverse
<1> QED
  BY <1>2, <1>3 DEF Moved

\* The first ring turned around.
LEMMA PairInvert ==
  ASSUME NEW l, NEW g, NEW x, NEW h, NEW y, Pair(l, g, x, h, y),
         Local \notin On(g, x), Local \notin On(h, y)
  PROVE  Pair(Dead(Invert(l, g), {Local}), g, Reverse(x), h, y) /\ ToSet(Reverse(x)) = ToSet(x)
<1> DEFINE t == Reverse(x)
           k == Invert(l, g)
<1>1. IsLinks(l) /\ Ring(l, g, x) /\ x \in Seq(Cells)
  BY PairSays
<1>2. IsLinks(k) /\ Ring(k, g, t) /\ Same(l, k, Cells \ (On(g, x) \cup {Local}))
  BY <1>1, InvertRing
<1>3. PICK m : Moved(x, t, m)
  BY <1>1, ReverseMoved
<1> HIDE DEF t, k
<1>4. Pair(Dead(k, {Local}), g, t, h, y) /\ ToSet(t) = ToSet(x)
  BY <1>2, <1>3, PairMoved
<1> QED
  BY <1>4 DEF t, k

\* The first ring sorted.
LEMMA PairSort ==
  ASSUME NEW l, NEW g, NEW x, NEW h, NEW y, Pair(l, g, x, h, y), NEW info,
         Local \notin On(g, x), Local \notin On(h, y)
  PROVE  /\ Pair(Dead(Sort(l, g, info), {Local}), g, SortPasses(info, x), h, y)
         /\ ToSet(SortPasses(info, x)) = ToSet(x)
<1> DEFINE t == SortPasses(info, x)
<1>1. IsLinks(l) /\ Ring(l, g, x) /\ x \in Seq(Cells) /\ Loop(g, x)
  BY PairSays
<1>2. PICK m : SortedBy(info, x, t, m)
  BY <1>1, SortIs
<1> HIDE DEF t
<1>3. Moved(x, t, m)
  BY <1>2 DEF SortedBy
<1>4. Loop(g, t) /\ On(g, t) = On(g, x)
  BY <1>1, <1>3, MovedOnto
<1>5. Walk(l, g) = x
  BY <1>1, WalkIs
<1>6. Sort(l, g, info) = Linked(l, g, t)
  BY <1>5 DEF Sort, t
<1>7. IsLinks(Linked(l, g, t)) /\ Ring(Linked(l, g, t), g, t) /\ Same(l, Linked(l, g, t), Cells \ On(g, t))
  BY <1>1, <1>4, LinkedRing
<1>8. Same(l, Linked(l, g, t), Cells \ (On(g, x) \cup {Local}))
  BY <1>4, <1>7 DEF Same
<1>9. Pair(Dead(Linked(l, g, t), {Local}), g, t, h, y) /\ ToSet(t) = ToSet(x)
  BY <1>3, <1>7, <1>8, PairMoved
<1> QED
  BY <1>6, <1>9 DEF t

\* The first ring given to another head.
LEMMA PairMove ==
  ASSUME NEW l, NEW g, NEW x, NEW h, NEW y, Pair(l, g, x, h, y),
         NEW e \in Cells, e \notin On(g, x), e \notin On(h, y)
  PROVE  Pair(Dead(Reparent(InitHead(l, e), g, e), {g}), e, x, h, y)
<1> DEFINE i == InitHead(l, e)
           k == Reparent(i, g, e)
<1>1. IsLinks(l) /\ Ring(l, g, x) /\ Loop(g, x) /\ On(g, x) = {g} \cup ToSet(x)
      /\ On(g, x) \subseteq Cells /\ On(g, x) \cap On(h, y) = {} /\ x \in Seq(Cells) /\ Len(x) \in Nat
      /\ g \in Cells /\ g \notin ToSet(x)
  BY PairSays
<1>2. IsLinks(i) /\ Ring(i, e, <<>>) /\ Same(l, i, Cells \ {e})
  BY <1>1, InitHeadRing
<1> HIDE DEF i
<1>3. Ring(i, g, x)
  <2>1. {e} \cap On(g, x) = {}
    OBVIOUS
  <2> QED
    BY <1>1, <1>2, <2>1, OtherRing
<1>4. IsLinks(k) /\ Ring(k, e, x) /\ Same(i, k, Cells \ (On(g, x) \cup {e}))
  <2>1. CASE Len(x) # 0
    BY <1>2, <1>3, <2>1, ReparentRing
  <2>2. CASE Len(x) = 0
    <3>1. x = <<>>
      BY <1>1, <2>2
    <3>2. i.next[g] = g
      <4>1. 0 \in 0 .. Len(x) /\ Stop(g, x, 0) = g /\ Stop(g, x, 0 + 1) = g
        BY <2>2 DEF Stop
      <4> QED
        BY <1>3, <4>1 DEF Ring
    <3>3. k = i
      BY <3>2 DEF Reparent, IsEmpty
    <3> QED
      BY <1>2, <3>1, <3>3 DEF Same
  <2> QED
    BY <2>1, <2>2
<1> HIDE DEF k
<1>5. Same(l, k, Cells \ (On(g, x) \cup {e}))
  BY <1>2, <1>4 DEF Same
<1>6. On(e, x) = {e} \cup ToSet(x)
  <2>1. Loop(e, x)
    BY <1>4 DEF Ring
  <2> QED
    BY <2>1, OnIs
<1>7. (On(g, x) \cup {e}) \cap On(h, y) = {} /\ On(e, x) \subseteq On(g, x) \cup {e}
      /\ {g} \subseteq On(g, x) \cup {e} /\ {g} \subseteq Cells /\ {g} \cap On(e, x) = {}
  BY <1>1, <1>6
<1>8. Pair(Dead(k, {g}), e, x, h, y)
  BY <1>4, <1>5, <1>7, PairOnto
<1> QED
  BY <1>8 DEF k, i

\* A pair of rings, the other way.
LEMMA PairTurned ==
  ASSUME NEW l, NEW g, NEW x, NEW h, NEW y, Pair(l, g, x, h, y)
  PROVE  Pair(l, h, y, g, x)
  BY DEF Pair

-----------------------------------------------------------------------------
(* The store: w are the cells of the headers, v those of the items. *)

\* The two lists in the links l, with what the blocks b carry; h is the head of
\* the items.
Holds(l, b, h, w, v) ==
  /\ Pair(l, Headers, w, h, v)
  /\ ToSet(w) \cap Heads = {} /\ ToSet(v) \cap Heads = {}
  /\ DOMAIN b = ToSet(w) \cup ToSet(v)
  /\ \A c \in ToSet(v) : b[c] \in Items

\* The blocks with one more.
With(b, c, f) == [x \in DOMAIN b \cup {c} |-> IF x = c THEN f ELSE b[x]]

\* The blocks without some.
Without(b, S) == [c \in DOMAIN b \ S |-> b[c]]

\* What two lists in one memory say of each other.
LEMMA HoldsSays ==
  ASSUME NEW l, NEW b, NEW h \in Homes, NEW w, NEW v, Holds(l, b, h, w, v)
  PROVE  /\ Pair(l, Headers, w, h, v) /\ Pair(l, h, v, Headers, w)
         /\ Walk(l, Headers) = w /\ Walk(l, h) = v
         /\ w \in Seq(Cells) /\ v \in Seq(Cells)
         /\ ToSet(w) \subseteq Cells /\ ToSet(v) \subseteq Cells /\ ToSet(w) \cap ToSet(v) = {}
         /\ On(Headers, w) = {Headers} \cup ToSet(w) /\ On(h, v) = {h} \cup ToSet(v)
         /\ Local \notin On(Headers, w) /\ Local \notin On(h, v)
         /\ Loop(Headers, w) /\ Loop(h, v)
<1>1. Pair(l, Headers, w, h, v) /\ Pair(l, h, v, Headers, w)
  BY PairTurned DEF Holds
<1>2. /\ IsLinks(l) /\ Ring(l, Headers, w) /\ Loop(Headers, w) /\ w \in Seq(Cells) /\ ToSet(w) \subseteq Cells
      /\ On(Headers, w) = {Headers} \cup ToSet(w) /\ On(Headers, w) \cap On(h, v) = {}
  BY <1>1, PairSays
<1>3. /\ Ring(l, h, v) /\ Loop(h, v) /\ v \in Seq(Cells) /\ ToSet(v) \subseteq Cells
      /\ On(h, v) = {h} \cup ToSet(v)
  BY <1>1, PairSays
<1>4. Walk(l, Headers) = w /\ Walk(l, h) = v
  BY <1>2, <1>3, WalkIs
<1>5. Local \in Heads /\ Local # Headers /\ Local # h
  BY HeadsAssumption DEF Heads
<1>6. Local \notin On(Headers, w) /\ Local \notin On(h, v)
  BY <1>2, <1>3, <1>5 DEF Holds
<1> QED
  BY <1>1, <1>2, <1>3, <1>4, <1>6

\* A cell that is not allocated is on neither list.
LEMMA HoldsNew ==
  ASSUME NEW l, NEW b, NEW h \in Homes, NEW w, NEW v, Holds(l, b, h, w, v),
         NEW c \in (Cells \ Heads) \ DOMAIN b
  PROVE  c \in Cells /\ c \notin On(Headers, w) /\ c \notin On(h, v)
<1>1. c \notin ToSet(w) /\ c \notin ToSet(v)
  BY DEF Holds
<1>2. On(Headers, w) = {Headers} \cup ToSet(w) /\ On(h, v) = {h} \cup ToSet(v)
  <2>1. Pair(l, Headers, w, h, v) /\ Pair(l, h, v, Headers, w)
    BY PairTurned DEF Holds
  <2> QED
    BY <2>1, PairSays
<1>3. c # Headers /\ c # h
  BY DEF Heads
<1> QED
  BY <1>1, <1>2, <1>3

\* A header more.
LEMMA HoldsAddHeader ==
  ASSUME NEW l, NEW b, NEW h \in Homes, NEW w, NEW v, Holds(l, b, h, w, v),
         NEW c \in (Cells \ Heads) \ DOMAIN b, NEW f
  PROVE  /\ Holds(ListAddTail(InitHead(l, c), c, Headers), With(b, c, f), h, Append(w, c), v)
         /\ ListAddTail(InitHead(l, c), c, Headers).prev[Headers] = c
<1> DEFINE k == ListAddTail(InitHead(l, c), c, Headers)
           z == Append(w, c)
           e == With(b, c, f)
<1>1. Pair(k, Headers, z, h, v) /\ k.prev[Headers] = c
  <2>1. Pair(l, Headers, w, h, v)
    BY DEF Holds
  <2>2. c \in Cells /\ c \notin On(Headers, w) /\ c \notin On(h, v)
    BY HoldsNew
  <2> QED
    BY <2>1, <2>2, PairAdd, ZenonT(40)
<1>2. ToSet(z) = ToSet(w) \cup {c}
  BY HoldsSays, AddedSet
<1>3. DOMAIN e = DOMAIN b \cup {c} /\ \A x \in DOMAIN b : e[x] = b[x]
  BY DEF With
<1> HIDE DEF k, z, e
<1>4. Holds(k, e, h, z, v)
  BY <1>1, <1>2, <1>3 DEF Holds
<1> QED
  BY <1>1, <1>4 DEF k, z, e

\* An item more, at either end.
LEMMA HoldsPush ==
  ASSUME NEW l, NEW b, NEW h \in Homes, NEW w, NEW v, Holds(l, b, h, w, v),
         NEW c \in (Cells \ Heads) \ DOMAIN b, NEW f \in Items
  PROVE  /\ Holds(ListAdd(InitHead(l, c), c, h), With(b, c, f), h, w, <<c>> \o v)
         /\ Holds(ListAddTail(InitHead(l, c), c, h), With(b, c, f), h, w, Append(v, c))
<1> DEFINE j == ListAdd(InitHead(l, c), c, h)
           k == ListAddTail(InitHead(l, c), c, h)
           y == <<c>> \o v
           z == Append(v, c)
           e == With(b, c, f)
<1>1. Pair(j, h, y, Headers, w) /\ Pair(k, h, z, Headers, w)
  <2>1. Pair(l, h, v, Headers, w)
    BY PairTurned DEF Holds
  <2>2. c \in Cells /\ c \notin On(Headers, w) /\ c \notin On(h, v)
    BY HoldsNew
  <2> QED
    BY <2>1, <2>2, PairAdd
<1>2. ToSet(y) = ToSet(v) \cup {c} /\ ToSet(z) = ToSet(v) \cup {c}
  BY HoldsSays, AddedSet
<1>3. DOMAIN e = DOMAIN b \cup {c} /\ e[c] = f /\ \A x \in DOMAIN b : e[x] = b[x]
  BY DEF With
<1> HIDE DEF j, k, y, z, e
<1>4. Pair(j, Headers, w, h, y) /\ Pair(k, Headers, w, h, z)
  BY <1>1, PairTurned
<1>5. Holds(j, e, h, w, y) /\ Holds(k, e, h, w, z)
  BY <1>2, <1>3, <1>4 DEF Holds
<1> QED
  BY <1>5 DEF j, k, y, z, e

\* All of the headers gone.
LEMMA HoldsClearHeaders ==
  ASSUME NEW l, NEW b, NEW h \in Homes, NEW w, NEW v, Holds(l, b, h, w, v)
  PROVE  Holds(Dead(InitHead(l, Headers), ToSet(w)), Without(b, ToSet(w)), h, <<>>, v)
<1> DEFINE k == Dead(InitHead(l, Headers), ToSet(w))
           e == Without(b, ToSet(w))
<1>1. IsLinks(l) /\ Pair(l, Headers, w, h, v) /\ ToSet(w) \cap ToSet(v) = {}
  BY HoldsSays, PairSays
<1>2. Same(l, l, Cells \ On(Headers, w))
  BY DEF Same
<1>3. Pair(k, Headers, <<>>, h, v)
  BY <1>1, <1>2, PairClear
<1>4. DOMAIN e = DOMAIN b \ ToSet(w) /\ \A x \in DOMAIN e : e[x] = b[x]
  BY DEF Without
<1>5. ToSet(<<>>) = {}
  BY DEF ToSet
<1> HIDE DEF k, e
<1>6. Holds(k, e, h, <<>>, v)
  BY <1>1, <1>3, <1>4, <1>5 DEF Holds
<1> QED
  BY <1>6 DEF k, e

\* All of the items gone.
LEMMA HoldsClearItems ==
  ASSUME NEW l, NEW b, NEW h \in Homes, NEW w, NEW v, Holds(l, b, h, w, v),
         NEW k, IsLinks(k), Same(l, k, Cells \ On(h, v))
  PROVE  Holds(Dead(InitHead(k, h), ToSet(v)), Without(b, ToSet(v)), h, w, <<>>)
<1> DEFINE j == Dead(InitHead(k, h), ToSet(v))
           e == Without(b, ToSet(v))
<1>1. Pair(l, h, v, Headers, w) /\ ToSet(w) \cap ToSet(v) = {}
  BY HoldsSays
<1>2. Pair(j, h, <<>>, Headers, w)
  BY <1>1, PairClear
<1>3. DOMAIN e = DOMAIN b \ ToSet(v)
  BY DEF Without
<1>4. ToSet(<<>>) = {}
  BY DEF ToSet
<1> HIDE DEF j, e
<1>5. Pair(j, Headers, w, h, <<>>)
  BY <1>2, PairTurned
<1>6. Holds(j, e, h, w, <<>>)
  BY <1>1, <1>3, <1>4, <1>5 DEF Holds
<1> QED
  BY <1>6 DEF j, e

\* One item gone.
LEMMA HoldsDrop ==
  ASSUME NEW l, NEW b, NEW h \in Homes, NEW w, NEW v, Holds(l, b, h, w, v), NEW j \in 1 .. Len(v)
  PROVE  Holds(Dead(ListDel(l, v[j]), {v[j]}), Without(b, {v[j]}), h, w, RemoveAt(v, j))
<1> DEFINE k == Dead(ListDel(l, v[j]), {v[j]})
           e == Without(b, {v[j]})
           z == RemoveAt(v, j)
<1>1. Pair(l, h, v, Headers, w) /\ ToSet(w) \cap ToSet(v) = {} /\ Loop(h, v) /\ v \in Seq(Cells)
  BY HoldsSays
<1>2. Pair(k, h, z, Headers, w)
  BY <1>1, PairDel
<1>3. DOMAIN e = DOMAIN b \ {v[j]} /\ \A x \in DOMAIN e : e[x] = b[x]
  BY DEF Without
<1>4. ToSet(z) = ToSet(v) \ {v[j]} /\ v[j] \in ToSet(v)
  <2>1. j \in DOMAIN v
    BY <1>1
  <2> QED
    BY <1>1, <2>1, RemovedSet DEF ToSet
<1> HIDE DEF k, e, z
<1>5. Pair(k, Headers, w, h, z)
  BY <1>2, PairTurned
<1>6. Holds(k, e, h, w, z)
  BY <1>1, <1>3, <1>4, <1>5 DEF Holds
<1> QED
  BY <1>6 DEF k, e, z

\* The items turned around.
LEMMA HoldsInvert ==
  ASSUME NEW l, NEW b, NEW h \in Homes, NEW w, NEW v, Holds(l, b, h, w, v)
  PROVE  Holds(Dead(Invert(l, h), {Local}), b, h, w, Reverse(v))
<1> DEFINE k == Dead(Invert(l, h), {Local})
           z == Reverse(v)
<1>1. Pair(k, h, z, Headers, w) /\ ToSet(z) = ToSet(v)
  <2>1. Pair(l, h, v, Headers, w) /\ Local \notin On(Headers, w) /\ Local \notin On(h, v)
    BY HoldsSays
  <2> QED
    BY <2>1, PairInvert
<1> HIDE DEF k, z
<1>2. Holds(k, b, h, w, z)
  BY <1>1, PairTurned DEF Holds
<1> QED
  BY <1>2 DEF k, z

\* The items sorted.
LEMMA HoldsSort ==
  ASSUME NEW l, NEW b, NEW h \in Homes, NEW w, NEW v, Holds(l, b, h, w, v)
  PROVE  Holds(Dead(Sort(l, h, b), {Local}), b, h, w, SortPasses(b, v))
<1> DEFINE k == Dead(Sort(l, h, b), {Local})
           z == SortPasses(b, v)
<1>1. Pair(k, h, z, Headers, w) /\ ToSet(z) = ToSet(v)
  <2>1. Pair(l, h, v, Headers, w) /\ Local \notin On(Headers, w) /\ Local \notin On(h, v)
    BY HoldsSays
  <2> QED
    BY <2>1, PairSort
<1> HIDE DEF k, z
<1>2. Holds(k, b, h, w, z)
  BY <1>1, PairTurned DEF Holds
<1> QED
  BY <1>2 DEF k, z

\* The items at another head.
LEMMA HoldsMove ==
  ASSUME NEW l, NEW b, NEW h \in Homes, NEW w, NEW v, Holds(l, b, h, w, v), NEW e \in Homes, e # h
  PROVE  Holds(Dead(Reparent(InitHead(l, e), h, e), {h}), b, e, w, v)
<1> DEFINE k == Dead(Reparent(InitHead(l, e), h, e), {h})
<1>1. e \in Cells /\ e # Headers /\ e \in Heads
  BY HeadsAssumption DEF Heads
<1>2. e \notin On(h, v) /\ e \notin On(Headers, w)
  <2>1. On(Headers, w) = {Headers} \cup ToSet(w) /\ On(h, v) = {h} \cup ToSet(v)
    <3>1. Pair(l, Headers, w, h, v) /\ Pair(l, h, v, Headers, w)
      BY PairTurned DEF Holds
    <3> QED
      BY <3>1, PairSays
  <2> QED
    BY <1>1, <2>1 DEF Holds
<1>3. Pair(k, e, v, Headers, w)
  BY <1>1, <1>2, HoldsSays, PairMove
<1> HIDE DEF k
<1>4. Holds(k, b, e, w, v)
  BY <1>3, PairTurned DEF Holds
<1> QED
  BY <1>4 DEF k

\* Who is on a ring is led to others on it, and back.
LEMMA RingRound ==
  ASSUME NEW l, NEW g, NEW x, Ring(l, g, x), NEW c \in On(g, x)
  PROVE  /\ l.next[c] \in On(g, x) /\ l.prev[c] \in On(g, x)
         /\ l.prev[l.next[c]] = c /\ l.next[l.prev[c]] = c
<1> DEFINE n == Len(x)
           At(i) == Stop(g, x, i)
<1>1. Loop(g, x)
  BY DEF Ring
<1>2. n \in Nat /\ \A i \in Int : At(i) \in On(g, x)
  BY <1>1, LoopType, OnIs
<1>3. \A i \in 0 .. n : l.next[At(i)] = At(i + 1) /\ l.prev[At(i + 1)] = At(i)
  BY DEF Ring
<1>4. PICK i \in 0 .. n : c = At(i)
  BY DEF On
<1>5. At(0) = At(n + 1)
  BY <1>2 DEF Stop
<1> HIDE DEF At, n
<1>6. l.next[c] = At(i + 1) /\ l.prev[At(i + 1)] = c /\ i + 1 \in Int
  BY <1>2, <1>3, <1>4
<1>7. \E j \in 0 .. n : c = At(j + 1)
  <2>1. CASE i = 0
    <3>1. n \in 0 .. n /\ c = At(n + 1)
      BY <1>2, <1>4, <1>5, <2>1
    <3> QED
      BY <3>1
  <2>2. CASE i # 0
    <3>1. i - 1 \in 0 .. n /\ (i - 1) + 1 = i
      BY <1>2, <2>2
    <3>2. c = At((i - 1) + 1)
      BY <1>4, <3>1
    <3> QED
      BY <3>1, <3>2
  <2> QED
    BY <2>1, <2>2
<1>8. PICK j \in 0 .. n : c = At(j + 1)
  BY <1>7
<1>9. l.prev[c] = At(j) /\ l.next[At(j)] = c /\ j \in Int
  BY <1>2, <1>3, <1>8
<1> QED
  BY <1>2, <1>6, <1>9

-----------------------------------------------------------------------------
(* Counting *)

\* The buffers of the fields of some cells that have memory.
BuffersOf(b, S) == {p \in S \X {"name", "value"} : b[p[1]][p[2]] # <<>>}

\* A block that is there counts for one.
One(there) == IF there THEN 1 ELSE 0

\* Finitely many cells have finitely many buffers.
LEMMA BuffersFinite ==
  ASSUME NEW b, NEW S, IsFiniteSet(S)
  PROVE  IsFiniteSet(BuffersOf(b, S)) /\ Cardinality(BuffersOf(b, S)) \in Nat
<1>1. IsFiniteSet({"name", "value"})
  <2>1. IsFiniteSet({"name"})
    BY FS_Singleton
  <2>2. IsFiniteSet({"name"} \cup {"value"})
    BY <2>1, FS_AddElement
  <2>3. {"name"} \cup {"value"} = {"name", "value"}
    OBVIOUS
  <2> QED
    BY <2>2, <2>3
<1>2. IsFiniteSet(S \X {"name", "value"})
  BY <1>1, FS_Product
<1>3. BuffersOf(b, S) \in SUBSET (S \X {"name", "value"})
  BY DEF BuffersOf
<1>4. IsFiniteSet(BuffersOf(b, S))
  BY <1>2, <1>3, FS_Subset
<1> QED
  BY <1>4, FS_CardinalityType

\* One cell more has its own two buffers, as far as they have memory.
LEMMA BuffersAdd ==
  ASSUME NEW b, NEW e, NEW S, IsFiniteSet(S), NEW c, c \notin S, \A x \in S : e[x] = b[x]
  PROVE  Cardinality(BuffersOf(e, S \cup {c})) =
           Cardinality(BuffersOf(b, S)) + One(e[c].name # <<>>) + One(e[c].value # <<>>)
<1> DEFINE B == BuffersOf(b, S)
           n == <<c, "name">>
           v == <<c, "value">>
           C == IF e[c].name # <<>> THEN B \cup {n} ELSE B
           D == IF e[c].value # <<>> THEN C \cup {v} ELSE C
<1>1. IsFiniteSet(B) /\ Cardinality(B) \in Nat /\ n \notin B /\ v \notin B /\ n # v
  <2>1. n \notin B /\ v \notin B /\ n # v
    BY DEF BuffersOf
  <2> QED
    BY <2>1, BuffersFinite
<1>2. BuffersOf(e, S \cup {c}) = D
  <2>1. ASSUME NEW p \in BuffersOf(e, S \cup {c}) PROVE p \in D
    <3>1. p \in (S \cup {c}) \X {"name", "value"} /\ e[p[1]][p[2]] # <<>>
      BY DEF BuffersOf
    <3>2. CASE p[1] \in S
      BY <3>1, <3>2 DEF BuffersOf
    <3>3. CASE p[1] = c
      <4>1. p = n \/ p = v
        BY <3>1, <3>3
      <4> QED
        BY <3>1, <4>1
    <3> QED
      BY <3>1, <3>2, <3>3
  <2>2. ASSUME NEW p \in D PROVE p \in BuffersOf(e, S \cup {c})
    <3>1. CASE p \in B
      BY <3>1 DEF BuffersOf
    <3>2. CASE p = n /\ e[c].name # <<>>
      BY <3>2 DEF BuffersOf
    <3>3. CASE p = v /\ e[c].value # <<>>
      BY <3>3 DEF BuffersOf
    <3> QED
      BY <3>1, <3>2, <3>3
  <2> HIDE DEF D
  <2> QED
    BY <2>1, <2>2
<1> HIDE DEF B, n, v
<1>3. IsFiniteSet(C) /\ v \notin C /\ Cardinality(C) = Cardinality(B) + One(e[c].name # <<>>)
  BY <1>1, FS_AddElement DEF One
<1>4. Cardinality(D) = Cardinality(C) + One(e[c].value # <<>>)
  <2>1. Cardinality(C) \in Nat
    BY <1>3, FS_CardinalityType
  <2> HIDE DEF C
  <2>2. CASE e[c].value # <<>>
    <3>1. D = C \cup {v} /\ One(e[c].value # <<>>) = 1
      BY <2>2 DEF One
    <3> HIDE DEF D
    <3>2. Cardinality(C \cup {v}) = Cardinality(C) + 1
      BY <1>3, FS_AddElement
    <3> QED
      BY <3>1, <3>2
  <2>3. CASE ~ (e[c].value # <<>>)
    BY <2>1, <2>3 DEF One
  <2> QED
    BY <2>2, <2>3
<1> HIDE DEF C, D
<1>5. Cardinality(BuffersOf(e, S \cup {c})) = Cardinality(B) + One(e[c].name # <<>>) + One(e[c].value # <<>>)
  BY <1>2, <1>3, <1>4
<1> QED
  BY <1>5 DEF B

\* The buffers depend on what these cells carry, and on nothing else.
LEMMA BuffersSame ==
  ASSUME NEW b, NEW e, NEW S, \A x \in S : e[x] = b[x]
  PROVE  BuffersOf(e, S) = BuffersOf(b, S)
  BY DEF BuffersOf

-----------------------------------------------------------------------------
(* Policies *)

\* What a policy that counts has, and one that refuses.
Counters == [n_malloc : Nat, n_realloc : Nat, n_free : Nat]

Schedule(a, r) == [counter : Nat, fail_after : {a}, recover_after : {r}]

\* A policy is of one kind and stays so.
PolicyOK ==
  /\ frozen \in BOOLEAN
  /\ \/ policy \in Counters /\ frozen = FALSE
     \/ \E a, r : policy \in Schedule(a, r)

\* The one counts and the other does not.
LEMMA KindOfPolicy ==
  /\ \A p \in Counters : Counts(p)
  /\ \A a, r : \A p \in Schedule(a, r) : ~ Counts(p)
  BY DEF Counters, Schedule, Counts

\* A call is counted once, under its own name, and none is refused.
LEMMA CountersCalled ==
  ASSUME NEW p \in Counters, frozen = FALSE
  PROVE  /\ Called(p, frozen, "n_malloc") = [p EXCEPT !.n_malloc = @ + 1]
         /\ Called(p, frozen, "n_realloc") = [p EXCEPT !.n_realloc = @ + 1]
         /\ Called(p, frozen, "n_free") = [p EXCEPT !.n_free = @ + 1]
         /\ ~ Refused(p, frozen)
         /\ \A f \in {"n_malloc", "n_realloc", "n_free"} : Called(p, frozen, f) \in Counters
<1>1. Counts(p)
  BY KindOfPolicy
<1>2. /\ Called(p, frozen, "n_malloc") = [p EXCEPT !.n_malloc = @ + 1]
      /\ Called(p, frozen, "n_realloc") = [p EXCEPT !.n_realloc = @ + 1]
      /\ Called(p, frozen, "n_free") = [p EXCEPT !.n_free = @ + 1]
  BY <1>1 DEF Called
<1> QED
  BY <1>1, <1>2 DEF Refused, Counters

\* A policy that refuses only counts up.
LEMMA ScheduleCalled ==
  ASSUME NEW a, NEW r, NEW p \in Schedule(a, r), frozen \in BOOLEAN, NEW f
  PROVE  /\ Called(p, frozen, f) \in Schedule(a, r)
         /\ p.counter \in Nat /\ Called(p, frozen, f).counter \in Nat
         /\ p.counter <= Called(p, frozen, f).counter
<1>1. ~ Counts(p)
  BY KindOfPolicy
<1>2. MaxCalls \in Nat
  BY MaxCallsAssumption
<1>3. p = [counter |-> p.counter, fail_after |-> a, recover_after |-> r] /\ p.counter \in Nat
  BY DEF Schedule
<1>4. Called(p, frozen, f) = IF frozen THEN p ELSE [p EXCEPT !.counter = IF @ < MaxCalls THEN @ + 1 ELSE @]
  BY <1>1 DEF Called
<1>5. CASE frozen
  BY <1>3, <1>4, <1>5
<1>6. CASE ~ frozen
  BY <1>2, <1>3, <1>4, <1>6 DEF Schedule
<1> QED
  BY <1>5, <1>6

\* An entry that is freed is as many calls as it has blocks.
LEMMA EntryFreeCounts ==
  ASSUME NEW p \in Counters, frozen = FALSE, NEW e
  PROVE  /\ EntryFree(p, e) \in Counters
         /\ EntryFree(p, e).n_malloc = p.n_malloc /\ EntryFree(p, e).n_realloc = p.n_realloc
         /\ EntryFree(p, e).n_free = p.n_free + One(e.name # <<>>) + One(e.value # <<>>) + 1
<1> DEFINE F(q, there) == Freed(q, frozen, there)
<1>1. ASSUME NEW q \in Counters, NEW there \in BOOLEAN
      PROVE  /\ F(q, there) \in Counters
             /\ F(q, there).n_malloc = q.n_malloc /\ F(q, there).n_realloc = q.n_realloc
             /\ F(q, there).n_free = q.n_free + One(there)
  <2>1. Called(q, frozen, "n_free") = [q EXCEPT !.n_free = @ + 1]
    BY CountersCalled
  <2> QED
    BY <2>1 DEF Freed, One, Counters
<1> DEFINE q1 == F(p, e.name # <<>>)
           q2 == F(q1, e.value # <<>>)
           q3 == F(q2, TRUE)
<1>2. EntryFree(p, e) = q3
  BY DEF EntryFree
<1> HIDE DEF F
<1>3. /\ q1 \in Counters /\ q1.n_malloc = p.n_malloc /\ q1.n_realloc = p.n_realloc
      /\ q1.n_free = p.n_free + One(e.name # <<>>)
  BY <1>1
<1> HIDE DEF q1
<1>4. /\ q2 \in Counters /\ q2.n_malloc = p.n_malloc /\ q2.n_realloc = p.n_realloc
      /\ q2.n_free = q1.n_free + One(e.value # <<>>)
  BY <1>1, <1>3
<1> HIDE DEF q2
<1>5. /\ q3 \in Counters /\ q3.n_malloc = p.n_malloc /\ q3.n_realloc = p.n_realloc
      /\ q3.n_free = q2.n_free + 1
  BY <1>1, <1>4 DEF One
<1> HIDE DEF q3
<1>6. q3.n_free = p.n_free + One(e.name # <<>>) + One(e.value # <<>>) + 1
  BY <1>3, <1>4, <1>5
<1> QED
  BY <1>2, <1>5, <1>6

\* The same for a policy that refuses.
LEMMA EntryFreeSchedule ==
  ASSUME NEW a, NEW r, NEW p \in Schedule(a, r), frozen \in BOOLEAN, NEW e
  PROVE  EntryFree(p, e) \in Schedule(a, r)
<1>1. \A q \in Schedule(a, r) : \A there : Freed(q, frozen, there) \in Schedule(a, r)
  BY ScheduleCalled DEF Freed
<1> QED
  BY <1>1 DEF EntryFree

-----------------------------------------------------------------------------
(* Freeing all of a list *)

\* What chula_list_for_each comes by while it frees the entries of the store.
LEMMA MrproperIs ==
  ASSUME NEW D, policy \in D, \A p \in D : \A e : EntryFree(p, e) \in D,
         NEW w \in Seq(Cells), Walk(links, Headers) = w, StoreMrproper
  PROVE  \E f \in [0 .. Len(w) -> D] :
           /\ f[0] = policy /\ policy' = f[Len(w)]
           /\ \A k \in 1 .. Len(w) : f[k] = EntryFree(f[k - 1], blocks[w[k]])
<1> DEFINE n == Len(w)
           Told(f) == f = [k \in 0 .. Len(w) |->
                             IF k = 0 THEN policy ELSE EntryFree(f[k - 1], blocks[w[k]])]
           after == CHOOSE f : Told(f)
<1>1. policy' = after[n]
  BY Zenon DEF StoreMrproper
<1>2. n \in Nat
  OBVIOUS
<1>3. PICK f \in [0 .. n -> D] : f[0] = policy /\ \A k \in 1 .. n : f[k] = EntryFree(f[k - 1], blocks[w[k]])
  <2> DEFINE step == [k \in 1 .. n |-> [x \in D |-> EntryFree(x, blocks[w[k]])]]
  <2>1. \A k \in 1 .. n : \A x \in D : step[k][x] \in D /\ step[k][x] = EntryFree(x, blocks[w[k]])
    OBVIOUS
  <2> HIDE DEF step, n
  <2>2. PICK f \in [0 .. n -> D] : Steps(f, n, policy, step)
    BY <1>2, <2>1, Recursion
  <2>3. ASSUME NEW k \in 1 .. n PROVE f[k] = EntryFree(f[k - 1], blocks[w[k]])
    <3>1. k - 1 \in 0 .. n
      BY <1>2
    <3>2. f[k] = step[k][f[k - 1]] /\ f[k - 1] \in D
      BY <2>2, <3>1 DEF Steps
    <3> QED
      BY <2>1, <3>2
  <2> QED
    BY <2>2, <2>3 DEF Steps
<1>4. Told(f)
  <2> HIDE DEF n
  <2>1. \A k \in 0 .. n : f[k] = IF k = 0 THEN policy ELSE EntryFree(f[k - 1], blocks[w[k]])
    <3>1. \A k \in 0 .. n : k = 0 \/ k \in 1 .. n
      BY <1>2
    <3> QED
      BY <1>3, <3>1
  <2>2. f = [k \in 0 .. n |-> f[k]]
    BY <1>3
  <2> QED
    BY <2>1, <2>2 DEF n
<1> HIDE DEF Told
<1>5. Told(after)
  BY <1>4
<1> HIDE DEF after
<1>6. after = [k \in 0 .. n |-> after[k]] /\ after[0] = policy
      /\ \A k \in 1 .. n : after[k] = EntryFree(after[k - 1], blocks[w[k]])
  <2>1. after = [k \in 0 .. n |-> IF k = 0 THEN policy ELSE EntryFree(after[k - 1], blocks[w[k]])]
    BY <1>5 DEF Told
  <2> HIDE DEF n
  <2>2. 0 \in 0 .. n /\ \A k \in 1 .. n : k \in 0 .. n /\ k # 0
    BY <1>2
  <2> QED
    BY <2>1, <2>2
<1> HIDE DEF n
<1>7. \A k \in 0 .. n : after[k] \in D
  <2> DEFINE S == {k \in 0 .. n : after[k] \in D}
  <2>1. 0 \in S
    BY <1>2, <1>6
  <2>2. ASSUME NEW k \in 0 .. n - 1, k \in S PROVE k + 1 \in S
    <3>1. k + 1 \in 1 .. n /\ k + 1 \in 0 .. n /\ (k + 1) - 1 = k
      BY <1>2
    <3>2. after[k + 1] = EntryFree(after[k], blocks[w[k + 1]])
      BY <1>6, <3>1
    <3> QED
      BY <2>2, <3>1, <3>2
  <2> HIDE DEF S
  <2>3. 0 .. n \subseteq S
    BY <1>2, <2>1, <2>2, UpTo
  <2> QED
    BY <2>3 DEF S
<1>8. after \in [0 .. n -> D]
  BY <1>6, <1>7
<1> QED
  BY <1>1, <1>6, <1>8 DEF n

\* The policy and the links on the way through the items.
FreesItems(v, p, l) ==
  /\ p[0] = policy /\ policy' = p[Len(v)]
  /\ \A k \in 1 .. Len(v) : p[k] = Freed(p[k - 1], frozen, TRUE)
  /\ l[0] = links /\ links' = Dead(InitHead(l[Len(v)], home), ToSet(v))
  /\ \A k \in 1 .. Len(v) : l[k] = ListDel(l[k - 1], v[k])

\* And while it frees the items.
LEMMA ContentFreeIs ==
  ASSUME NEW D, policy \in D, \A p \in D : Freed(p, frozen, TRUE) \in D,
         NEW v, Loop(home, v), IsLinks(links), Walk(links, home) = v, ContentFree
  PROVE  \E p \in [0 .. Len(v) -> D] : \E l : FreesItems(v, p, l)
<1> DEFINE n == Len(v)
           Told(f) == f = [k \in 0 .. Len(v) |->
                             IF k = 0 THEN [links |-> links, policy |-> policy]
                             ELSE [links  |-> ListDel(f[k - 1].links, v[k]),
                                   policy |-> Freed(f[k - 1].policy, frozen, TRUE)]]
           after == CHOOSE f : Told(f)
           All == [next : [Cells -> Cells], prev : [Cells -> Cells]]
           Both == [links : All, policy : D]
<1>1. policy' = after[n].policy /\ links' = Dead(InitHead(after[n].links, home), ToSet(v))
  BY Zenon DEF ContentFree
<1>2. n \in Nat /\ \A k \in 1 .. n : v[k] \in Cells
  BY LoopType
<1> DEFINE Next1(x, k) == [links |-> ListDel(x.links, v[k]), policy |-> Freed(x.policy, frozen, TRUE)]
<1>3. ASSUME NEW x \in Both, NEW k \in 1 .. n PROVE Next1(x, k) \in Both
  <2>1. ListDel(x.links, v[k]) \in All
    <3> DEFINE c == v[k]
               l == x.links
    <3>1. c \in Cells /\ l \in All
      BY <1>2
    <3> HIDE DEF c, l
    <3>2. ListDel(l, c) \in All
      BY <3>1 DEF ListDel
    <3> QED
      BY <3>2 DEF c, l
  <2> QED
    BY <2>1
<1>4. PICK f \in [0 .. n -> Both] : f[0] = [links |-> links, policy |-> policy]
                                    /\ \A k \in 1 .. n : f[k] = Next1(f[k - 1], k)
  <2> DEFINE step == [k \in 1 .. n |-> [x \in Both |-> Next1(x, k)]]
             first == [links |-> links, policy |-> policy]
  <2>1. first \in Both
    BY DEF IsLinks
  <2> HIDE DEF Next1, Both
  <2>2. \A k \in 1 .. n : \A x \in Both : step[k][x] \in Both /\ step[k][x] = Next1(x, k)
    BY <1>3
  <2> HIDE DEF step, n, first
  <2>3. PICK f \in [0 .. n -> Both] : Steps(f, n, first, step)
    BY <1>2, <2>1, <2>2, Recursion
  <2>4. ASSUME NEW k \in 1 .. n PROVE f[k] = Next1(f[k - 1], k)
    <3>1. k - 1 \in 0 .. n
      BY <1>2
    <3>2. f[k] = step[k][f[k - 1]] /\ f[k - 1] \in Both
      BY <2>3, <3>1 DEF Steps
    <3> QED
      BY <2>2, <3>2
  <2> QED
    BY <2>3, <2>4 DEF Steps, first
<1>5. Told(f)
  <2> HIDE DEF n, Both
  <2>1. \A k \in 0 .. n : k = 0 \/ k \in 1 .. n
    BY <1>2
  <2>2. f = [k \in 0 .. n |-> f[k]]
    BY <1>4
  <2>3. \A k \in 0 .. n : f[k] = IF k = 0 THEN [links |-> links, policy |-> policy] ELSE Next1(f[k - 1], k)
    <3> HIDE DEF Next1
    <3> QED
      BY <1>4, <2>1
  <2> QED
    BY <2>2, <2>3 DEF n
<1> HIDE DEF Told
<1>6. Told(after)
  BY <1>5
<1> HIDE DEF after
<1>7. after[0] = [links |-> links, policy |-> policy] /\ \A k \in 1 .. n : after[k] = Next1(after[k - 1], k)
  <2>1. after = [k \in 0 .. n |-> IF k = 0 THEN [links |-> links, policy |-> policy]
                                  ELSE [links  |-> ListDel(after[k - 1].links, v[k]),
                                        policy |-> Freed(after[k - 1].policy, frozen, TRUE)]]
    BY <1>6 DEF Told
  <2> HIDE DEF n
  <2>2. 0 \in 0 .. n /\ \A k \in 1 .. n : k \in 0 .. n /\ k # 0
    BY <1>2
  <2> QED
    BY <2>1, <2>2
<1> HIDE DEF n
<1> DEFINE p == [k \in 0 .. n |-> after[k].policy]
           l == [k \in 0 .. n |-> after[k].links]
<1>8. ASSUME NEW k \in 1 .. n
      PROVE  p[k] = Freed(p[k - 1], frozen, TRUE) /\ l[k] = ListDel(l[k - 1], v[k])
  <2>1. k \in 0 .. n /\ k - 1 \in 0 .. n
    BY <1>2
  <2>2. p[k] = after[k].policy /\ p[k - 1] = after[k - 1].policy /\ l[k] = after[k].links /\ l[k - 1] = after[k - 1].links
    BY <2>1
  <2>3. after[k].policy = Freed(after[k - 1].policy, frozen, TRUE) /\ after[k].links = ListDel(after[k - 1].links, v[k])
    <3> DEFINE q == after[k - 1].policy
               j == after[k - 1].links
    <3>1. after[k] = [links |-> ListDel(j, v[k]), policy |-> Freed(q, frozen, TRUE)]
      BY <1>7
    <3> HIDE DEF q, j
    <3>2. after[k].policy = Freed(q, frozen, TRUE) /\ after[k].links = ListDel(j, v[k])
      BY <3>1
    <3> QED
      BY <3>2 DEF q, j
  <2> HIDE DEF p, l
  <2> QED
    BY <2>2, <2>3
<1>9. p[0] = policy /\ l[0] = links /\ p[n] = after[n].policy /\ l[n] = after[n].links
  <2>1. 0 \in 0 .. n /\ n \in 0 .. n
    BY <1>2
  <2> QED
    BY <1>7, <2>1
<1>10. p \in [0 .. n -> D]
  <2>1. DOMAIN p = 0 .. n /\ p = [k \in 0 .. n |-> p[k]]
    OBVIOUS
  <2> DEFINE S == {k \in 0 .. n : p[k] \in D}
  <2> HIDE DEF p
  <2>2. 0 \in S
    BY <1>2, <1>9
  <2>3. ASSUME NEW k \in 0 .. n - 1, k \in S PROVE k + 1 \in S
    <3>1. k + 1 \in 1 .. n /\ k + 1 \in 0 .. n /\ (k + 1) - 1 = k
      BY <1>2
    <3>2. p[k + 1] = Freed(p[k], frozen, TRUE)
      BY <1>8, <3>1
    <3> QED
      BY <2>3, <3>1, <3>2
  <2> HIDE DEF S
  <2>4. 0 .. n \subseteq S
    BY <1>2, <2>2, <2>3, UpTo
  <2>5. \A k \in 0 .. n : p[k] \in D
    BY <2>4 DEF S
  <2> QED
    BY <2>1, <2>5
<1> HIDE DEF p, l
<1>11. policy' = p[n] /\ links' = Dead(InitHead(l[n], home), ToSet(v))
  BY <1>1, <1>9 DEF n
<1>12. p \in [0 .. Len(v) -> D]
  BY <1>10 DEF n
<1>13. /\ p[0] = policy /\ policy' = p[Len(v)]
       /\ \A k \in 1 .. Len(v) : p[k] = Freed(p[k - 1], frozen, TRUE)
       /\ l[0] = links /\ links' = Dead(InitHead(l[Len(v)], home), ToSet(v))
       /\ \A k \in 1 .. Len(v) : l[k] = ListDel(l[k - 1], v[k])
  BY <1>8, <1>9, <1>11 DEF n
<1> WITNESS p \in [0 .. Len(v) -> D]
<1> WITNESS l
<1> QED
  BY <1>13 DEF FreesItems

\* What follows the first k.
Rest(v, k) == [i \in 1 .. Len(v) - k |-> v[k + i]]

\* What is left of the items when the first k have gone.
LEMMA RestIs ==
  ASSUME NEW v \in Seq(Cells), NEW k \in 0 .. Len(v)
  PROVE  /\ Rest(v, k) \in Seq(Cells) /\ Len(Rest(v, k)) = Len(v) - k /\ Rest(v, 0) = v
         /\ ToSet(Rest(v, k)) \subseteq ToSet(v)
         /\ k < Len(v) => Rest(v, k)[1] = v[k + 1] /\ RemoveAt(Rest(v, k), 1) = Rest(v, k + 1)
<1> DEFINE n == Len(v)
           r == Rest(v, k)
<1>1. n \in Nat /\ k \in 0 .. n /\ v \in [1 .. n -> Cells] /\ DOMAIN v = 1 .. n
  OBVIOUS
<1>2. \A j \in 0 .. n : Rest(v, j) \in Seq(Cells) /\ Len(Rest(v, j)) = n - j
                        /\ \A i \in 1 .. n - j : Rest(v, j)[i] = v[j + i]
  <2>1. SUFFICES ASSUME NEW j \in 0 .. n
                 PROVE  Rest(v, j) \in Seq(Cells) /\ Len(Rest(v, j)) = n - j
                        /\ \A i \in 1 .. n - j : Rest(v, j)[i] = v[j + i]
    OBVIOUS
  <2>2. n - j \in Nat /\ \A i \in 1 .. n - j : j + i \in 1 .. n
    BY <1>1
  <2>3. \A i \in 1 .. n - j : v[j + i] \in Cells
    BY <1>1, <2>2
  <2>4. Rest(v, j) = [i \in 1 .. n - j |-> v[j + i]]
    BY DEF Rest
  <2> HIDE DEF n
  <2>5. Rest(v, j) \in [1 .. n - j -> Cells] /\ \A i \in 1 .. n - j : Rest(v, j)[i] = v[j + i]
    BY <2>3, <2>4
  <2>6. Rest(v, j) \in [1 .. n - j -> Cells] /\ n - j \in Nat
    BY <2>2, <2>5
  <2>7. Rest(v, j) \in Seq(Cells) /\ Len(Rest(v, j)) = n - j
    BY <2>6, MakesSeq
  <2> QED
    BY <2>5, <2>7
<1>3. r \in Seq(Cells) /\ Len(r) = n - k /\ \A i \in 1 .. n - k : r[i] = v[k + i]
  BY <1>1, <1>2, Zenon
<1>4. Rest(v, 0) = v
  <2>1. Rest(v, 0) = [i \in 1 .. n |-> v[i]]
    BY <1>1 DEF Rest
  <2> QED
    BY <1>1, <2>1
<1>5. ToSet(r) \subseteq ToSet(v)
  <2>1. DOMAIN r = 1 .. n - k
    BY <1>3, LenProperties
  <2>2. \A i \in 1 .. n - k : k + i \in 1 .. n
    BY <1>1
  <2> QED
    BY <1>1, <1>3, <2>1, <2>2 DEF ToSet
<1>6. ASSUME k < n
      PROVE  r[1] = v[k + 1] /\ RemoveAt(r, 1) = Rest(v, k + 1)
  <2> DEFINE a == RemoveAt(r, 1)
             b == Rest(v, k + 1)
  <2>1. 1 \in 1 .. n - k /\ k + 1 \in 0 .. n /\ (n - k) - 1 = n - (k + 1)
    BY <1>1, <1>6
  <2>2. r[1] = v[k + 1]
    BY <1>3, <2>1
  <2> HIDE DEF r, n
  <2>3. a \in Seq(Cells) /\ Len(a) = n - (k + 1) /\ \A i \in 1 .. (n - k) - 1 : a[i] = IF i < 1 THEN r[i] ELSE r[i + 1]
    BY <1>3, <2>1, RemoveAtIs
  <2>4. b \in Seq(Cells) /\ Len(b) = n - (k + 1) /\ \A i \in 1 .. n - (k + 1) : b[i] = v[(k + 1) + i]
    BY <1>2, <2>1
  <2> HIDE DEF a, b
  <2>5. ASSUME NEW i \in 1 .. n - (k + 1) PROVE a[i] = b[i]
    <3>1. i \in 1 .. (n - k) - 1 /\ ~ (i < 1) /\ i + 1 \in 1 .. n - k /\ k + (i + 1) = (k + 1) + i
      BY <1>1, <2>1
    <3>2. a[i] = r[i + 1]
      BY <2>3, <3>1
    <3>3. r[i + 1] = v[k + (i + 1)]
      BY <1>3, <3>1
    <3>4. b[i] = v[(k + 1) + i]
      BY <2>4
    <3> QED
      BY <3>1, <3>2, <3>3, <3>4
  <2>6. a = b
    BY <2>3, <2>4, <2>5, SeqEqual
  <2> QED
    BY <2>2, <2>6 DEF a, b
<1> QED
  BY <1>3, <1>4, <1>5, <1>6

\* All of a ring taken out, one by one from the front.
LEMMA DelAll ==
  ASSUME NEW m, NEW h, NEW v, IsLinks(m), Ring(m, h, v),
         NEW l, l[0] = m, \A k \in 1 .. Len(v) : l[k] = ListDel(l[k - 1], v[k])
  PROVE  IsLinks(l[Len(v)]) /\ Same(m, l[Len(v)], Cells \ On(h, v))
<1> DEFINE n == Len(v)
           Good(k) == IsLinks(l[k]) /\ Ring(l[k], h, Rest(v, k)) /\ Same(m, l[k], Cells \ On(h, v))
           S == {k \in 0 .. n : Good(k)}
<1>1. Loop(h, v) /\ v \in Seq(Cells) /\ n \in Nat /\ On(h, v) = {h} \cup ToSet(v)
  <2>1. Loop(h, v)
    BY DEF Ring
  <2> QED
    BY <2>1, LoopType, OnIs DEF Loop
<1>2. 0 \in S
  <2>1. Rest(v, 0) = v /\ 0 \in 0 .. n
    BY <1>1, RestIs
  <2>2. Good(0)
    BY <2>1 DEF Same
  <2> QED
    BY <2>1, <2>2
<1>3. ASSUME NEW k \in 0 .. n - 1, k \in S PROVE k + 1 \in S
  <2> DEFINE r == Rest(v, k)
             j == l[k]
             e == l[k + 1]
  <2>1. Good(k) /\ k \in 0 .. n /\ k + 1 \in 0 .. n /\ k + 1 \in 1 .. n /\ (k + 1) - 1 = k /\ k < n
    BY <1>1, <1>3
  <2>2. e = ListDel(j, v[k + 1])
    <3>1. l[k + 1] = ListDel(l[(k + 1) - 1], v[k + 1])
      BY <2>1
    <3> QED
      BY <2>1, <3>1
  <2>3. r[1] = v[k + 1] /\ RemoveAt(r, 1) = Rest(v, k + 1) /\ ToSet(r) \subseteq ToSet(v)
    BY <1>1, <2>1, RestIs
  <2>4. 1 \in 1 .. Len(r)
    <3>1. Len(r) = n - k
      BY <1>1, <2>1, RestIs
    <3> HIDE DEF r, n
    <3> QED
      BY <1>1, <2>1, <3>1
  <2>5. IsLinks(j) /\ Ring(j, h, r) /\ Same(m, j, Cells \ On(h, v))
    BY <2>1
  <2> HIDE DEF r, j, e
  <2>6. IsLinks(e) /\ Ring(e, h, Rest(v, k + 1)) /\ Same(j, e, Cells \ On(h, r))
    <3>1. IsLinks(ListDel(j, r[1])) /\ Ring(ListDel(j, r[1]), h, RemoveAt(r, 1))
          /\ Same(j, ListDel(j, r[1]), Cells \ On(h, r))
      BY <2>4, <2>5, DelRing
    <3> QED
      BY <2>2, <2>3, <3>1
  <2>7. On(h, r) \subseteq On(h, v)
    <3>1. On(h, r) = {h} \cup ToSet(r)
      BY <2>5, OnIs DEF Ring
    <3> QED
      BY <1>1, <2>3, <3>1
  <2>8. Same(m, e, Cells \ On(h, v))
    BY <2>5, <2>6, <2>7 DEF Same
  <2> QED
    BY <2>1, <2>6, <2>8 DEF e
<1>4. n \in S
  <2> HIDE DEF S, n
  <2>1. 0 .. n \subseteq S
    BY <1>1, <1>2, <1>3, UpTo
  <2> QED
    BY <1>1, <2>1
<1> QED
  BY <1>4

\* As many calls to free as there are items.
LEMMA FreeAll ==
  ASSUME NEW n \in Nat, policy \in Counters, frozen = FALSE,
         NEW p \in [0 .. n -> Counters], p[0] = policy,
         \A k \in 1 .. n : p[k] = Freed(p[k - 1], frozen, TRUE)
  PROVE  /\ p[n].n_malloc = policy.n_malloc /\ p[n].n_realloc = policy.n_realloc
         /\ p[n].n_free = policy.n_free + n
<1> DEFINE Good(k) == /\ p[k].n_malloc = policy.n_malloc /\ p[k].n_realloc = policy.n_realloc
                      /\ p[k].n_free = policy.n_free + k
           S == {k \in 0 .. n : Good(k)}
<1>1. policy.n_free \in Nat
  BY DEF Counters
<1>2. 0 \in S
  BY <1>1
<1>3. ASSUME NEW k \in 0 .. n - 1, k \in S PROVE k + 1 \in S
  <2> DEFINE q == p[k]
             r == p[k + 1]
  <2>1. Good(k) /\ k \in 0 .. n /\ k + 1 \in 0 .. n /\ k + 1 \in 1 .. n /\ (k + 1) - 1 = k /\ q \in Counters
    BY <1>3
  <2>2. r = Freed(q, frozen, TRUE)
    <3>1. p[k + 1] = Freed(p[(k + 1) - 1], frozen, TRUE)
      BY <2>1
    <3> QED
      BY <2>1, <3>1
  <2>3. q.n_malloc = policy.n_malloc /\ q.n_realloc = policy.n_realloc /\ q.n_free = policy.n_free + k
    BY <2>1
  <2> HIDE DEF q, r
  <2>4. r = [q EXCEPT !.n_free = @ + 1]
    BY <2>1, <2>2, CountersCalled DEF Freed
  <2>5. r.n_malloc = q.n_malloc /\ r.n_realloc = q.n_realloc /\ r.n_free = q.n_free + 1
    BY <2>1, <2>4 DEF Counters
  <2>6. r.n_free = policy.n_free + (k + 1)
    BY <1>1, <2>1, <2>3, <2>5
  <2>7. Good(k + 1)
    BY <2>3, <2>5, <2>6 DEF r
  <2> QED
    BY <2>1, <2>7
<1>4. n \in S
  <2> HIDE DEF S
  <2>1. 0 .. n \subseteq S
    BY <1>2, <1>3, UpTo
  <2> QED
    BY <2>1
<1> QED
  BY <1>4

\* The first k of the headers.
Firsts(w, k) == {w[i] : i \in 1 .. k}

\* As many calls to free as the entries of the store have blocks.
LEMMA FreeEntries ==
  ASSUME NEW w, Loop(Headers, w), policy \in Counters, frozen = FALSE,
         NEW f \in [0 .. Len(w) -> Counters], f[0] = policy,
         \A k \in 1 .. Len(w) : f[k] = EntryFree(f[k - 1], blocks[w[k]])
  PROVE  LET n == Len(w)
         IN  /\ f[n].n_malloc = policy.n_malloc /\ f[n].n_realloc = policy.n_realloc
             /\ f[n].n_free = policy.n_free + n + Cardinality(BuffersOf(blocks, ToSet(w)))
<1> DEFINE n == Len(w)
           B(k) == Cardinality(BuffersOf(blocks, Firsts(w, k)))
           Good(k) == /\ f[k].n_malloc = policy.n_malloc /\ f[k].n_realloc = policy.n_realloc
                      /\ f[k].n_free = policy.n_free + k + B(k)
           S == {k \in 0 .. n : Good(k)}
<1>1. /\ n \in Nat /\ DOMAIN w = 1 .. n /\ \A i \in 1 .. n : w[i] \in Cells
      /\ \A i, j \in 1 .. n : w[i] = w[j] => i = j
  BY LoopType DEF Loop
<1>2. policy.n_free \in Nat /\ IsFiniteSet(Cells)
  BY CellsAssumption DEF Counters
<1>3. Firsts(w, 0) = {} /\ Firsts(w, n) = ToSet(w)
  BY <1>1 DEF Firsts, ToSet
<1>4. \A k \in 0 .. n : IsFiniteSet(Firsts(w, k)) /\ B(k) \in Nat
  <2>1. SUFFICES ASSUME NEW k \in 0 .. n PROVE IsFiniteSet(Firsts(w, k)) /\ B(k) \in Nat
    OBVIOUS
  <2>2. Firsts(w, k) \in SUBSET Cells
    <3>1. \A i \in 1 .. k : i \in 1 .. n
      BY <1>1
    <3> QED
      BY <1>1, <3>1 DEF Firsts
  <2>3. IsFiniteSet(Firsts(w, k))
    BY <1>2, <2>2, FS_Subset
  <2> QED
    BY <2>3, BuffersFinite
<1>5. B(0) = 0
  <2>1. BuffersOf(blocks, {}) = {}
    BY DEF BuffersOf
  <2> QED
    BY <1>3, <2>1, FS_EmptySet
<1>6. ASSUME NEW k \in 0 .. n - 1
      PROVE  B(k + 1) = B(k) + One(blocks[w[k + 1]].name # <<>>) + One(blocks[w[k + 1]].value # <<>>)
  <2> DEFINE c == w[k + 1]
             F == Firsts(w, k)
  <2>1. k \in 0 .. n /\ k + 1 \in 1 .. n /\ \A i \in 1 .. k + 1 : i \in 1 .. k \/ i = k + 1
    BY <1>1
  <2>2. Firsts(w, k + 1) = F \cup {c}
    <3>1. Firsts(w, k + 1) \subseteq F \cup {c}
      BY <2>1 DEF Firsts
    <3>2. k + 1 \in 1 .. k + 1 /\ \A i \in 1 .. k : i \in 1 .. k + 1
      BY <2>1
    <3>3. F \cup {c} \subseteq Firsts(w, k + 1)
      BY <3>2 DEF Firsts
    <3> QED
      BY <3>1, <3>3
  <2>3. c \notin F
    <3>1. \A i \in 1 .. k : i \in 1 .. n /\ i # k + 1
      BY <1>1, <2>1
    <3> QED
      BY <1>1, <2>1, <3>1 DEF Firsts
  <2>4. IsFiniteSet(F)
    BY <1>4, <2>1
  <2> HIDE DEF c, F
  <2>5. Cardinality(BuffersOf(blocks, F \cup {c})) =
          Cardinality(BuffersOf(blocks, F)) + One(blocks[c].name # <<>>) + One(blocks[c].value # <<>>)
    BY <2>3, <2>4, BuffersAdd
  <2> QED
    BY <2>2, <2>5 DEF c, F
<1> HIDE DEF B
<1>7. 0 \in S
  BY <1>1, <1>2, <1>5
<1>8. ASSUME NEW k \in 0 .. n - 1, k \in S PROVE k + 1 \in S
  <2> DEFINE q == f[k]
             r == f[k + 1]
             e == blocks[w[k + 1]]
  <2>1. Good(k) /\ k \in 0 .. n /\ k + 1 \in 0 .. n /\ k + 1 \in 1 .. n /\ (k + 1) - 1 = k /\ q \in Counters
    BY <1>1, <1>8
  <2>2. r = EntryFree(q, e)
    <3>1. f[k + 1] = EntryFree(f[(k + 1) - 1], blocks[w[k + 1]])
      BY <2>1
    <3> QED
      BY <2>1, <3>1
  <2>3. q.n_malloc = policy.n_malloc /\ q.n_realloc = policy.n_realloc /\ q.n_free = policy.n_free + k + B(k)
    BY <2>1
  <2>4. B(k + 1) = B(k) + One(e.name # <<>>) + One(e.value # <<>>) /\ B(k) \in Nat
    BY <1>4, <1>6, <2>1
  <2> HIDE DEF q, r, e
  <2>5. r.n_malloc = q.n_malloc /\ r.n_realloc = q.n_realloc
        /\ r.n_free = q.n_free + One(e.name # <<>>) + One(e.value # <<>>) + 1
    BY <2>1, <2>2, EntryFreeCounts
  <2>6. One(e.name # <<>>) \in Nat /\ One(e.value # <<>>) \in Nat
    BY DEF One
  <2>7. r.n_free = policy.n_free + (k + 1) + B(k + 1)
    <3> DEFINE x == One(e.name # <<>>)
               y == One(e.value # <<>>)
               a == B(k)
               p == policy.n_free
    <3> HIDE DEF x, y, a, p
    <3>1. r.n_free = q.n_free + x + y + 1 /\ B(k + 1) = a + x + y
      BY <2>4, <2>5 DEF x, y, a
    <3>2. x \in Nat /\ y \in Nat /\ a \in Nat /\ p \in Nat /\ k \in Nat
      BY <1>1, <1>2, <2>4, <2>6 DEF x, y, a, p
    <3>3. q.n_free = p + k + a
      BY <2>3 DEF a, p
    <3>4. p + k + a + x + y + 1 = p + (k + 1) + (a + x + y)
      BY <3>2
    <3>5. r.n_free = p + (k + 1) + (a + x + y)
      BY <3>1, <3>3, <3>4
    <3> QED
      BY <3>1, <3>5 DEF p
  <2>8. Good(k + 1)
    BY <2>3, <2>5, <2>7 DEF r
  <2> QED
    BY <2>1, <2>8
<1>9. n \in S
  <2> HIDE DEF S
  <2>1. 0 .. n \subseteq S
    BY <1>1, <1>7, <1>8, UpTo
  <2> QED
    BY <1>1, <2>1
<1>10. Good(n)
  BY <1>9
<1> QED
  BY <1>3, <1>10 DEF B

\* A copy that is not refused is one realloc for every buffer with memory.
LEMMA FieldCopyCounts ==
  ASSUME NEW p \in Counters, frozen = FALSE, NEW f
  PROVE  /\ FieldCopy(p, f).policy \in Counters
         /\ FieldCopy(p, f).policy.n_malloc = p.n_malloc
         /\ FieldCopy(p, f).policy.n_realloc = p.n_realloc + One(f.name # <<>>) + One(f.value # <<>>)
         /\ FieldCopy(p, f).policy.n_free = p.n_free
         /\ FieldCopy(p, f).field = [name |-> f.name, value |-> f.value]
<1>1. ASSUME NEW q \in Counters, NEW txt
      PROVE  /\ CopyBuffer(q, txt).policy \in Counters /\ CopyBuffer(q, txt).ok
             /\ CopyBuffer(q, txt).policy.n_malloc = q.n_malloc
             /\ CopyBuffer(q, txt).policy.n_realloc = q.n_realloc + One(txt # <<>>)
             /\ CopyBuffer(q, txt).policy.n_free = q.n_free
  <2>1. CASE txt = <<>>
    BY <2>1 DEF CopyBuffer, One, Counters
  <2>2. CASE txt # <<>>
    <3> DEFINE r == Called(q, frozen, "n_realloc")
    <3>1. r = [q EXCEPT !.n_realloc = @ + 1] /\ r \in Counters
      BY CountersCalled
    <3> HIDE DEF r
    <3>2. ~ Refused(r, frozen)
      BY <3>1, CountersCalled
    <3>3. CopyBuffer(q, txt) = [policy |-> r, ok |-> ~ Refused(r, frozen)]
      BY <2>2 DEF CopyBuffer, Alloc, r
    <3>4. r.n_malloc = q.n_malloc /\ r.n_realloc = q.n_realloc + 1 /\ r.n_free = q.n_free
      BY <3>1 DEF Counters
    <3>5. CopyBuffer(q, txt).policy = r /\ CopyBuffer(q, txt).ok
      <4>1. (~ Refused(r, frozen)) = TRUE
        BY <3>2
      <4>2. CopyBuffer(q, txt) = [policy |-> r, ok |-> TRUE]
        BY <3>3, <4>1
      <4> QED
        BY <4>2
    <3>6. One(txt # <<>>) = 1
      BY <2>2 DEF One
    <3> QED
      BY <3>1, <3>4, <3>5, <3>6
  <2> QED
    BY <2>1, <2>2
<1> DEFINE a == CopyBuffer(p, f.name)
           b == CopyBuffer(a.policy, f.value)
<1>2. /\ a.policy \in Counters /\ a.ok /\ a.policy.n_malloc = p.n_malloc
      /\ a.policy.n_realloc = p.n_realloc + One(f.name # <<>>) /\ a.policy.n_free = p.n_free
  BY <1>1
<1> HIDE DEF a
<1>3. /\ b.policy \in Counters /\ b.ok /\ b.policy.n_malloc = a.policy.n_malloc
      /\ b.policy.n_realloc = a.policy.n_realloc + One(f.value # <<>>) /\ b.policy.n_free = a.policy.n_free
  BY <1>1, <1>2
<1> HIDE DEF b
<1>4. FieldCopy(p, f) = [policy |-> b.policy, field |-> [name  |-> IF a.ok THEN f.name ELSE <<>>,
                                                        value |-> IF b.ok THEN f.value ELSE <<>>]]
  BY DEF FieldCopy, a, b
<1>5. FieldCopy(p, f).policy = b.policy /\ FieldCopy(p, f).field = [name |-> f.name, value |-> f.value]
  BY <1>2, <1>3, <1>4
<1>6. b.policy.n_realloc = p.n_realloc + One(f.name # <<>>) + One(f.value # <<>>)
  BY <1>2, <1>3
<1> QED
  BY <1>2, <1>3, <1>5, <1>6

\* Whatever is refused, what comes in are parts of the field.
LEMMA FieldCopyParts ==
  ASSUME NEW p, NEW f
  PROVE  FieldCopy(p, f).field \in [name : {f.name, <<>>}, value : {f.value, <<>>}]
  BY DEF FieldCopy

-----------------------------------------------------------------------------
(* What holds of the store *)

\* One call counted for every block: the cells of both lists, and the buffers
\* of the headers.
Balanced(p, b, w, v) ==
  p.n_malloc + p.n_realloc = p.n_free + Len(w) + Len(v) + Cardinality(BuffersOf(b, ToSet(w)))

\* The two lists are where the heads lead, and the calls are counted.
Kept(w, v) ==
  /\ home \in Homes /\ PolicyOK
  /\ Holds(links, blocks, home, w, v)
  /\ Counts(policy) => Balanced(policy, blocks, w, v)

\* The inductive invariant: there are such lists.
StoreInv == \E w, v : Kept(w, v)

\* The lists are finite, and so is what they count for.
LEMMA HeadersFinite ==
  ASSUME NEW l, NEW b, NEW h \in Homes, NEW w, NEW v, Holds(l, b, h, w, v)
  PROVE  IsFiniteSet(ToSet(w)) /\ Len(w) \in Nat /\ Len(v) \in Nat /\ Cardinality(BuffersOf(b, ToSet(w))) \in Nat
<1>1. Loop(Headers, w) /\ Loop(h, v)
  BY HoldsSays
<1>2. IsFiniteSet(ToSet(w)) /\ Len(w) \in Nat /\ Len(v) \in Nat
  BY <1>1, LoopCount, LoopType
<1> QED
  BY <1>2, BuffersFinite

\* A header more is an allocation for the entry and one for each of its buffers.
LEMMA BalancedAdd ==
  ASSUME NEW l, NEW b, NEW h \in Homes, NEW w, NEW v, Holds(l, b, h, w, v),
         NEW c \in (Cells \ Heads) \ DOMAIN b, NEW g,
         NEW p \in Counters, NEW q \in Counters, Balanced(p, b, w, v),
         q.n_malloc = p.n_malloc + 1, q.n_free = p.n_free,
         q.n_realloc = p.n_realloc + One(g.name # <<>>) + One(g.value # <<>>)
  PROVE  Balanced(q, With(b, c, g), Append(w, c), v)
<1> DEFINE e == With(b, c, g)
           z == Append(w, c)
           B == Cardinality(BuffersOf(b, ToSet(w)))
           C == Cardinality(BuffersOf(e, ToSet(z)))
           x == One(g.name # <<>>)
           y == One(g.value # <<>>)
<1>1. w \in Seq(Cells) /\ c \in Cells /\ c \notin ToSet(w) /\ \A i \in ToSet(w) : i \in DOMAIN b /\ i # c
  BY HoldsSays DEF Holds
<1>2. ToSet(z) = ToSet(w) \cup {c} /\ Len(z) = Len(w) + 1
  <2>1. ToSet(z) = ToSet(w) \cup {c}
    BY <1>1, AddedSet
  <2>2. Len(z) = Len(w) + 1
    BY <1>1
  <2> QED
    BY <2>1, <2>2
<1>3. e[c] = g /\ \A i \in ToSet(w) : e[i] = b[i]
  BY <1>1 DEF With
<1>4. IsFiniteSet(ToSet(w)) /\ Len(w) \in Nat /\ Len(v) \in Nat /\ B \in Nat
  BY HeadersFinite
<1>5. x \in Nat /\ y \in Nat
  BY DEF One
<1>6. C = B + x + y
  <2> HIDE DEF e, z
  <2>1. Cardinality(BuffersOf(e, ToSet(w) \cup {c})) = B + One(e[c].name # <<>>) + One(e[c].value # <<>>)
    BY <1>1, <1>3, <1>4, BuffersAdd
  <2> QED
    BY <1>2, <1>3, <2>1
<1>7. p.n_malloc + p.n_realloc = p.n_free + Len(w) + Len(v) + B
  BY DEF Balanced
<1>8. p.n_malloc \in Nat /\ p.n_realloc \in Nat /\ p.n_free \in Nat
  BY DEF Counters
<1> HIDE DEF z, B, C, e, x, y
<1>9. q.n_malloc = p.n_malloc + 1 /\ q.n_realloc = p.n_realloc + x + y /\ q.n_free = p.n_free
  BY DEF x, y
<1>10. q.n_malloc + q.n_realloc = q.n_free + Len(z) + Len(v) + C
  <2> DEFINE a1 == p.n_malloc
             a2 == p.n_realloc
             a3 == p.n_free
             a4 == Len(w)
             a5 == Len(v)
  <2> HIDE DEF a1, a2, a3, a4, a5
  <2>1. a1 + a2 = a3 + a4 + a5 + B
    BY <1>7 DEF a1, a2, a3, a4, a5
  <2>2. a1 \in Nat /\ a2 \in Nat /\ a3 \in Nat /\ a4 \in Nat /\ a5 \in Nat
    BY <1>4, <1>8 DEF a1, a2, a3, a4, a5
  <2>3. (a1 + 1) + (a2 + x + y) = a3 + (a4 + 1) + a5 + (B + x + y)
    BY <1>4, <1>5, <2>1, <2>2
  <2> QED
    BY <1>2, <1>6, <1>9, <2>3 DEF a1, a2, a3, a4, a5
<1> QED
  BY <1>10 DEF Balanced, C, e, z

\* What a call with one block more or less does to the count of items.
LEMMA BalancedItems ==
  ASSUME NEW l, NEW b, NEW h \in Homes, NEW w, NEW v, Holds(l, b, h, w, v),
         NEW e, \A c \in ToSet(w) : e[c] = b[c], NEW y, NEW n \in Nat, NEW m \in Nat,
         NEW p \in Counters, NEW q \in Counters, Balanced(p, b, w, v),
         q.n_malloc = p.n_malloc + n, q.n_realloc = p.n_realloc, q.n_free = p.n_free + m,
         Len(y) \in Nat, Len(y) + m = Len(v) + n
  PROVE  Balanced(q, e, w, y)
<1>1. BuffersOf(e, ToSet(w)) = BuffersOf(b, ToSet(w))
  BY BuffersSame
<1>2. Len(w) \in Nat /\ Len(v) \in Nat /\ Cardinality(BuffersOf(b, ToSet(w))) \in Nat
  BY HeadersFinite
<1>3. p.n_malloc + p.n_realloc = p.n_free + Len(w) + Len(v) + Cardinality(BuffersOf(b, ToSet(w)))
  BY DEF Balanced
<1>4. p.n_malloc \in Nat /\ p.n_realloc \in Nat /\ p.n_free \in Nat
  BY DEF Counters
<1> DEFINE a1 == p.n_malloc
           a2 == p.n_realloc
           a3 == p.n_free
           a4 == Len(w)
           a5 == Len(v)
           B == Cardinality(BuffersOf(b, ToSet(w)))
           a6 == Len(y)
<1> HIDE DEF a1, a2, a3, a4, a5, B, a6
<1>5. /\ a1 + a2 = a3 + a4 + a5 + B /\ a6 + m = a5 + n
      /\ a1 \in Nat /\ a2 \in Nat /\ a3 \in Nat /\ a4 \in Nat /\ a5 \in Nat /\ B \in Nat /\ a6 \in Nat
  BY <1>2, <1>3, <1>4 DEF a1, a2, a3, a4, a5, B, a6
<1>6. (a1 + n) + a2 = (a3 + m) + a4 + a6 + B
  BY <1>5
<1>7. q.n_malloc + q.n_realloc = q.n_free + Len(w) + Len(y) + Cardinality(BuffersOf(b, ToSet(w)))
  BY <1>6 DEF a1, a2, a3, a4, a5, B, a6
<1> QED
  BY <1>1, <1>7 DEF Balanced

\* And a policy that refuses only counts them up.
LEMMA FieldCopySchedule ==
  ASSUME NEW a, NEW r, NEW p \in Schedule(a, r), frozen \in BOOLEAN, NEW f
  PROVE  FieldCopy(p, f).policy \in Schedule(a, r)
<1>1. \A q \in Schedule(a, r) : \A txt : CopyBuffer(q, txt).policy \in Schedule(a, r)
  <2>1. SUFFICES ASSUME NEW q \in Schedule(a, r), NEW txt PROVE CopyBuffer(q, txt).policy \in Schedule(a, r)
    OBVIOUS
  <2>2. Called(q, frozen, "n_realloc") \in Schedule(a, r)
    BY ScheduleCalled
  <2> QED
    BY <2>2 DEF CopyBuffer, Alloc
<1> QED
  BY <1>1 DEF FieldCopy

\* What the invariant says of its two lists.
LEMMA KeptSays ==
  ASSUME NEW w, NEW v, Kept(w, v)
  PROVE  /\ home \in Homes /\ frozen \in BOOLEAN /\ Holds(links, blocks, home, w, v)
         /\ Walk(links, Headers) = w /\ Walk(links, home) = v
         /\ Loop(Headers, w) /\ Loop(home, v) /\ Len(w) \in Nat /\ Len(v) \in Nat
         /\ w \in Seq(Cells) /\ v \in Seq(Cells) /\ IsLinks(links)
         /\ \/ policy \in Counters /\ frozen = FALSE /\ Balanced(policy, blocks, w, v)
            \/ \E a, r : policy \in Schedule(a, r)
<1>1. home \in Homes /\ Holds(links, blocks, home, w, v) /\ frozen \in BOOLEAN
  BY DEF Kept, PolicyOK
<1>2. /\ Walk(links, Headers) = w /\ Walk(links, home) = v /\ Loop(Headers, w) /\ Loop(home, v)
      /\ w \in Seq(Cells) /\ v \in Seq(Cells) /\ Pair(links, Headers, w, home, v)
  <2>1. Pair(links, Headers, w, home, v)
    BY <1>1 DEF Holds
  <2>2. Walk(links, Headers) = w /\ Walk(links, home) = v
    BY <1>1, HoldsSays
  <2>3. Loop(Headers, w) /\ Loop(home, v)
    BY <2>1 DEF Pair, Ring
  <2> QED
    BY <2>1, <2>2, <2>3 DEF Loop
<1>3. IsLinks(links)
  BY <1>2 DEF Pair
<1>4. \/ policy \in Counters /\ frozen = FALSE /\ Balanced(policy, blocks, w, v)
      \/ \E a, r : policy \in Schedule(a, r)
  <2>1. policy \in Counters => Counts(policy)
    BY KindOfPolicy
  <2> QED
    BY <2>1 DEF Kept, PolicyOK
<1>5. Len(w) \in Nat /\ Len(v) \in Nat
  BY <1>2, LenProperties
<1> QED
  BY <1>1, <1>2, <1>3, <1>4, <1>5

\* What is to be shown for the lists after a step.
LEMMA KeptNext ==
  ASSUME NEW w, NEW v, home' \in Homes, frozen' \in BOOLEAN, Holds(links', blocks', home', w, v),
         \/ policy' \in Counters /\ frozen' = FALSE /\ Balanced(policy', blocks', w, v)
         \/ \E a, r : policy' \in Schedule(a, r)
  PROVE  Kept(w, v)'
<1>1. PolicyOK'
  BY DEF PolicyOK
<1>2. Counts(policy') => Balanced(policy', blocks', w, v)
  BY KindOfPolicy
<1> QED
  BY <1>1, <1>2 DEF Kept

\* hpack_header_store_add puts a header at the end, perhaps without some of its
\* parts, or changes nothing.
LEMMA AddStep ==
  ASSUME NEW w, NEW v, Kept(w, v), NEW f, StoreAdd(f)
  PROVE  \/ blocks' = blocks /\ home' = home /\ Kept(w, v)'
         \/ \E c \in Unused, g \in [name : {f.name, <<>>}, value : {f.value, <<>>}] :
              blocks' = With(blocks, c, g) /\ home' = home /\ Kept(Append(w, c), v)'
<1> DEFINE e == Alloc(policy, frozen, "n_malloc")
           k == FieldCopy(e.policy, f)
<1>1. home \in Homes /\ frozen \in BOOLEAN /\ Holds(links, blocks, home, w, v)
  BY KeptSays
<1>2. home' = home /\ frozen' = frozen
  BY DEF StoreAdd
<1>3. e = [policy |-> Called(policy, frozen, "n_malloc"), ok |-> ~ Refused(Called(policy, frozen, "n_malloc"), frozen)]
  BY DEF Alloc
<1>4. \/ ~ e.ok /\ policy' = e.policy /\ links' = links /\ blocks' = blocks
      \/ /\ e.ok /\ policy' = k.policy
         /\ \E c \in Unused : blocks' = With(blocks, c, k.field) /\ links' = ListAddTail(InitHead(links, c), c, Headers)
  BY DEF StoreAdd, With
<1>5. k.field \in [name : {f.name, <<>>}, value : {f.value, <<>>}]
  BY FieldCopyParts
<1>6. CASE policy \in Counters /\ frozen = FALSE /\ Balanced(policy, blocks, w, v)
  <2> DEFINE p == Called(policy, frozen, "n_malloc")
  <2>1. p = [policy EXCEPT !.n_malloc = @ + 1] /\ p \in Counters
    BY <1>6, CountersCalled
  <2> HIDE DEF p
  <2>2. ~ Refused(p, frozen)
    BY <1>6, <2>1, CountersCalled
  <2>3. e.ok /\ e.policy = p
    <3>1. (~ Refused(p, frozen)) = TRUE
      BY <2>2
    <3>2. e = [policy |-> p, ok |-> TRUE]
      BY <1>3, <3>1 DEF p
    <3> HIDE DEF e
    <3> QED
      BY <3>2
  <2> HIDE DEF e
  <2>4. /\ k.policy \in Counters /\ k.policy.n_malloc = p.n_malloc /\ k.policy.n_free = p.n_free
        /\ k.policy.n_realloc = p.n_realloc + One(f.name # <<>>) + One(f.value # <<>>)
        /\ k.field = [name |-> f.name, value |-> f.value]
    <3>1. k = FieldCopy(p, f)
      BY <2>3
    <3> HIDE DEF k
    <3> DEFINE j == FieldCopy(p, f)
    <3>2. /\ j.policy \in Counters /\ j.policy.n_malloc = p.n_malloc /\ j.policy.n_free = p.n_free
          /\ j.policy.n_realloc = p.n_realloc + One(f.name # <<>>) + One(f.value # <<>>)
          /\ j.field = [name |-> f.name, value |-> f.value]
      <4>1. p \in Counters /\ frozen = FALSE
        BY <1>6, <2>1
      <4> QED
        BY <4>1, FieldCopyCounts
    <3> HIDE DEF j
    <3>3. k = j
      BY <3>1 DEF j
    <3> QED
      BY <3>2, <3>3
  <2>5. p.n_malloc = policy.n_malloc + 1 /\ p.n_realloc = policy.n_realloc /\ p.n_free = policy.n_free
    BY <1>6, <2>1 DEF Counters
  <2> HIDE DEF k
  <2>6. PICK c \in Unused : blocks' = With(blocks, c, k.field) /\ links' = ListAddTail(InitHead(links, c), c, Headers)
    BY <1>4, <2>3
  <2>7. policy' = k.policy
    BY <1>4, <2>3
  <2>8. Holds(links', blocks', home', Append(w, c), v)
    BY <1>1, <1>2, <2>6, HoldsAddHeader DEF Unused
  <2>9. Balanced(policy', blocks', Append(w, c), v)
    <3> DEFINE g == k.field
    <3>1. g.name = f.name /\ g.value = f.value
      BY <2>4
    <3> HIDE DEF g
    <3>2. c \in (Cells \ Heads) \ DOMAIN blocks
      BY DEF Unused
    <3>3. Balanced(k.policy, With(blocks, c, g), Append(w, c), v)
      BY <1>1, <1>6, <2>4, <2>5, <3>1, <3>2, BalancedAdd
    <3> QED
      BY <2>6, <2>7, <3>3 DEF g
  <2>10. Kept(Append(w, c), v)'
    BY <1>1, <1>2, <1>6, <2>4, <2>7, <2>8, <2>9, KeptNext
  <2> QED
    BY <1>2, <1>5, <2>6, <2>10 DEF k
<1>7. CASE \E a, r : policy \in Schedule(a, r)
  <2>1. PICK a, r : policy \in Schedule(a, r)
    BY <1>7
  <2>2. e.policy \in Schedule(a, r)
    BY <1>1, <1>3, <2>1, ScheduleCalled
  <2> HIDE DEF e
  <2>3. k.policy \in Schedule(a, r)
    BY <1>1, <2>2, FieldCopySchedule
  <2> HIDE DEF k
  <2>4. policy' \in Schedule(a, r)
    BY <1>4, <2>2, <2>3
  <2>5. CASE ~ e.ok
    BY <1>1, <1>2, <1>4, <2>4, <2>5, KeptNext
  <2>6. CASE e.ok
    <3>1. PICK c \in Unused : blocks' = With(blocks, c, k.field) /\ links' = ListAddTail(InitHead(links, c), c, Headers)
      BY <1>4, <2>6
    <3>2. Holds(links', blocks', home', Append(w, c), v)
      BY <1>1, <1>2, <3>1, HoldsAddHeader DEF Unused
    <3>3. Kept(Append(w, c), v)'
      BY <1>1, <1>2, <2>4, <3>2, KeptNext
    <3> QED
      BY <1>2, <1>5, <3>1, <3>3 DEF k
  <2> QED
    BY <2>5, <2>6
<1> QED
  BY <1>6, <1>7, KeptSays

\* chula_list_content_add and its _tail put an item at an end, or change nothing.
LEMMA PushStep ==
  ASSUME NEW w, NEW v, Kept(w, v), NEW i \in Items, NEW at, ContentAdd(i, at)
  PROVE  \/ blocks' = blocks /\ home' = home /\ Kept(w, v)'
         \/ \E c \in Unused : \E y \in {<<c>> \o v, Append(v, c)} :
              blocks' = With(blocks, c, i) /\ home' = home /\ Kept(w, y)'
<1> DEFINE p == Called(policy, frozen, "n_malloc")
           e == Alloc(policy, frozen, "n_malloc")
<1>1. home \in Homes /\ frozen \in BOOLEAN /\ Holds(links, blocks, home, w, v) /\ v \in Seq(Cells) /\ Len(v) \in Nat
  BY KeptSays
<1>2. home' = home /\ frozen' = frozen /\ policy' = e.policy
  BY DEF ContentAdd
<1>3. e = [policy |-> p, ok |-> ~ Refused(p, frozen)]
  BY DEF Alloc
<1>4. \/ ~ e.ok /\ links' = links /\ blocks' = blocks
      \/ /\ e.ok
         /\ \E c \in Unused : \/ /\ blocks' = With(blocks, c, i) /\ links' = ListAdd(InitHead(links, c), c, home)
                              \/ /\ blocks' = With(blocks, c, i) /\ links' = ListAddTail(InitHead(links, c), c, home)
  BY DEF ContentAdd, With
<1>5. e.policy = p /\ (~ Refused(p, frozen) => e.ok)
  <2> HIDE DEF p
  <2>1. e.policy = p
    BY <1>3 DEF p
  <2>2. ASSUME ~ Refused(p, frozen) PROVE e.ok
    <3>1. (~ Refused(p, frozen)) = TRUE
      BY <2>2
    <3>2. e = [policy |-> p, ok |-> TRUE]
      BY <1>3, <3>1 DEF p
    <3> HIDE DEF e
    <3> QED
      BY <3>2
  <2> QED
    BY <2>1, <2>2
<1>6. ASSUME e.ok
      PROVE  \E c \in Unused : \E y \in {<<c>> \o v, Append(v, c)} :
               /\ blocks' = With(blocks, c, i) /\ Holds(links', blocks', home', w, y)
               /\ Len(y) = Len(v) + 1 /\ \A x \in ToSet(w) : blocks'[x] = blocks[x]
  <2>1. PICK c \in Unused : \/ /\ blocks' = With(blocks, c, i) /\ links' = ListAdd(InitHead(links, c), c, home)
                            \/ /\ blocks' = With(blocks, c, i) /\ links' = ListAddTail(InitHead(links, c), c, home)
    BY <1>4, <1>6
  <2>2. /\ Holds(ListAdd(InitHead(links, c), c, home), With(blocks, c, i), home, w, <<c>> \o v)
        /\ Holds(ListAddTail(InitHead(links, c), c, home), With(blocks, c, i), home, w, Append(v, c))
    BY <1>1, HoldsPush DEF Unused
  <2>3. Len(<<c>> \o v) = Len(v) + 1 /\ Len(Append(v, c)) = Len(v) + 1
    <3>1. c \in Cells
      BY DEF Unused
    <3>2. <<c>> \in Seq(Cells) /\ Len(<<c>>) = 1
      BY <3>1
    <3>3. Len(<<c>> \o v) = Len(<<c>>) + Len(v)
      BY <1>1, <3>2, ConcatProperties
    <3>4. Len(Append(v, c)) = Len(v) + 1
      BY <1>1, <3>1
    <3> QED
      BY <1>1, <3>2, <3>3, <3>4
  <2>4. \A x \in ToSet(w) : blocks'[x] = blocks[x]
    <3>1. \A x \in ToSet(w) : x \in DOMAIN blocks /\ x # c
      BY <1>1 DEF Holds, Unused
    <3> QED
      BY <2>1, <3>1 DEF With
  <2> QED
    BY <1>2, <2>1, <2>2, <2>3, <2>4
<1> HIDE DEF e
<1>7. CASE policy \in Counters /\ frozen = FALSE /\ Balanced(policy, blocks, w, v)
  <2>1. p = [policy EXCEPT !.n_malloc = @ + 1] /\ p \in Counters
    BY <1>7, CountersCalled
  <2> HIDE DEF p
  <2>2. p \in Counters /\ p.n_malloc = policy.n_malloc + 1 /\ p.n_realloc = policy.n_realloc
        /\ p.n_free = policy.n_free + 0
    BY <1>7, <2>1 DEF Counters
  <2>3. ~ Refused(p, frozen)
    BY <1>7, <2>2, CountersCalled
  <2>4. e.ok
    BY <1>5, <2>3
  <2>5. PICK c \in Unused : \E y \in {<<c>> \o v, Append(v, c)} :
               /\ blocks' = With(blocks, c, i) /\ Holds(links', blocks', home', w, y)
               /\ Len(y) = Len(v) + 1 /\ \A x \in ToSet(w) : blocks'[x] = blocks[x]
    BY <1>6, <2>4
  <2>6. PICK y \in {<<c>> \o v, Append(v, c)} :
               /\ blocks' = With(blocks, c, i) /\ Holds(links', blocks', home', w, y)
               /\ Len(y) = Len(v) + 1 /\ \A x \in ToSet(w) : blocks'[x] = blocks[x]
    BY <2>5
  <2>7. Balanced(p, blocks', w, y)
    <3>1. Len(y) \in Nat /\ Len(y) + 0 = Len(v) + 1 /\ 0 \in Nat /\ 1 \in Nat
      BY <1>1, <2>6
    <3>2. \A x \in ToSet(w) : blocks'[x] = blocks[x]
      BY <2>6
    <3> QED
      BY <1>1, <1>7, <2>2, <3>1, <3>2, BalancedItems
  <2>8. Kept(w, y)'
    BY <1>1, <1>2, <1>5, <1>7, <2>2, <2>6, <2>7, KeptNext
  <2> QED
    BY <1>2, <2>6, <2>8
<1>8. CASE \E a, r : policy \in Schedule(a, r)
  <2>1. PICK a, r : policy \in Schedule(a, r)
    BY <1>8
  <2>2. policy' \in Schedule(a, r)
    BY <1>1, <1>2, <1>5, <2>1, ScheduleCalled
  <2> HIDE DEF p
  <2>3. CASE ~ e.ok
    BY <1>1, <1>2, <1>4, <2>2, <2>3, KeptNext
  <2>4. CASE e.ok
    <3>1. PICK c \in Unused : \E y \in {<<c>> \o v, Append(v, c)} :
                 /\ blocks' = With(blocks, c, i) /\ Holds(links', blocks', home', w, y)
                 /\ Len(y) = Len(v) + 1 /\ \A x \in ToSet(w) : blocks'[x] = blocks[x]
      BY <1>6, <2>4
    <3>2. PICK y \in {<<c>> \o v, Append(v, c)} : blocks' = With(blocks, c, i) /\ Holds(links', blocks', home', w, y)
      BY <3>1
    <3>3. Kept(w, y)'
      BY <1>1, <1>2, <2>2, <3>2, KeptNext
    <3> QED
      BY <1>2, <3>2, <3>3
  <2> QED
    BY <2>3, <2>4
<1> QED
  BY <1>7, <1>8, KeptSays

\* chula_list_content_free_item takes one item out.
LEMMA DropStep ==
  ASSUME NEW w, NEW v, Kept(w, v), NEW c, ContentFreeItem(c)
  PROVE  \E j \in 1 .. Len(v) :
           blocks' = Without(blocks, {v[j]}) /\ home' = home /\ Kept(w, RemoveAt(v, j))'
<1>1. home \in Homes /\ frozen \in BOOLEAN /\ Holds(links, blocks, home, w, v) /\ v \in Seq(Cells) /\ Len(v) \in Nat
      /\ Walk(links, home) = v
  BY KeptSays
<1>2. PICK j \in 1 .. Len(v) : c = v[j]
  <2>1. c \in ToSet(v)
    BY <1>1 DEF ContentFreeItem
  <2>2. DOMAIN v = 1 .. Len(v)
    BY <1>1
  <2> QED
    BY <2>1, <2>2 DEF ToSet
<1> DEFINE y == RemoveAt(v, j)
<1>3. home' = home /\ frozen' = frozen /\ policy' = Freed(policy, frozen, TRUE)
      /\ links' = Dead(ListDel(links, v[j]), {v[j]}) /\ blocks' = Without(blocks, {v[j]})
  BY <1>2 DEF ContentFreeItem, Released, Without
<1>4. Holds(links', blocks', home', w, y)
  BY <1>1, <1>3, HoldsDrop
<1>5. Len(y) = Len(v) - 1
  BY <1>1, RemoveAtIs
<1> HIDE DEF y
<1>6. \A x \in ToSet(w) : blocks'[x] = blocks[x]
  <2>1. ToSet(w) \subseteq DOMAIN blocks'
    BY <1>4 DEF Holds
  <2> QED
    BY <1>3, <2>1 DEF Without
<1>7. CASE policy \in Counters /\ frozen = FALSE /\ Balanced(policy, blocks, w, v)
  <2> DEFINE p == Called(policy, frozen, "n_free")
  <2>1. p = [policy EXCEPT !.n_free = @ + 1] /\ p \in Counters
    BY <1>7, CountersCalled
  <2>2. policy' = p
    BY <1>3 DEF Freed
  <2> HIDE DEF p
  <2>3. p \in Counters /\ p.n_malloc = policy.n_malloc + 0 /\ p.n_realloc = policy.n_realloc
        /\ p.n_free = policy.n_free + 1
    BY <1>7, <2>1 DEF Counters
  <2>4. Len(y) \in Nat /\ Len(y) + 1 = Len(v) + 0 /\ 0 \in Nat /\ 1 \in Nat
    BY <1>1, <1>5
  <2>5. Balanced(p, blocks', w, y)
    BY <1>1, <1>6, <1>7, <2>3, <2>4, BalancedItems
  <2>6. Kept(w, y)'
    BY <1>1, <1>3, <1>4, <1>7, <2>2, <2>3, <2>5, KeptNext
  <2> QED
    BY <1>3, <2>6 DEF y
<1>8. CASE \E a, r : policy \in Schedule(a, r)
  <2>1. PICK a, r : policy \in Schedule(a, r)
    BY <1>8
  <2>2. policy' \in Schedule(a, r)
    BY <1>1, <1>3, <2>1, ScheduleCalled DEF Freed
  <2>3. Kept(w, y)'
    BY <1>1, <1>3, <1>4, <2>2, KeptNext
  <2> QED
    BY <1>3, <2>3 DEF y
<1> QED
  BY <1>7, <1>8, KeptSays

\* hpack_header_store_mrproper leaves no header and all of the items.
LEMMA MrproperStep ==
  ASSUME NEW w, NEW v, Kept(w, v), StoreMrproper
  PROVE  blocks' = Without(blocks, ToSet(w)) /\ home' = home /\ Kept(<<>>, v)'
<1>1. home \in Homes /\ frozen \in BOOLEAN /\ Holds(links, blocks, home, w, v) /\ w \in Seq(Cells) /\ Len(w) \in Nat
      /\ Walk(links, Headers) = w /\ Loop(Headers, w) /\ Len(v) \in Nat
  BY KeptSays
<1>2. home' = home /\ frozen' = frozen /\ blocks' = Without(blocks, ToSet(w))
      /\ links' = Dead(InitHead(links, Headers), ToSet(w))
  <2>1. Released(ToSet(w)) = Without(blocks, ToSet(w))
    BY DEF Released, Without
  <2> QED
    BY <1>1, <2>1 DEF StoreMrproper
<1>3. Holds(links', blocks', home', <<>>, v)
  BY <1>1, <1>2, HoldsClearHeaders
<1>4. CASE policy \in Counters /\ frozen = FALSE /\ Balanced(policy, blocks, w, v)
  <2>1. \A p \in Counters : \A e : EntryFree(p, e) \in Counters
    BY <1>4, EntryFreeCounts
  <2>2. PICK f \in [0 .. Len(w) -> Counters] :
          /\ f[0] = policy /\ policy' = f[Len(w)]
          /\ \A k \in 1 .. Len(w) : f[k] = EntryFree(f[k - 1], blocks[w[k]])
    BY <1>1, <1>4, <2>1, MrproperIs
  <2>3. /\ policy'.n_malloc = policy.n_malloc /\ policy'.n_realloc = policy.n_realloc
        /\ policy'.n_free = policy.n_free + Len(w) + Cardinality(BuffersOf(blocks, ToSet(w)))
    BY <1>1, <1>4, <2>2, FreeEntries
  <2>4. policy' \in Counters
    <3>1. Len(w) \in 0 .. Len(w)
      BY <1>1
    <3> QED
      BY <2>2, <3>1
  <2>5. Cardinality(BuffersOf(blocks', ToSet(<<>>))) = 0 /\ Len(<<>>) = 0
    <3>1. ToSet(<<>>) = {}
      BY DEF ToSet
    <3>2. BuffersOf(blocks', {}) = {}
      BY DEF BuffersOf
    <3> QED
      BY <3>1, <3>2, FS_EmptySet
  <2>6. Balanced(policy', blocks', <<>>, v)
    <3> DEFINE B == Cardinality(BuffersOf(blocks, ToSet(w)))
               C == Cardinality(BuffersOf(blocks', ToSet(<<>>)))
               a1 == policy.n_malloc
               a2 == policy.n_realloc
               a3 == policy.n_free
               a4 == Len(w)
               a5 == Len(v)
    <3>1. B \in Nat /\ a1 \in Nat /\ a2 \in Nat /\ a3 \in Nat /\ a4 \in Nat /\ a5 \in Nat
      BY <1>1, <1>4, HeadersFinite DEF Counters
    <3>2. a1 + a2 = a3 + a4 + a5 + B
      BY <1>4 DEF Balanced
    <3>3. C = 0 /\ Len(<<>>) = 0
      BY <2>5
    <3> HIDE DEF B, C, a1, a2, a3, a4, a5
    <3>4. a1 + a2 = (a3 + a4 + B) + 0 + a5 + 0
      BY <3>1, <3>2
    <3>5. policy'.n_malloc = a1 /\ policy'.n_realloc = a2 /\ policy'.n_free = a3 + a4 + B
      BY <2>3 DEF B, a1, a2, a3, a4
    <3> QED
      BY <3>3, <3>4, <3>5 DEF Balanced, C, a5
  <2> QED
    BY <1>1, <1>2, <1>3, <1>4, <2>4, <2>6, KeptNext
<1>5. CASE \E a, r : policy \in Schedule(a, r)
  <2>1. PICK a, r : policy \in Schedule(a, r)
    BY <1>5
  <2> DEFINE D == Schedule(a, r)
  <2>2. \A p \in D : \A e : EntryFree(p, e) \in D
    BY <1>1, EntryFreeSchedule
  <2> HIDE DEF D
  <2>3. policy \in D
    BY <2>1 DEF D
  <2>4. PICK f \in [0 .. Len(w) -> D] : policy' = f[Len(w)]
    BY <1>1, <2>2, <2>3, MrproperIs
  <2>5. policy' \in D
    <3>1. Len(w) \in 0 .. Len(w)
      BY <1>1
    <3> QED
      BY <2>4, <3>1
  <2> QED
    BY <1>1, <1>2, <1>3, <2>5, KeptNext DEF D
<1> QED
  BY <1>4, <1>5, KeptSays

\* chula_list_content_free leaves no item and all of the headers.
LEMMA FreeStep ==
  ASSUME NEW w, NEW v, Kept(w, v), ContentFree
  PROVE  blocks' = Without(blocks, ToSet(v)) /\ home' = home /\ Kept(w, <<>>)'
<1>1. /\ home \in Homes /\ frozen \in BOOLEAN /\ Holds(links, blocks, home, w, v) /\ IsLinks(links)
      /\ Walk(links, home) = v /\ Loop(home, v) /\ Len(w) \in Nat /\ Len(v) \in Nat
  <2>1. home \in Homes /\ frozen \in BOOLEAN /\ Holds(links, blocks, home, w, v)
    BY KeptSays
  <2>2. Walk(links, home) = v /\ Loop(home, v)
    <3>1. Walk(links, home) = v
      BY KeptSays
    <3>2. Loop(home, v)
      BY KeptSays
    <3> QED
      BY <3>1, <3>2
  <2>3. Len(w) \in Nat /\ Len(v) \in Nat
    BY KeptSays
  <2>4. IsLinks(links)
    BY KeptSays
  <2> QED
    BY <2>1, <2>2, <2>3, <2>4
<1>2. home' = home /\ frozen' = frozen /\ blocks' = Without(blocks, ToSet(v))
  <2>1. Released(ToSet(v)) = Without(blocks, ToSet(v))
    BY DEF Released, Without
  <2> QED
    BY <1>1, <2>1 DEF ContentFree
<1>3. ASSUME NEW p, NEW l, FreesItems(v, p, l)
      PROVE  Holds(links', blocks', home', w, <<>>)
  <2>1. Ring(links, home, v)
    BY <1>1 DEF Holds, Pair
  <2> DEFINE k == l[Len(v)]
  <2>2. IsLinks(k) /\ Same(links, k, Cells \ On(home, v))
    <3>1. l[0] = links /\ \A i \in 1 .. Len(v) : l[i] = ListDel(l[i - 1], v[i])
      BY <1>3 DEF FreesItems
    <3> QED
      BY <1>1, <2>1, <3>1, DelAll
  <2>3. links' = Dead(InitHead(k, home), ToSet(v))
    BY <1>3 DEF FreesItems
  <2> HIDE DEF k
  <2>4. Holds(Dead(InitHead(k, home), ToSet(v)), Without(blocks, ToSet(v)), home, w, <<>>)
    BY <1>1, <2>2, HoldsClearItems
  <2> QED
    BY <1>2, <2>3, <2>4
<1>4. CASE policy \in Counters /\ frozen = FALSE /\ Balanced(policy, blocks, w, v)
  <2>1. \A p \in Counters : Freed(p, frozen, TRUE) \in Counters
    BY <1>4, CountersCalled DEF Freed
  <2>2. PICK p \in [0 .. Len(v) -> Counters] : \E l : FreesItems(v, p, l)
    BY <1>1, <1>4, <2>1, ContentFreeIs
  <2>3. Holds(links', blocks', home', w, <<>>)
    BY <1>3, <2>2
  <2> DEFINE q == p[Len(v)]
  <2>4. q \in Counters /\ q.n_malloc = policy.n_malloc + 0 /\ q.n_realloc = policy.n_realloc
        /\ q.n_free = policy.n_free + Len(v)
    <3>1. Len(v) \in 0 .. Len(v)
      BY <1>1
    <3>2. q \in Counters
      BY <2>2, <3>1
    <3>3. q.n_malloc = policy.n_malloc /\ q.n_realloc = policy.n_realloc /\ q.n_free = policy.n_free + Len(v)
      <4>1. p[0] = policy /\ \A k \in 1 .. Len(v) : p[k] = Freed(p[k - 1], frozen, TRUE)
        BY <2>2 DEF FreesItems
      <4> QED
        BY <1>1, <1>4, <2>2, <4>1, FreeAll
    <3>4. policy.n_malloc \in Nat
      BY <1>4 DEF Counters
    <3> HIDE DEF q
    <3> QED
      BY <3>2, <3>3, <3>4
  <2>5. policy' = q
    BY <2>2 DEF FreesItems
  <2> HIDE DEF q
  <2>6. \A x \in ToSet(w) : blocks'[x] = blocks[x]
    <3>1. ToSet(w) \subseteq DOMAIN blocks'
      BY <2>3 DEF Holds
    <3> QED
      BY <1>2, <3>1 DEF Without
  <2>7. Balanced(q, blocks', w, <<>>)
    <3> DEFINE y == <<>>
    <3>1. Len(y) \in Nat /\ Len(y) + Len(v) = Len(v) + 0 /\ 0 \in Nat
      BY <1>1
    <3> HIDE DEF y
    <3>2. Balanced(q, blocks', w, y)
      BY <1>1, <1>4, <2>4, <2>6, <3>1, BalancedItems
    <3> QED
      BY <3>2 DEF y
  <2> QED
    BY <1>1, <1>2, <1>4, <2>3, <2>4, <2>5, <2>7, KeptNext
<1>5. CASE \E a, r : policy \in Schedule(a, r)
  <2>1. PICK a, r : policy \in Schedule(a, r)
    BY <1>5
  <2> DEFINE D == Schedule(a, r)
  <2>2. \A p \in D : Freed(p, frozen, TRUE) \in D
    BY <1>1, ScheduleCalled DEF Freed
  <2> HIDE DEF D
  <2>3. policy \in D
    BY <2>1 DEF D
  <2>4. PICK p \in [0 .. Len(v) -> D] : \E l : FreesItems(v, p, l)
    BY <1>1, <2>2, <2>3, ContentFreeIs
  <2>5. Holds(links', blocks', home', w, <<>>)
    BY <1>3, <2>4
  <2>6. policy' \in D
    <3>1. Len(v) \in 0 .. Len(v)
      BY <1>1
    <3> QED
      BY <2>4, <3>1 DEF FreesItems
  <2> QED
    BY <1>1, <1>2, <2>5, <2>6, KeptNext DEF D
<1> QED
  BY <1>2, <1>4, <1>5, KeptSays

\* A step that leaves what is allocated, and gives the items another order or
\* another head.
LEMMA SameStep ==
  ASSUME NEW w, NEW v, Kept(w, v), NEW y, Len(y) = Len(v), policy' = policy, blocks' = blocks,
         home' \in Homes, Holds(links', blocks, home', w, y),
         frozen' \in BOOLEAN, frozen' = frozen \/ ~ Counts(policy)
  PROVE  Kept(w, y)'
<1>1. CASE policy \in Counters /\ frozen = FALSE /\ Balanced(policy, blocks, w, v)
  <2>1. Counts(policy)
    BY <1>1, KindOfPolicy
  <2>2. Balanced(policy, blocks, w, y)
    BY <1>1 DEF Balanced
  <2> QED
    BY <1>1, <2>1, <2>2, KeptNext
<1>2. CASE \E a, r : policy \in Schedule(a, r)
  BY <1>2, KeptNext
<1> QED
  BY <1>1, <1>2, KeptSays

\* chula_list_invert turns the items around.
LEMMA InvertStep ==
  ASSUME NEW w, NEW v, Kept(w, v), InvertItems
  PROVE  blocks' = blocks /\ home' = home /\ Kept(w, Reverse(v))'
<1>1. home \in Homes /\ frozen \in BOOLEAN /\ Holds(links, blocks, home, w, v) /\ v \in Seq(Cells)
  BY KeptSays
<1>2. /\ policy' = policy /\ frozen' = frozen /\ blocks' = blocks /\ home' = home
      /\ links' = Dead(Invert(links, home), {Local})
  BY DEF InvertItems, Relinked
<1>0. PICK y : y = Reverse(v)
  OBVIOUS
<1>3. Len(y) = Len(v)
  BY <1>0, <1>1 DEF Reverse
<1>4. Holds(links', blocks, home', w, y)
  BY <1>0, <1>1, <1>2, HoldsInvert
<1>5. Kept(w, y)'
  <2>1. home' \in Homes /\ frozen' \in BOOLEAN /\ frozen' = frozen /\ policy' = policy /\ blocks' = blocks
    BY <1>1, <1>2
  <2> QED
    BY <1>3, <1>4, <2>1, SameStep
<1> QED
  BY <1>0, <1>2, <1>5

\* chula_list_sort puts the items in the order of the passes.
LEMMA SortStep ==
  ASSUME NEW w, NEW v, Kept(w, v), SortItems
  PROVE  blocks' = blocks /\ home' = home /\ Kept(w, SortPasses(blocks, v))'
<1>1. home \in Homes /\ frozen \in BOOLEAN /\ Holds(links, blocks, home, w, v) /\ v \in Seq(Cells)
  BY KeptSays
<1>2. /\ policy' = policy /\ frozen' = frozen /\ blocks' = blocks /\ home' = home
      /\ links' = Dead(Sort(links, home, blocks), {Local})
  BY DEF SortItems, Relinked
<1>0. PICK y : y = SortPasses(blocks, v)
  OBVIOUS
<1>3. Len(y) = Len(v)
  <2>1. PICK m : SortedBy(blocks, v, y, m)
    BY <1>0, <1>1, SortIs
  <2> QED
    BY <1>1, <2>1, MovedIs DEF SortedBy
<1>4. Holds(links', blocks, home', w, y)
  BY <1>0, <1>1, <1>2, HoldsSort
<1>5. Kept(w, y)'
  <2>1. home' \in Homes /\ frozen' \in BOOLEAN /\ frozen' = frozen /\ policy' = policy /\ blocks' = blocks
    BY <1>1, <1>2
  <2> QED
    BY <1>3, <1>4, <2>1, SameStep
<1> QED
  BY <1>0, <1>2, <1>5

\* chula_list_reparent leaves the items as they are, at the other head.
LEMMA MoveStep ==
  ASSUME NEW w, NEW v, Kept(w, v), NEW h \in Homes, MoveItems(h)
  PROVE  blocks' = blocks /\ Kept(w, v)'
<1>1. home \in Homes /\ frozen \in BOOLEAN /\ Holds(links, blocks, home, w, v)
  BY KeptSays
<1>2. /\ policy' = policy /\ frozen' = frozen /\ blocks' = blocks /\ home' = h /\ h # home
      /\ links' = Dead(Reparent(InitHead(links, h), home, h), {home})
  BY DEF MoveItems
<1>3. Holds(links', blocks, home', w, v)
  BY <1>1, <1>2, HoldsMove
<1> QED
  BY <1>1, <1>2, <1>3, SameStep

\* Freezing touches no list, and no policy that counts.
LEMMA FreezeStep ==
  ASSUME NEW w, NEW v, Kept(w, v), FreezeOrThaw
  PROVE  blocks' = blocks /\ home' = home /\ Kept(w, v)'
<1>1. home \in Homes /\ frozen \in BOOLEAN /\ Holds(links, blocks, home, w, v)
  BY KeptSays
<1>2. /\ policy' = policy /\ frozen' \in BOOLEAN /\ blocks' = blocks /\ home' = home /\ links' = links
      /\ ~ Counts(policy)
  BY <1>1 DEF FreezeOrThaw
<1> QED
  BY <1>1, <1>2, SameStep

\* A store begins with two empty lists.
LEMMA EmptyStore ==
  ASSUME StoreInit
  PROVE  Kept(<<>>, <<>>)
<1>1. /\ policy \in {Counter} \cup {SchedFail(s[1], s[2]) : s \in Schedules} /\ frozen = FALSE
      /\ links = [next |-> [c \in Cells |-> c], prev |-> [c \in Cells |-> c]]
      /\ blocks = <<>> /\ home \in Homes
  BY DEF StoreInit
<1>2. Headers \in Cells /\ home \in Cells /\ home # Headers
  BY <1>1, HeadsAssumption
<1>3. IsLinks(links)
  BY <1>1 DEF IsLinks
<1>4. \A h \in Cells : links.next[h] = h /\ links.prev[h] = h
  BY <1>1
<1>5. Ring(links, Headers, <<>>) /\ Ring(links, home, <<>>)
  BY <1>2, <1>4, EmptyRing
<1>6. ToSet(<<>>) = {}
  BY DEF ToSet
<1>7. On(Headers, <<>>) = {Headers} /\ On(home, <<>>) = {home}
  <2>1. Loop(Headers, <<>>) /\ Loop(home, <<>>)
    BY <1>5 DEF Ring
  <2> QED
    BY <1>6, <2>1, OnIs
<1>8. Holds(links, blocks, home, <<>>, <<>>)
  <2>1. Pair(links, Headers, <<>>, home, <<>>)
    BY <1>2, <1>3, <1>5, <1>7 DEF Pair
  <2>2. DOMAIN blocks = {}
    BY <1>1
  <2> QED
    BY <1>6, <2>1, <2>2 DEF Holds
<1>9. CASE policy = Counter
  <2>1. policy \in Counters /\ policy.n_malloc = 0 /\ policy.n_realloc = 0 /\ policy.n_free = 0
    BY <1>9 DEF Counter, Counters
  <2>2. Cardinality(BuffersOf(blocks, ToSet(<<>>))) = 0
    <3>1. BuffersOf(blocks, {}) = {}
      BY DEF BuffersOf
    <3> QED
      BY <1>6, <3>1, FS_EmptySet
  <2>3. Len(<<>>) = 0
    OBVIOUS
  <2>4. Balanced(policy, blocks, <<>>, <<>>)
    BY <2>1, <2>2, <2>3 DEF Balanced
  <2> QED
    BY <1>1, <1>8, <2>1, <2>4 DEF Kept, PolicyOK
<1>10. CASE policy # Counter
  <2>1. PICK s \in Schedules : policy = SchedFail(s[1], s[2])
    BY <1>1, <1>10
  <2>2. policy \in Schedule(s[1], s[2])
    BY <2>1 DEF SchedFail, Schedule
  <2>3. ~ Counts(policy)
    BY <2>2, KindOfPolicy
  <2> QED
    BY <1>1, <1>8, <2>2, <2>3 DEF Kept, PolicyOK
<1> QED
  BY <1>9, <1>10

\* The lists are two rings that share no cell, with what is allocated on them
\* and counted: every operation keeps that, of whatever lists it is given.
THEOREM StoreInvHolds == StoreSpec => []StoreInv
<1>1. StoreInit => StoreInv
  BY EmptyStore DEF StoreInv
<1>2. ASSUME StoreInv, [StoreNext]_svars
      PROVE  StoreInv'
  <2>1. PICK w, v : Kept(w, v)
    BY <1>2 DEF StoreInv
  <2>2. ASSUME NEW f \in Fields, StoreAdd(f)
        PROVE  StoreInv'
    <3>1. Kept(w, v)' \/ \E c \in Unused : Kept(Append(w, c), v)'
      BY <2>1, <2>2, AddStep
    <3> QED
      BY <3>1 DEF StoreInv
  <2>3. ASSUME NEW i \in Items, NEW at \in {"head", "tail"}, ContentAdd(i, at)
        PROVE  StoreInv'
    <3>1. Kept(w, v)' \/ \E c \in Unused : \E y \in {<<c>> \o v, Append(v, c)} : Kept(w, y)'
      BY <2>1, <2>3, PushStep
    <3> QED
      BY <3>1 DEF StoreInv
  <2>4. ASSUME NEW c \in DOMAIN blocks, ContentFreeItem(c)
        PROVE  StoreInv'
    <3>1. \E j \in 1 .. Len(v) : Kept(w, RemoveAt(v, j))'
      BY <2>1, <2>4, DropStep
    <3> QED
      BY <3>1 DEF StoreInv
  <2>5. CASE StoreMrproper
    BY <2>1, <2>5, MrproperStep DEF StoreInv
  <2>6. CASE ContentFree
    BY <2>1, <2>6, FreeStep DEF StoreInv
  <2>7. ASSUME NEW h \in Homes, MoveItems(h)
        PROVE  StoreInv'
    BY <2>1, <2>7, MoveStep DEF StoreInv
  <2>8. CASE InvertItems
    BY <2>1, <2>8, InvertStep DEF StoreInv
  <2>9. CASE SortItems
    BY <2>1, <2>9, SortStep DEF StoreInv
  <2>10. CASE FreezeOrThaw
    BY <2>1, <2>10, FreezeStep DEF StoreInv
  <2>11. CASE UNCHANGED svars
    BY <2>1, <2>11 DEF svars, StoreInv, Kept, PolicyOK
  <2> QED
    BY <1>2, <2>2, <2>3, <2>4, <2>5, <2>6, <2>7, <2>8, <2>9, <2>10, <2>11 DEF StoreNext
<1> QED
  BY <1>1, <1>2, PTL DEF StoreSpec

\* Two rings are lists as they should be.
LEMMA KeptLinks ==
  ASSUME NEW w, NEW v, Kept(w, v)
  PROVE  LinksOK
<1>1. Walk(links, Headers) = w /\ Walk(links, home) = v
  BY KeptSays
<1>2. home \in Homes /\ Holds(links, blocks, home, w, v)
  BY KeptSays
<1>3. On(Headers, w) = {Headers} \cup ToSet(w) /\ On(home, v) = {home} \cup ToSet(v)
      /\ ToSet(w) \cap ToSet(v) = {}
  BY <1>2, HoldsSays
<1>4. Ring(links, Headers, w) /\ Ring(links, home, v)
  BY <1>2 DEF Holds, Pair
<1>5. DOMAIN blocks = ToSet(w) \cup ToSet(v)
  BY <1>2 DEF Holds
<1>6. \A c \in On(Headers, w) : /\ links.next[c] \in On(Headers, w) /\ links.prev[c] \in On(Headers, w)
                                /\ links.prev[links.next[c]] = c /\ links.next[links.prev[c]] = c
  BY <1>4, RingRound
<1>7. \A c \in On(home, v) : /\ links.next[c] \in On(home, v) /\ links.prev[c] \in On(home, v)
                             /\ links.prev[links.next[c]] = c /\ links.next[links.prev[c]] = c
  BY <1>4, RingRound
<1> QED
  BY <1>1, <1>3, <1>5, <1>6, <1>7 DEF LinksOK

\* Every head leads through allocated entries back to itself, either way, and
\* the lists share none: for any memory, any sequence of calls to list.c and
\* header_store.c and any refusals of the allocator.
THEOREM LinksAreOK == StoreSpec => []LinksOK
<1>1. StoreInv => LinksOK
  BY KeptLinks DEF StoreInv
<1> QED
  BY <1>1, StoreInvHolds, PTL

\* What is allocated is what the two lists have, and what the calls come to.
LEMMA KeptNothingLost ==
  ASSUME NEW w, NEW v, Kept(w, v)
  PROVE  NothingLost
<1>1. Walk(links, Headers) = w /\ Walk(links, home) = v
  BY KeptSays
<1>2. home \in Homes /\ Holds(links, blocks, home, w, v)
  BY KeptSays
<1>3. DOMAIN blocks = ToSet(w) \cup ToSet(v)
  BY <1>2 DEF Holds
<1>4. Cardinality(DOMAIN blocks) = Len(w) + Len(v)
  <2>1. Loop(Headers, w) /\ Loop(home, v) /\ ToSet(w) \cap ToSet(v) = {}
    BY <1>2, HoldsSays
  <2>2. IsFiniteSet(ToSet(w)) /\ Cardinality(ToSet(w)) = Len(w) /\ Len(w) \in Nat
    BY <2>1, LoopCount, LoopType
  <2>3. IsFiniteSet(ToSet(v)) /\ Cardinality(ToSet(v)) = Len(v) /\ Len(v) \in Nat
    BY <2>1, LoopCount, LoopType
  <2>4. Cardinality(ToSet(w) \cup ToSet(v)) =
          Cardinality(ToSet(w)) + Cardinality(ToSet(v)) - Cardinality(ToSet(w) \cap ToSet(v))
    BY <2>2, <2>3, FS_Union
  <2>5. Cardinality(ToSet(w) \cap ToSet(v)) = 0
    BY <2>1, FS_EmptySet
  <2> QED
    BY <1>3, <2>2, <2>3, <2>4, <2>5
<1>5. Buffers = BuffersOf(blocks, ToSet(w))
  BY <1>1 DEF Buffers, BuffersOf
<1>6. ASSUME Counts(policy)
      PROVE  policy.n_malloc + policy.n_realloc = policy.n_free + Cardinality(DOMAIN blocks) + Cardinality(Buffers)
  <2>1. Balanced(policy, blocks, w, v) /\ policy \in Counters
    BY <1>6, KindOfPolicy DEF Kept, PolicyOK
  <2>2. policy.n_free \in Nat
    BY <2>1 DEF Counters
  <2>3. Len(w) \in Nat /\ Len(v) \in Nat /\ Cardinality(BuffersOf(blocks, ToSet(w))) \in Nat
    BY <1>2, HeadersFinite
  <2> DEFINE a1 == policy.n_free
             a2 == Len(w)
             a3 == Len(v)
             B == Cardinality(BuffersOf(blocks, ToSet(w)))
  <2>4. policy.n_malloc + policy.n_realloc = a1 + a2 + a3 + B
    BY <2>1 DEF Balanced
  <2>5. Cardinality(DOMAIN blocks) = a2 + a3 /\ Cardinality(Buffers) = B
    BY <1>4, <1>5
  <2> HIDE DEF a1, a2, a3, B
  <2>6. a1 + a2 + a3 + B = a1 + (a2 + a3) + B
    BY <2>2, <2>3 DEF a1, a2, a3, B
  <2> QED
    BY <2>4, <2>5, <2>6 DEF a1
<1> QED
  BY <1>1, <1>3, <1>6 DEF NothingLost

\* Nothing that is allocated is off the lists, and whoever counts the calls to
\* the allocator has counted one for every block there is.
THEOREM NothingIsLost == StoreSpec => []NothingLost
<1>1. StoreInv => NothingLost
  BY KeptNothingLost DEF StoreInv
<1> QED
  BY <1>1, StoreInvHolds, PTL

-----------------------------------------------------------------------------
(* What an add says *)

\* A call that a schedule refuses on the way from one count to another.
LEMMA ShortIs ==
  ASSUME NEW a, NEW r, policy \in Schedule(a, r), NEW q \in Schedule(a, r), policy.counter <= q.counter,
         q.counter <= policy'.counter, policy' \in Schedule(a, r), Refused(q, frozen)
  PROVE  Short
<1>1. ~ Counts(policy)
  BY KindOfPolicy
<1>2. q = [policy EXCEPT !.counter = q.counter]
  BY DEF Schedule
<1>3. q.counter \in policy.counter .. policy'.counter
  <2>1. q.counter \in Nat /\ policy.counter \in Nat /\ policy'.counter \in Nat
    BY DEF Schedule
  <2> QED
    BY <2>1
<1> QED
  BY <1>1, <1>2, <1>3 DEF Short

\* A call to the allocator that fails was refused at the number it counts.
LEMMA AllocSchedule ==
  ASSUME NEW a, NEW r, NEW p \in Schedule(a, r), frozen \in BOOLEAN, NEW f
  PROVE  LET e == Alloc(p, frozen, f)
         IN  /\ e.policy \in Schedule(a, r) /\ p.counter <= e.policy.counter
             /\ e.ok \/ Refused(e.policy, frozen)
<1> DEFINE c == Called(p, frozen, f)
           e == Alloc(p, frozen, f)
<1>1. c \in Schedule(a, r) /\ p.counter <= c.counter
  BY ScheduleCalled
<1>2. e = [policy |-> c, ok |-> ~ Refused(c, frozen)]
  BY DEF Alloc
<1> HIDE DEF c
<1>3. e.policy = c
  BY <1>2
<1>4. CASE Refused(c, frozen)
  BY <1>1, <1>3, <1>4
<1>5. CASE ~ Refused(c, frozen)
  <2>1. (~ Refused(c, frozen)) = TRUE
    BY <1>5
  <2>2. e = [policy |-> c, ok |-> TRUE]
    BY <1>2, <2>1
  <2> HIDE DEF e
  <2>3. e.ok
    BY <2>2
  <2> QED
    BY <1>1, <1>3, <2>3 DEF e
<1> QED
  BY <1>4, <1>5

\* A buffer that was not copied was refused at one of the numbers counted.
LEMMA CopySchedule ==
  ASSUME NEW a, NEW r, NEW p \in Schedule(a, r), frozen \in BOOLEAN, NEW txt
  PROVE  LET e == CopyBuffer(p, txt)
         IN  /\ e.policy \in Schedule(a, r) /\ p.counter <= e.policy.counter
             /\ e.ok \/ Refused(e.policy, frozen)
<1>1. CASE txt = <<>>
  <2>1. CopyBuffer(p, txt) = [policy |-> p, ok |-> TRUE]
    BY <1>1 DEF CopyBuffer
  <2>2. p.counter <= p.counter
    BY DEF Schedule
  <2> QED
    BY <2>1, <2>2
<1>2. CASE txt # <<>>
  <2>1. CopyBuffer(p, txt) = Alloc(p, frozen, "n_realloc")
    BY <1>2 DEF CopyBuffer
  <2> QED
    BY <2>1, AllocSchedule
<1> QED
  BY <1>1, <1>2

\* What a call of hpack_header_store_add answers is true.
LEMMA AddAnswers ==
  ASSUME NEW w, NEW v, Kept(w, v), NEW f \in Fields, StoreAdd(f)
  PROVE  \/ answer'.ret = "nomem" /\ Short /\ blocks' = blocks /\ links' = links
         \/ answer'.ret = "ok" /\ (Short \/ blocks'[links'.prev[Headers]] = answer'.arg)
<1> DEFINE e == Alloc(policy, frozen, "n_malloc")
           x == CopyBuffer(e.policy, f.name)
           y == CopyBuffer(x.policy, f.value)
           g == [name |-> IF x.ok THEN f.name ELSE <<>>, value |-> IF y.ok THEN f.value ELSE <<>>]
<1>1. frozen \in BOOLEAN /\ Holds(links, blocks, home, w, v) /\ home \in Homes
  BY KeptSays
<1>2. FieldCopy(e.policy, f) = [policy |-> y.policy, field |-> g]
  BY DEF FieldCopy
<1>3. FieldCopy(e.policy, f).policy = y.policy /\ FieldCopy(e.policy, f).field = g
  BY <1>2
<1>4. \/ ~ e.ok /\ policy' = e.policy /\ answer'.ret = "nomem" /\ links' = links /\ blocks' = blocks
      \/ /\ e.ok /\ policy' = FieldCopy(e.policy, f).policy /\ answer'.ret = "ok" /\ answer'.arg = f
         /\ \E c \in Unused : /\ blocks' = With(blocks, c, FieldCopy(e.policy, f).field)
                              /\ links' = ListAddTail(InitHead(links, c), c, Headers)
  <2> DEFINE k == FieldCopy(e.policy, f)
  <2>1. \/ /\ ~ e.ok /\ policy' = e.policy /\ answer' = [call |-> "add", arg |-> f, ret |-> "nomem"]
           /\ links' = links /\ blocks' = blocks
        \/ /\ e.ok /\ policy' = k.policy /\ answer' = [call |-> "add", arg |-> f, ret |-> "ok"]
           /\ \E c \in Unused : /\ blocks' = With(blocks, c, k.field)
                                /\ links' = ListAddTail(InitHead(links, c), c, Headers)
    BY DEF StoreAdd, With, Answers
  <2> HIDE DEF e, k
  <2>2. \/ ~ e.ok /\ policy' = e.policy /\ answer'.ret = "nomem" /\ links' = links /\ blocks' = blocks
        \/ /\ e.ok /\ policy' = k.policy /\ answer'.ret = "ok" /\ answer'.arg = f
           /\ \E c \in Unused : /\ blocks' = With(blocks, c, k.field)
                                /\ links' = ListAddTail(InitHead(links, c), c, Headers)
    BY <2>1
  <2> QED
    BY <2>2 DEF k
<1>5. ASSUME e.ok, FieldCopy(e.policy, f).field = f
      PROVE  answer'.ret = "ok" /\ blocks'[links'.prev[Headers]] = answer'.arg
  <2> HIDE DEF e
  <2>1. PICK c \in Unused : blocks' = With(blocks, c, f) /\ links' = ListAddTail(InitHead(links, c), c, Headers)
    BY <1>4, <1>5
  <2>2. links'.prev[Headers] = c
    <3>1. ListAddTail(InitHead(links, c), c, Headers).prev[Headers] = c
      BY <1>1, HoldsAddHeader DEF Unused
    <3> QED
      BY <2>1, <3>1
  <2>3. blocks'[c] = f
    BY <2>1 DEF With
  <2> QED
    BY <1>4, <1>5, <2>2, <2>3
<1>6. f = [name |-> f.name, value |-> f.value]
  BY FieldsAssumption
<1>7. CASE policy \in Counters /\ frozen = FALSE
  <2> DEFINE p == Called(policy, frozen, "n_malloc")
  <2>1. p \in Counters
    BY <1>7, CountersCalled
  <2>2. e = [policy |-> p, ok |-> ~ Refused(p, frozen)]
    BY DEF Alloc
  <2> HIDE DEF p
  <2>3. (~ Refused(p, frozen)) = TRUE
    BY <1>7, <2>1, CountersCalled
  <2>4. e = [policy |-> p, ok |-> TRUE]
    BY <2>2, <2>3
  <2> HIDE DEF e
  <2>5. e.ok /\ e.policy = p
    BY <2>4
  <2>6. FieldCopy(p, f).field = [name |-> f.name, value |-> f.value]
    BY <1>7, <2>1, FieldCopyCounts
  <2>7. FieldCopy(e.policy, f).field = f
    BY <1>6, <2>5, <2>6
  <2> QED
    BY <1>5, <2>5, <2>7
<1>8. CASE \E a, r : policy \in Schedule(a, r)
  <2>1. PICK a, r : policy \in Schedule(a, r)
    BY <1>8
  <2>2. /\ e.policy \in Schedule(a, r) /\ policy.counter <= e.policy.counter
        /\ e.ok \/ Refused(e.policy, frozen)
    BY <1>1, <2>1, AllocSchedule
  <2> HIDE DEF e
  <2>3. /\ x.policy \in Schedule(a, r) /\ e.policy.counter <= x.policy.counter
        /\ x.ok \/ Refused(x.policy, frozen)
    BY <1>1, <2>2, CopySchedule
  <2> HIDE DEF x
  <2>4. /\ y.policy \in Schedule(a, r) /\ x.policy.counter <= y.policy.counter
        /\ y.ok \/ Refused(y.policy, frozen)
    BY <1>1, <2>3, CopySchedule
  <2> HIDE DEF y
  <2>5. /\ policy.counter \in Nat /\ e.policy.counter \in Nat /\ x.policy.counter \in Nat /\ y.policy.counter \in Nat
    BY <2>1, <2>2, <2>3, <2>4 DEF Schedule
  <2>6. CASE ~ e.ok
    <3>1. policy' = e.policy /\ answer'.ret = "nomem" /\ links' = links /\ blocks' = blocks
      BY <1>4, <2>6
    <3>2. policy'.counter = e.policy.counter /\ policy' \in Schedule(a, r) /\ e.policy.counter <= policy'.counter
      BY <2>2, <2>5, <3>1
    <3>3. Short
      BY <2>1, <2>2, <2>6, <3>2, ShortIs
    <3> QED
      BY <3>1, <3>3
  <2>7. CASE e.ok
    <3>1. policy' = y.policy /\ answer'.ret = "ok"
      BY <1>3, <1>4, <2>7
    <3>2. policy' \in Schedule(a, r) /\ x.policy.counter <= policy'.counter /\ y.policy.counter <= policy'.counter
          /\ policy.counter <= x.policy.counter /\ policy.counter <= y.policy.counter
      BY <2>2, <2>3, <2>4, <2>5, <3>1
    <3>3. CASE ~ x.ok
      <4>1. Refused(x.policy, frozen)
        BY <2>3, <3>3
      <4>2. Short
        BY <2>1, <2>3, <3>2, <4>1, ShortIs
      <4> QED
        BY <3>1, <4>2
    <3>4. CASE ~ y.ok
      <4>1. Refused(y.policy, frozen)
        BY <2>4, <3>4
      <4>2. Short
        BY <2>1, <2>4, <3>2, <4>1, ShortIs
      <4> QED
        BY <3>1, <4>2
    <3>5. CASE x.ok /\ y.ok
      <4>1. g = f
        BY <1>6, <3>5
      <4>2. FieldCopy(e.policy, f).field = f
        BY <1>3, <4>1
      <4> QED
        BY <1>5, <2>7, <4>2
    <3> QED
      BY <3>3, <3>4, <3>5
  <2> QED
    BY <2>6, <2>7
<1> QED
  BY <1>7, <1>8, KeptSays

\* Who is told that there is no memory has lost nothing, and one of its calls
\* was refused; who is told that a field is stored finds all of it there unless
\* one was.
THEOREM AddTellsTheTruth == StoreSpec => StoredOrRefused
<1> DEFINE Told ==
             answer'.call = "add" =>
               CASE answer'.ret = "nomem" -> Short /\ blocks' = blocks /\ links' = links
                 [] answer'.ret = "ok" -> Short \/ blocks'[links'.prev[Headers]] = answer'.arg
<1>1. ASSUME StoreInv, [StoreNext]_svars
      PROVE  [Told]_svars
  <2>1. PICK w, v : Kept(w, v)
    BY <1>1 DEF StoreInv
  <2>2. ASSUME NEW f \in Fields, StoreAdd(f)
        PROVE  Told
    <3>1. CASE answer'.ret = "nomem" /\ Short /\ blocks' = blocks /\ links' = links
      BY <3>1
    <3>2. CASE answer'.ret = "ok" /\ (Short \/ blocks'[links'.prev[Headers]] = answer'.arg)
      BY <3>2
    <3> HIDE DEF Told
    <3> QED
      BY <2>1, <2>2, <3>1, <3>2, AddAnswers
  <2>3. ASSUME NEW i \in Items, NEW at \in {"head", "tail"}, ContentAdd(i, at)
        PROVE  answer'.call = "other"
    BY <2>3 DEF ContentAdd, Answers
  <2>4. ASSUME NEW c \in DOMAIN blocks, ContentFreeItem(c)
        PROVE  answer'.call = "other"
    BY <2>4 DEF ContentFreeItem, Answers
  <2>5. ASSUME StoreMrproper
        PROVE  answer'.call = "other"
    BY <2>5 DEF StoreMrproper, Answers
  <2>6. ASSUME ContentFree
        PROVE  answer'.call = "other"
    BY <2>6 DEF ContentFree, Answers
  <2>7. ASSUME NEW h \in Homes, MoveItems(h)
        PROVE  answer'.call = "other"
    BY <2>7 DEF MoveItems, Answers
  <2>8. ASSUME InvertItems \/ SortItems \/ FreezeOrThaw
        PROVE  answer'.call = "other"
    BY <2>8 DEF InvertItems, SortItems, FreezeOrThaw, Relinked, Answers
  <2>9. answer'.call = "other" => Told
    OBVIOUS
  <2> HIDE DEF Told
  <2>10. StoreNext => Told
    BY <2>2, <2>3, <2>4, <2>5, <2>6, <2>7, <2>8, <2>9 DEF StoreNext
  <2> QED
    BY <1>1, <2>10
<1> QED
  BY <1>1, StoreInvHolds, PTL DEF StoreSpec, StoredOrRefused

-----------------------------------------------------------------------------
(* The two sequences *)

\* What the cells of a list carry.
Carried(b, w) == [i \in 1 .. Len(w) |-> b[w[i]]]

\* That is a sequence as long as the list.
LEMMA CarriedIs ==
  ASSUME NEW b, NEW w \in Seq(Cells), NEW S, \A c \in ToSet(w) : b[c] \in S
  PROVE  /\ Carried(b, w) \in Seq(S) /\ Len(Carried(b, w)) = Len(w) /\ Len(w) \in Nat
         /\ \A i \in 1 .. Len(w) : Carried(b, w)[i] = b[w[i]] /\ w[i] \in ToSet(w)
<1>1. Len(w) \in Nat /\ DOMAIN w = 1 .. Len(w)
  OBVIOUS
<1>2. \A i \in 1 .. Len(w) : w[i] \in ToSet(w)
  BY <1>1 DEF ToSet
<1>3. Carried(b, w) \in [1 .. Len(w) -> S] /\ \A i \in 1 .. Len(w) : Carried(b, w)[i] = b[w[i]]
  BY <1>2 DEF Carried
<1> QED
  BY <1>1, <1>2, <1>3, MakesSeq

\* An empty list carries nothing.
LEMMA CarriedNone ==
  ASSUME NEW b
  PROVE  Carried(b, <<>>) = <<>>
  BY DEF Carried

\* It depends on what these cells carry, and on nothing else.
LEMMA CarriedSame ==
  ASSUME NEW b, NEW e, NEW w \in Seq(Cells), \A c \in ToSet(w) : e[c] = b[c]
  PROVE  Carried(e, w) = Carried(b, w)
<1>1. \A i \in 1 .. Len(w) : w[i] \in ToSet(w)
  <2>1. DOMAIN w = 1 .. Len(w)
    OBVIOUS
  <2> QED
    BY <2>1 DEF ToSet
<1> QED
  BY <1>1 DEF Carried

\* A sequence with one entry more, at either end.
OneFirst(x, s) == <<x>> \o s

OneLast(s, x) == Append(s, x)

\* One entry more.
LEMMA CarriedMore ==
  ASSUME NEW b, NEW w \in Seq(Cells), ToSet(w) \subseteq DOMAIN b, NEW c \in Cells, c \notin DOMAIN b, NEW g
  PROVE  /\ Carried(With(b, c, g), OneLast(w, c)) = OneLast(Carried(b, w), g)
         /\ Carried(With(b, c, g), OneFirst(c, w)) = OneFirst(g, Carried(b, w))
<1> DEFINE n == Len(w)
           e == With(b, c, g)
           S == {b[x] : x \in ToSet(w)} \cup {g}
           k == Carried(b, w)
           y == Append(w, c)
           z == <<c>> \o w
           f == Carried(e, y)
           h == Carried(e, z)
           p == Append(k, g)
           q == <<g>> \o k
<1>1. e[c] = g /\ \A x \in ToSet(w) : e[x] = b[x]
  BY DEF With
<1>2. k \in Seq(S) /\ Len(k) = n /\ n \in Nat /\ \A i \in 1 .. n : k[i] = b[w[i]] /\ w[i] \in ToSet(w)
  <2>1. \A x \in ToSet(w) : b[x] \in S
    OBVIOUS
  <2> HIDE DEF S
  <2> QED
    BY <2>1, CarriedIs
<1>3. g \in S
  OBVIOUS
<1> HIDE DEF e, S, k
<1>4. /\ y \in Seq(Cells) /\ Len(y) = n + 1 /\ \A i \in 1 .. n + 1 : y[i] = IF i = n + 1 THEN c ELSE w[i]
      /\ p \in Seq(S) /\ Len(p) = n + 1 /\ \A i \in 1 .. n + 1 : p[i] = IF i = n + 1 THEN g ELSE k[i]
  <2>1. y \in Seq(Cells) /\ Len(y) = n + 1 /\ \A i \in 1 .. n + 1 : y[i] = IF i = n + 1 THEN c ELSE w[i]
    BY AppendProperties
  <2>2. p \in Seq(S) /\ Len(p) = n + 1 /\ \A i \in 1 .. n + 1 : p[i] = IF i = n + 1 THEN g ELSE k[i]
    BY <1>2, <1>3, AppendProperties
  <2> QED
    BY <2>1, <2>2
<1>5. /\ z \in Seq(Cells) /\ Len(z) = n + 1 /\ \A i \in 1 .. n + 1 : z[i] = IF i <= 1 THEN c ELSE w[i - 1]
      /\ q \in Seq(S) /\ Len(q) = n + 1 /\ \A i \in 1 .. n + 1 : q[i] = IF i <= 1 THEN g ELSE k[i - 1]
  <2>1. <<c>> \in Seq(Cells) /\ Len(<<c>>) = 1 /\ <<c>>[1] = c /\ <<g>> \in Seq(S) /\ Len(<<g>>) = 1 /\ <<g>>[1] = g
    BY <1>3
  <2>2. z \in Seq(Cells) /\ Len(z) = n + 1
    BY <1>2, <2>1, ConcatProperties
  <2>3. q \in Seq(S) /\ Len(q) = n + 1
    BY <1>2, <2>1, ConcatProperties
  <2>4. \A i \in 1 .. n + 1 : z[i] = IF i <= 1 THEN c ELSE w[i - 1]
    <3>1. \A i \in 1 .. n + 1 : i <= 1 => i = 1
      BY <1>2
    <3>2. \A i \in 1 .. Len(<<c>>) + Len(w) : z[i] = IF i <= Len(<<c>>) THEN <<c>>[i] ELSE w[i - Len(<<c>>)]
      BY <2>1, ConcatProperties
    <3>3. 1 + n = n + 1
      BY <1>2
    <3> HIDE DEF z, n
    <3> QED
      BY <2>1, <3>1, <3>2, <3>3 DEF n
  <2>5. \A i \in 1 .. n + 1 : q[i] = IF i <= 1 THEN g ELSE k[i - 1]
    <3>1. \A i \in 1 .. n + 1 : i <= 1 => i = 1
      BY <1>2
    <3>2. \A i \in 1 .. Len(<<g>>) + Len(k) : q[i] = IF i <= Len(<<g>>) THEN <<g>>[i] ELSE k[i - Len(<<g>>)]
      BY <1>2, <2>1, ConcatProperties
    <3>3. 1 + n = n + 1
      BY <1>2
    <3> HIDE DEF q, n
    <3> QED
      BY <1>2, <2>1, <3>1, <3>2, <3>3 DEF n
  <2> QED
    BY <2>2, <2>3, <2>4, <2>5
<1> HIDE DEF y, z, p, q, n
<1>6. f = [i \in 1 .. n + 1 |-> e[y[i]]] /\ h = [i \in 1 .. n + 1 |-> e[z[i]]]
  BY <1>4, <1>5 DEF Carried
<1>7. p = [i \in 1 .. n + 1 |-> p[i]] /\ q = [i \in 1 .. n + 1 |-> q[i]]
  BY <1>4, <1>5
<1>8. ASSUME NEW i \in 1 .. n + 1 PROVE e[y[i]] = p[i]
  <2>1. CASE i = n + 1
    BY <1>1, <1>4, <2>1
  <2>2. CASE i # n + 1
    <3>1. i \in 1 .. n
      BY <1>2, <2>2
    <3> QED
      BY <1>1, <1>2, <1>4, <2>2, <3>1
  <2> QED
    BY <2>1, <2>2
<1>9. ASSUME NEW i \in 1 .. n + 1 PROVE e[z[i]] = q[i]
  <2>1. CASE i <= 1
    BY <1>1, <1>5, <2>1
  <2>2. CASE ~ (i <= 1)
    <3>1. i - 1 \in 1 .. n
      BY <1>2, <2>2
    <3> QED
      BY <1>1, <1>2, <1>5, <2>2, <3>1, SMTT(30)
  <2> QED
    BY <2>1, <2>2
<1> HIDE DEF f, h
<1>10. f = p /\ h = q
  BY <1>6, <1>7, <1>8, <1>9
<1>11. Carried(With(b, c, g), y) = p /\ Carried(With(b, c, g), z) = q
  BY <1>10 DEF f, h, e
<1>12. y = OneLast(w, c) /\ p = OneLast(Carried(b, w), g)
  BY Zenon DEF y, p, k, OneLast
<1>13. z = OneFirst(c, w) /\ q = OneFirst(g, Carried(b, w))
  BY Zenon DEF z, q, k, OneFirst
<1> QED
  BY <1>11, <1>12, <1>13, Zenon

\* One less.
LEMMA CarriedLess ==
  ASSUME NEW b, NEW w \in Seq(Cells), NEW j \in 1 .. Len(w)
  PROVE  Carried(b, RemoveAt(w, j)) = RemoveAt(Carried(b, w), j)
<1> DEFINE n == Len(w)
           S == {b[x] : x \in ToSet(w)}
           k == Carried(b, w)
           y == RemoveAt(w, j)
           p == RemoveAt(k, j)
<1>1. k \in Seq(S) /\ Len(k) = n /\ n \in Nat /\ j \in 1 .. n /\ \A i \in 1 .. n : k[i] = b[w[i]]
  <2>1. \A x \in ToSet(w) : b[x] \in S
    OBVIOUS
  <2> HIDE DEF S
  <2> QED
    BY <2>1, CarriedIs
<1> HIDE DEF S, k
<1>2. y \in Seq(Cells) /\ Len(y) = n - 1 /\ \A i \in 1 .. n - 1 : y[i] = IF i < j THEN w[i] ELSE w[i + 1]
  BY RemoveAtIs
<1>3. p \in Seq(S) /\ Len(p) = n - 1 /\ \A i \in 1 .. n - 1 : p[i] = IF i < j THEN k[i] ELSE k[i + 1]
  BY <1>1, RemoveAtIs
<1> HIDE DEF y, p, n
<1>4. Carried(b, y) = [i \in 1 .. n - 1 |-> b[y[i]]]
  BY <1>2 DEF Carried
<1>5. p = [i \in 1 .. n - 1 |-> p[i]]
  BY <1>3
<1>6. ASSUME NEW i \in 1 .. n - 1 PROVE b[y[i]] = p[i]
  <2>1. i \in 1 .. n /\ i + 1 \in 1 .. n
    BY <1>1
  <2> QED
    BY <1>1, <1>2, <1>3, <2>1
<1> QED
  BY <1>4, <1>5, <1>6 DEF y, p, k

\* Turned around.
LEMMA CarriedReverse ==
  ASSUME NEW b, NEW w \in Seq(Cells)
  PROVE  Carried(b, Reverse(w)) = Reverse(Carried(b, w))
<1> DEFINE n == Len(w)
           k == Carried(b, w)
<1>1. n \in Nat /\ Len(k) = n /\ k = [i \in 1 .. n |-> b[w[i]]]
  <2>1. \A x \in ToSet(w) : b[x] \in {b[c] : c \in ToSet(w)}
    OBVIOUS
  <2>2. Len(k) = n
    BY <2>1, CarriedIs
  <2> QED
    BY <2>2 DEF Carried
<1>2. Reverse(w) = [i \in 1 .. n |-> w[(n - i) + 1]]
  BY DEF Reverse
<1>3. Len(Reverse(w)) = n
  BY DEF Reverse
<1> HIDE DEF n
<1>4. \A i \in 1 .. n : (n - i) + 1 \in 1 .. n
  BY <1>1
<1>5. Carried(b, Reverse(w)) = [i \in 1 .. n |-> b[w[(n - i) + 1]]]
  BY <1>2, <1>3 DEF Carried
<1>6. Reverse(k) = [i \in 1 .. n |-> k[(n - i) + 1]]
  <2> HIDE DEF k
  <2> QED
    BY <1>1 DEF Reverse
<1>7. \A i \in 1 .. n : k[(n - i) + 1] = b[w[(n - i) + 1]]
  BY <1>1, <1>4
<1> HIDE DEF k
<1>8. Carried(b, Reverse(w)) = Reverse(k)
  BY <1>5, <1>6, <1>7
<1> QED
  BY <1>8 DEF k

\* Sorted.
LEMMA CarriedSort ==
  ASSUME NEW b, NEW w \in Seq(Cells), \A c \in ToSet(w) : b[c] \in Items
  PROVE  LET s == Carried(b, SortPasses(b, w))
             t == Carried(b, w)
         IN  Len(s) = Len(t) /\ Sequences2!SortOf(s, t)
<1> DEFINE n == Len(w)
           x == SortPasses(b, w)
           s == Carried(b, x)
           t == Carried(b, w)
<1>1. PICK m : SortedBy(b, w, x, m)
  BY SortIs
<1> HIDE DEF x
<1>2. Moved(w, x, m)
  BY <1>1 DEF SortedBy
<1>3. x \in Seq(Cells) /\ Len(x) = n /\ n \in Nat /\ \A i \in 1 .. n : m[i] \in 1 .. n /\ x[i] = w[m[i]]
  BY <1>2, MovedIs
<1>4. m \in [1 .. n -> 1 .. n] /\ \A i, j \in 1 .. n : m[i] = m[j] => i = j
  BY <1>2 DEF Moved
<1>5. \A i \in 1 .. n : b[w[i]] \in Items
  <2>1. DOMAIN w = 1 .. n
    OBVIOUS
  <2> QED
    BY <2>1 DEF ToSet
<1>6. t = [i \in 1 .. n |-> b[w[i]]] /\ s = [i \in 1 .. n |-> b[x[i]]] /\ DOMAIN t = 1 .. n
  BY <1>3 DEF Carried
<1>7. Len(t) = n /\ Len(s) = n
  <2>1. t \in [1 .. n -> Items]
    BY <1>5, <1>6
  <2>2. s \in [1 .. n -> Items]
    BY <1>3, <1>5, <1>6
  <2> QED
    BY <1>3, <2>1, <2>2, MakesSeq
<1> HIDE DEF n, s, t
<1>8. s = [i \in DOMAIN t |-> t[m[i]]]
  <2>1. \A i \in 1 .. n : b[x[i]] = t[m[i]]
    BY <1>3, <1>6
  <2> QED
    BY <1>6, <2>1
<1>9. Orders({b[w[i]] : i \in 1 .. Len(w)})
  <2>1. {b[w[i]] : i \in 1 .. Len(w)} \subseteq Items
    BY <1>5 DEF n
  <2> QED
    BY <2>1, OrderAssumption DEF Orders
<1>10. ASSUME NEW i \in 1 .. n, NEW j \in 1 .. n, i < j
       PROVE  m[i] # m[j] /\ Compare(t[m[i]], t[m[j]]) /\ (Compare(t[m[j]], t[m[i]]) => m[i] < m[j])
  <2> DEFINE E == InfoOf(b, w, m)
  <2>1. Before(E, m, i, j)
    BY <1>1, <1>9, <1>10 DEF SortedBy, n
  <2>2. E[i] = t[m[i]] /\ E[j] = t[m[j]]
    BY <1>3, <1>6 DEF InfoOf, n
  <2> HIDE DEF E
  <2>3. Compare(E[i], E[j]) /\ (Compare(E[j], E[i]) => m[i] < m[j])
    BY <2>1 DEF Before
  <2>4. m[i] # m[j]
    BY <1>3, <1>4, <1>10
  <2> QED
    BY <2>2, <2>3, <2>4
<1>11. m \in [DOMAIN t -> DOMAIN t]
  BY <1>4, <1>6
<1>12. \A i, j \in DOMAIN t :
         i < j => /\ m[i] # m[j]
                  /\ Compare(t[m[i]], t[m[j]])
                  /\ Compare(t[m[j]], t[m[i]]) => m[i] < m[j]
  BY <1>6, <1>10
<1>13. \E p \in [DOMAIN t -> DOMAIN t] :
         /\ \A i, j \in DOMAIN t :
              i < j => /\ p[i] # p[j]
                       /\ Compare(t[p[i]], t[p[j]])
                       /\ Compare(t[p[j]], t[p[i]]) => p[i] < p[j]
         /\ s = [i \in DOMAIN t |-> t[p[i]]]
  BY <1>8, <1>11, <1>12, Zenon
<1>14. Sequences2!SortOf(s, t)
  BY <1>13, Zenon DEF Sequences2!SortOf
<1> QED
  BY <1>7, <1>14 DEF s, t, x

\* The two sequences are what the cells of the two rings carry.
LEMMA KeptLists ==
  ASSUME NEW w, NEW v, Kept(w, v)
  PROVE  HeaderList = Carried(blocks, w) /\ ItemList = Carried(blocks, v)
<1>1. /\ Walk(links, Headers) = w /\ Walk(links, home) = v
      /\ DOMAIN w = 1 .. Len(w) /\ DOMAIN v = 1 .. Len(v)
  <2>1. Walk(links, Headers) = w /\ Walk(links, home) = v
    BY KeptSays
  <2>2. w \in Seq(Cells) /\ v \in Seq(Cells)
    BY KeptSays
  <2> QED
    BY <2>1, <2>2
<1>2. \A n \in 1 .. Len(w) : GetN(n).field = blocks[w[n]]
  BY <1>1 DEF GetN
<1>3. HeaderList = [n \in 1 .. Len(w) |-> GetN(n).field]
  BY <1>1 DEF HeaderList, ListLen
<1>4. HeaderList = Carried(blocks, w)
  BY <1>2, <1>3 DEF Carried
<1>5. ItemList = Carried(blocks, v)
  BY <1>1 DEF ItemList, Carried
<1> QED
  BY <1>4, <1>5

\* And so they are behind a step.
LEMMA KeptListsNext ==
  ASSUME NEW w, NEW v, Kept(w, v)'
  PROVE  HeaderList' = Carried(blocks', w) /\ ItemList' = Carried(blocks', v)
<1>1. /\ Walk(links', Headers) = w /\ Walk(links', home') = v
      /\ DOMAIN w = 1 .. Len(w) /\ DOMAIN v = 1 .. Len(v)
  <2>1. home' \in Homes /\ Holds(links', blocks', home', w, v)
    BY DEF Kept
  <2>2. Walk(links', Headers) = w /\ Walk(links', home') = v
    BY <2>1, HoldsSays
  <2>3. w \in Seq(Cells) /\ v \in Seq(Cells)
    BY <2>1, HoldsSays
  <2> QED
    BY <2>2, <2>3
<1>2. \A n \in 1 .. Len(w) : GetN(n)'.field = blocks'[w[n]]
  BY <1>1 DEF GetN
<1>3. HeaderList' = [n \in 1 .. Len(w) |-> GetN(n)'.field]
  BY <1>1 DEF HeaderList, ListLen
<1>4. HeaderList' = Carried(blocks', w)
  BY <1>2, <1>3 DEF Carried
<1>5. ItemList' = Carried(blocks', v)
  BY <1>1 DEF ItemList, Carried
<1> QED
  BY <1>4, <1>5

\* hpack_header_store_add puts some of the parts of the field behind the headers.
LEMMA AddIsAdd ==
  ASSUME NEW w, NEW v, Kept(w, v), NEW f \in Fields, StoreAdd(f)
  PROVE  Sequences2!AddHeader(f) \/ UNCHANGED Sequences2!lvars
<1>1. HeaderList = Carried(blocks, w) /\ ItemList = Carried(blocks, v)
  BY KeptLists
<1>2. CASE blocks' = blocks /\ Kept(w, v)'
  <2>1. HeaderList' = Carried(blocks, w) /\ ItemList' = Carried(blocks, v)
    BY <1>2, KeptListsNext
  <2> QED
    BY <1>1, <2>1 DEF Sequences2!lvars
<1>3. ASSUME NEW c \in Unused, NEW g \in [name : {f.name, <<>>}, value : {f.value, <<>>}],
             blocks' = With(blocks, c, g), Kept(Append(w, c), v)'
      PROVE  Sequences2!AddHeader(f)
  <2>1. HeaderList' = Carried(With(blocks, c, g), Append(w, c)) /\ ItemList' = Carried(With(blocks, c, g), v)
    BY <1>3, KeptListsNext
  <2>2. /\ c \in Cells /\ c \notin DOMAIN blocks /\ w \in Seq(Cells) /\ v \in Seq(Cells)
        /\ ToSet(w) \subseteq DOMAIN blocks /\ ToSet(v) \subseteq DOMAIN blocks
    BY KeptSays DEF Unused, Holds
  <2>3. Carried(With(blocks, c, g), OneLast(w, c)) = OneLast(Carried(blocks, w), g)
    BY <2>2, CarriedMore
  <2>4. Carried(With(blocks, c, g), v) = Carried(blocks, v)
    <3>1. \A x \in ToSet(v) : With(blocks, c, g)[x] = blocks[x]
      BY <2>2 DEF With
    <3> QED
      BY <2>2, <3>1, CarriedSame
  <2>5. HeaderList' = Append(HeaderList, g) /\ ItemList' = ItemList
    <3>1. HeaderList' = Carried(With(blocks, c, g), OneLast(w, c))
      BY <2>1, Zenon DEF OneLast
    <3>2. HeaderList' = OneLast(HeaderList, g) /\ ItemList' = ItemList
      BY <1>1, <2>1, <2>3, <2>4, <3>1
    <3> QED
      BY <3>2, Zenon DEF OneLast
  <2>6. g \in Sequences2!Parts(f)
    BY DEF Sequences2!Parts
  <2> QED
    BY <2>5, <2>6 DEF Sequences2!AddHeader
<1>4. \/ blocks' = blocks /\ Kept(w, v)'
      \/ \E c \in Unused, g \in [name : {f.name, <<>>}, value : {f.value, <<>>}] :
           blocks' = With(blocks, c, g) /\ Kept(Append(w, c), v)'
  BY AddStep
<1> QED
  BY <1>2, <1>3, <1>4

\* chula_list_content_add puts an item at an end of the items.
LEMMA PushIsPush ==
  ASSUME NEW w, NEW v, Kept(w, v), NEW i \in Items, NEW at, ContentAdd(i, at)
  PROVE  Sequences2!Push(i) \/ UNCHANGED Sequences2!lvars
<1>1. HeaderList = Carried(blocks, w) /\ ItemList = Carried(blocks, v)
  BY KeptLists
<1>2. CASE blocks' = blocks /\ Kept(w, v)'
  <2>1. HeaderList' = Carried(blocks, w) /\ ItemList' = Carried(blocks, v)
    BY <1>2, KeptListsNext
  <2> QED
    BY <1>1, <2>1 DEF Sequences2!lvars
<1>3. ASSUME NEW c \in Unused, NEW y, y \in {<<c>> \o v, Append(v, c)},
             blocks' = With(blocks, c, i), Kept(w, y)'
      PROVE  Sequences2!Push(i)
  <2>1. HeaderList' = Carried(With(blocks, c, i), w) /\ ItemList' = Carried(With(blocks, c, i), y)
    BY <1>3, KeptListsNext
  <2>2. /\ c \in Cells /\ c \notin DOMAIN blocks /\ w \in Seq(Cells) /\ v \in Seq(Cells)
        /\ ToSet(w) \subseteq DOMAIN blocks /\ ToSet(v) \subseteq DOMAIN blocks
    BY KeptSays DEF Unused, Holds
  <2>3. /\ Carried(With(blocks, c, i), OneLast(v, c)) = OneLast(Carried(blocks, v), i)
        /\ Carried(With(blocks, c, i), OneFirst(c, v)) = OneFirst(i, Carried(blocks, v))
    BY <2>2, CarriedMore
  <2>4. Carried(With(blocks, c, i), w) = Carried(blocks, w)
    <3>1. \A x \in ToSet(w) : With(blocks, c, i)[x] = blocks[x]
      BY <2>2 DEF With
    <3> QED
      BY <2>2, <3>1, CarriedSame
  <2>5. HeaderList' = HeaderList
    BY <1>1, <2>1, <2>4
  <2>6. ItemList' \in {<<i>> \o ItemList, Append(ItemList, i)}
    <3>1. y = OneFirst(c, v) \/ y = OneLast(v, c)
      BY <1>3, Zenon DEF OneFirst, OneLast
    <3>2. ItemList' = OneFirst(i, ItemList) \/ ItemList' = OneLast(ItemList, i)
      BY <1>1, <2>1, <2>3, <3>1
    <3> QED
      BY <3>2, Zenon DEF OneFirst, OneLast
  <2> QED
    BY <2>5, <2>6 DEF Sequences2!Push
<1>4. \/ blocks' = blocks /\ Kept(w, v)'
      \/ \E c \in Unused : \E y \in {<<c>> \o v, Append(v, c)} : blocks' = With(blocks, c, i) /\ Kept(w, y)'
  BY PushStep
<1> QED
  BY <1>2, <1>3, <1>4

\* chula_list_content_free_item takes out the item at some place.
LEMMA DropIsDrop ==
  ASSUME NEW w, NEW v, Kept(w, v), NEW c, ContentFreeItem(c)
  PROVE  \E k \in DOMAIN ItemList : Sequences2!Drop(k)
<1>1. HeaderList = Carried(blocks, w) /\ ItemList = Carried(blocks, v)
  BY KeptLists
<1>2. PICK j \in 1 .. Len(v) : blocks' = Without(blocks, {v[j]}) /\ Kept(w, RemoveAt(v, j))'
  BY DropStep
<1>3. /\ HeaderList' = Carried(Without(blocks, {v[j]}), w)
      /\ ItemList' = Carried(Without(blocks, {v[j]}), RemoveAt(v, j))
  BY <1>2, KeptListsNext
<1>4. /\ w \in Seq(Cells) /\ v \in Seq(Cells) /\ ToSet(w) \cap ToSet(v) = {} /\ home \in Homes
      /\ ToSet(w) \subseteq DOMAIN blocks /\ ToSet(v) \subseteq DOMAIN blocks /\ Loop(home, v)
  <2>1. home \in Homes /\ Holds(links, blocks, home, w, v) /\ Loop(home, v)
    BY KeptSays
  <2>2. w \in Seq(Cells) /\ v \in Seq(Cells) /\ ToSet(w) \cap ToSet(v) = {}
    BY <2>1, HoldsSays
  <2> QED
    BY <2>1, <2>2 DEF Holds
<1>5. v[j] \in ToSet(v)
  BY <1>4 DEF ToSet
<1>6. Carried(Without(blocks, {v[j]}), w) = Carried(blocks, w)
  <2>1. \A x \in ToSet(w) : Without(blocks, {v[j]})[x] = blocks[x]
    BY <1>4, <1>5 DEF Without
  <2> QED
    BY <1>4, <2>1, CarriedSame
<1>7. Carried(Without(blocks, {v[j]}), RemoveAt(v, j)) = Carried(blocks, RemoveAt(v, j))
  <2>1. ToSet(RemoveAt(v, j)) = ToSet(v) \ {v[j]}
    BY <1>4, RemovedSet
  <2>2. \A x \in ToSet(RemoveAt(v, j)) : Without(blocks, {v[j]})[x] = blocks[x]
    BY <1>4, <2>1 DEF Without
  <2>3. RemoveAt(v, j) \in Seq(Cells)
    BY <1>4, RemoveAtIs
  <2> QED
    BY <2>2, <2>3, CarriedSame
<1>8. Carried(blocks, RemoveAt(v, j)) = RemoveAt(Carried(blocks, v), j)
  BY <1>4, CarriedLess
<1>9. HeaderList' = HeaderList
  BY <1>1, <1>3, <1>6
<1>10. ItemList' = RemoveAt(ItemList, j)
  BY <1>1, <1>3, <1>7, <1>8
<1>11. j \in DOMAIN ItemList
  BY <1>1 DEF Carried
<1>12. Sequences2!Drop(j)
  BY <1>9, <1>10 DEF Sequences2!Drop, Sequences2!RemoveAt, RemoveAt
<1> QED
  BY <1>11, <1>12

\* hpack_header_store_mrproper drops the headers and no item.
LEMMA MrproperIsDrop ==
  ASSUME NEW w, NEW v, Kept(w, v), StoreMrproper
  PROVE  Sequences2!DropHeaders
<1>1. HeaderList = Carried(blocks, w) /\ ItemList = Carried(blocks, v)
  BY KeptLists
<1>2. blocks' = Without(blocks, ToSet(w)) /\ Kept(<<>>, v)'
  BY MrproperStep
<1>3. /\ HeaderList' = Carried(Without(blocks, ToSet(w)), <<>>)
      /\ ItemList' = Carried(Without(blocks, ToSet(w)), v)
  BY <1>2, KeptListsNext
<1>4. v \in Seq(Cells) /\ ToSet(w) \cap ToSet(v) = {} /\ ToSet(v) \subseteq DOMAIN blocks
  <2>1. home \in Homes /\ Holds(links, blocks, home, w, v)
    BY KeptSays
  <2>2. v \in Seq(Cells) /\ ToSet(w) \cap ToSet(v) = {}
    BY <2>1, HoldsSays
  <2> QED
    BY <2>1, <2>2 DEF Holds
<1>5. Carried(Without(blocks, ToSet(w)), v) = Carried(blocks, v)
  <2>1. \A x \in ToSet(v) : Without(blocks, ToSet(w))[x] = blocks[x]
    BY <1>4 DEF Without
  <2> QED
    BY <1>4, <2>1, CarriedSame
<1>6. HeaderList' = <<>>
  BY <1>3, CarriedNone
<1>7. ItemList' = ItemList
  BY <1>1, <1>3, <1>5
<1> QED
  BY <1>6, <1>7 DEF Sequences2!DropHeaders

\* chula_list_content_free drops the items and no header.
LEMMA FreeIsDropAll ==
  ASSUME NEW w, NEW v, Kept(w, v), ContentFree
  PROVE  Sequences2!DropAll
<1>1. HeaderList = Carried(blocks, w) /\ ItemList = Carried(blocks, v)
  BY KeptLists
<1>2. blocks' = Without(blocks, ToSet(v)) /\ Kept(w, <<>>)'
  BY FreeStep
<1>3. /\ HeaderList' = Carried(Without(blocks, ToSet(v)), w)
      /\ ItemList' = Carried(Without(blocks, ToSet(v)), <<>>)
  BY <1>2, KeptListsNext
<1>4. w \in Seq(Cells) /\ ToSet(w) \cap ToSet(v) = {} /\ ToSet(w) \subseteq DOMAIN blocks
  <2>1. home \in Homes /\ Holds(links, blocks, home, w, v)
    BY KeptSays
  <2>2. w \in Seq(Cells) /\ ToSet(w) \cap ToSet(v) = {}
    BY <2>1, HoldsSays
  <2> QED
    BY <2>1, <2>2 DEF Holds
<1>5. Carried(Without(blocks, ToSet(v)), w) = Carried(blocks, w)
  <2>1. \A x \in ToSet(w) : Without(blocks, ToSet(v))[x] = blocks[x]
    BY <1>4 DEF Without
  <2> QED
    BY <1>4, <2>1, CarriedSame
<1>6. ItemList' = <<>>
  BY <1>3, CarriedNone
<1>7. HeaderList' = HeaderList
  BY <1>1, <1>3, <1>5
<1> QED
  BY <1>6, <1>7 DEF Sequences2!DropAll

\* chula_list_invert turns the items, and leaves the headers.
LEMMA InvertIsBackwards ==
  ASSUME NEW w, NEW v, Kept(w, v), InvertItems
  PROVE  Sequences2!Backwards
<1>1. HeaderList = Carried(blocks, w) /\ ItemList = Carried(blocks, v)
  BY KeptLists
<1>2. blocks' = blocks /\ Kept(w, Reverse(v))'
  BY InvertStep
<1>3. HeaderList' = Carried(blocks, w) /\ ItemList' = Carried(blocks, Reverse(v))
  BY <1>2, KeptListsNext
<1>4. v \in Seq(Cells)
  BY KeptSays
<1>5. Carried(blocks, Reverse(v)) = Reverse(Carried(blocks, v))
  BY <1>4, CarriedReverse
<1>6. HeaderList' = HeaderList
  BY <1>1, <1>3
<1>7. ItemList' = Reverse(ItemList)
  BY <1>1, <1>3, <1>5
<1>8. ItemList' = Sequences2!Reverse(ItemList)
  BY <1>7, Zenon DEF Reverse, Sequences2!Reverse
<1> QED
  BY <1>6, <1>8 DEF Sequences2!Backwards

\* chula_list_sort sorts the items without changing the order of equal ones.
LEMMA SortIsSorted ==
  ASSUME NEW w, NEW v, Kept(w, v), SortItems
  PROVE  Sequences2!Sorted
<1>1. HeaderList = Carried(blocks, w) /\ ItemList = Carried(blocks, v)
  BY KeptLists
<1>2. blocks' = blocks /\ Kept(w, SortPasses(blocks, v))'
  BY SortStep
<1>3. HeaderList' = Carried(blocks, w) /\ ItemList' = Carried(blocks, SortPasses(blocks, v))
  BY <1>2, KeptListsNext
<1>4. v \in Seq(Cells) /\ \A c \in ToSet(v) : blocks[c] \in Items
  <2>1. v \in Seq(Cells) /\ Holds(links, blocks, home, w, v)
    BY KeptSays
  <2> QED
    BY <2>1 DEF Holds
<1>5. Len(Carried(blocks, SortPasses(blocks, v))) = Len(Carried(blocks, v))
  BY <1>4, CarriedSort
<1>6. Sequences2!SortOf(Carried(blocks, SortPasses(blocks, v)), Carried(blocks, v))
  BY <1>4, CarriedSort
<1>7. Len(ItemList') = Len(ItemList) /\ Sequences2!SortOf(ItemList', ItemList)
  BY <1>1, <1>3, <1>5, <1>6
<1>8. HeaderList' = HeaderList
  BY <1>1, <1>3
<1> QED
  BY <1>7, <1>8 DEF Sequences2!Sorted

\* A step that leaves lists and blocks as they are changes neither sequence.
LEMMA SameIsStutter ==
  ASSUME NEW w, NEW v, Kept(w, v), blocks' = blocks, Kept(w, v)'
  PROVE  UNCHANGED Sequences2!lvars
<1>1. HeaderList = Carried(blocks, w) /\ ItemList = Carried(blocks, v)
  BY KeptLists
<1>2. HeaderList' = Carried(blocks, w) /\ ItemList' = Carried(blocks, v)
  BY KeptListsNext
<1> QED
  BY <1>1, <1>2 DEF Sequences2!lvars

\* Seen through what the cells of the two lists carry, every call on the rings
\* is the call on the sequences, or changes neither.
THEOREM StoreIsTwoLists == StoreSpec => RefinesLists
<1>1. ASSUME StoreInit
      PROVE  Sequences2!ListsInit
  <2>1. Kept(<<>>, <<>>)
    BY <1>1, EmptyStore
  <2>2. HeaderList = Carried(blocks, <<>>) /\ ItemList = Carried(blocks, <<>>)
    BY <2>1, KeptLists
  <2> QED
    BY <2>2, CarriedNone DEF Sequences2!ListsInit
<1>2. ASSUME StoreInv, [StoreNext]_svars
      PROVE  [Sequences2!ListsNext]_(Sequences2!lvars)
  <2> DEFINE Done == [Sequences2!ListsNext]_(Sequences2!lvars)
  <2>1. PICK w, v : Kept(w, v)
    BY <1>2 DEF StoreInv
  <2>2. ASSUME NEW f \in Fields, StoreAdd(f)
        PROVE  Done
    BY <2>1, <2>2, AddIsAdd DEF Sequences2!ListsNext
  <2>3. ASSUME NEW i \in Items, NEW at \in {"head", "tail"}, ContentAdd(i, at)
        PROVE  Done
    BY <2>1, <2>3, PushIsPush DEF Sequences2!ListsNext
  <2>4. ASSUME NEW c \in DOMAIN blocks, ContentFreeItem(c)
        PROVE  Done
    <3>1. \E k \in DOMAIN ItemList : Sequences2!Drop(k)
      BY <2>1, <2>4, DropIsDrop
    <3> QED
      BY <3>1 DEF Sequences2!ListsNext
  <2>5. ASSUME StoreMrproper
        PROVE  Done
    BY <2>1, <2>5, MrproperIsDrop DEF Sequences2!ListsNext
  <2>6. ASSUME ContentFree
        PROVE  Done
    BY <2>1, <2>6, FreeIsDropAll DEF Sequences2!ListsNext
  <2>7. ASSUME NEW h \in Homes, MoveItems(h)
        PROVE  Done
    <3>1. blocks' = blocks /\ Kept(w, v)'
      BY <2>1, <2>7, MoveStep
    <3> QED
      BY <2>1, <3>1, SameIsStutter
  <2>8. ASSUME InvertItems
        PROVE  Done
    BY <2>1, <2>8, InvertIsBackwards DEF Sequences2!ListsNext
  <2>9. ASSUME SortItems
        PROVE  Done
    BY <2>1, <2>9, SortIsSorted DEF Sequences2!ListsNext
  <2>10. ASSUME FreezeOrThaw
        PROVE  Done
    <3>1. blocks' = blocks /\ Kept(w, v)'
      BY <2>1, <2>10, FreezeStep
    <3> QED
      BY <2>1, <3>1, SameIsStutter
  <2>11. ASSUME UNCHANGED svars
        PROVE  Done
    <3>1. blocks' = blocks /\ Kept(w, v)'
      BY <2>1, <2>11 DEF svars, Kept, PolicyOK
    <3> QED
      BY <2>1, <3>1, SameIsStutter
  <2> HIDE DEF Done
  <2>12. StoreNext => Done
    BY <2>2, <2>3, <2>4, <2>5, <2>6, <2>7, <2>8, <2>9, <2>10 DEF StoreNext
  <2>13. StoreNext \/ UNCHANGED svars
    BY <1>2
  <2>14. Done
    BY <2>11, <2>12, <2>13
  <2> QED
    BY <2>14 DEF Done
<1> QED
  BY <1>1, <1>2, StoreInvHolds, PTL DEF StoreSpec, RefinesLists, Sequences2!ListsSpec
=============================================================================
