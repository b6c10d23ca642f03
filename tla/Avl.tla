--------------------------------- MODULE Avl ---------------------------------
(***************************************************************************)
(* The AVL tree of libchula (avl_generic.c, avl.c): a binary search tree   *)
(* whose missing children are threads to the nodes before and after, kept  *)
(* balanced with the difference of the heights of each node.  A node is    *)
(* named after its key: the tree never holds two with the same key, and    *)
(* the node of a key that is already there is not linked at all.           *)
(***************************************************************************)
EXTENDS Integers, Sequences, FiniteSets, TLC

CONSTANTS
  Keys,
  KeyLen, KeyText, KeyFolded,  \* length, place among the keys of that length
                               \* as memcmp and as strncasecmp see it
  Values,     \* Values[k]: what the client stores under k
  Null,       \* NULL
  ShortBits,  \* 16: the width of the result of a comparison
  MaxWalked   \* bound: nodes of a tree that is walked

VARIABLES
  case_insensitive,
  root, node,  \* the nodes that are allocated, by key
  walk,        \* the node chula_avl_generic_while calls its function for
  answer       \* what the last call returned, and the value it gave

avars == <<case_insensitive, root, node, walk, answer>>

-----------------------------------------------------------------------------
(* Comparison *)

\* chula_buffer_cmp_buf: the shorter one first
CmpBuf(A, B) ==
  IF KeyLen[A] # KeyLen[B] THEN KeyLen[A] - KeyLen[B] ELSE KeyText[A] - KeyText[B]

CaseCmpBuf(A, B) ==
  IF KeyLen[A] # KeyLen[B] THEN KeyLen[A] - KeyLen[B] ELSE KeyFolded[A] - KeyFolded[B]

\* node_cmp, into a short
NodeCmp(A, B) ==
  LET re   == IF case_insensitive THEN CaseCmpBuf(A, B) ELSE CmpBuf(A, B)
      half == 2 ^ (ShortBits - 1)
  IN  ((re + half) % (2 * half)) - half

NodeIsEmpty(key) == KeyLen[key] = 0

\* A difference of lengths that does not fit in a short is taken for another
\* one, and the keys are not ordered any more.
ASSUME KeysFitShort ==
  \A A, B \in Keys : CmpBuf(A, B) < 2 ^ (ShortBits - 1) /\ CaseCmpBuf(A, B) < 2 ^ (ShortBits - 1)

-----------------------------------------------------------------------------
(* Nodes.  t is the function from the allocated nodes to their contents. *)

NodeInit(value) ==
  [balance |-> 0, left |-> Null, right |-> Null,
   left_child |-> FALSE, right_child |-> FALSE, value |-> value]

RECURSIVE Leftmost(_, _), Rightmost(_, _)
Leftmost(t, n)  == IF t[n].left_child THEN Leftmost(t, t[n].left) ELSE n
Rightmost(t, n) == IF t[n].right_child THEN Rightmost(t, t[n].right) ELSE n

NodeFirst(t, top) == IF top = Null THEN Null ELSE Leftmost(t, top)

NodeNext(t, n) == IF t[n].right_child THEN Leftmost(t, t[n].right) ELSE t[n].right

NodePrev(t, n) == IF t[n].left_child THEN Rightmost(t, t[n].left) ELSE t[n].left

RotateLeft(t, n) ==
  LET r == t[n].right
      a == t[n].balance
      b == t[r].balance
      child == t[r].left_child
  IN  [top |-> r,
       tree |-> [t EXCEPT
         ![n].right = IF child THEN t[r].left ELSE r,
         ![n].right_child = child,
         ![n].balance = IF b <= 0 THEN a - 1 ELSE a - b - 1,
         ![r].left = n, ![r].left_child = TRUE,
         ![r].balance = IF b <= 0
                        THEN IF a >= 1 THEN b - 1 ELSE a + b - 2
                        ELSE IF a <= b THEN a - 2 ELSE b - 1]]

\* Slip: a subtree that does not exist is handed over, and the thread with it.
RotateRightThread(t, n) ==
  LET l == t[n].left
      a == t[n].balance
      b == t[l].balance
  IN  [top |-> l,
       tree |-> [t EXCEPT
         ![n].left = t[l].right, ![n].left_child = t[l].right_child,
         ![n].balance = IF b <= 0 THEN a - b + 1 ELSE a + 1,
         ![l].right = n, ![l].right_child = TRUE,
         ![l].balance = IF b <= 0
                        THEN IF b > a THEN b + 1 ELSE a + 2
                        ELSE IF a <= -1 THEN b + 1 ELSE a + b + 2]]

RotateRight(t, n) ==
  LET l == t[n].left
      a == t[n].balance
      b == t[l].balance
      child == t[l].right_child
  IN  [top |-> l,
       tree |-> [t EXCEPT
         ![n].left = IF child THEN t[l].right ELSE l,
         ![n].left_child = child,
         ![n].balance = IF b <= 0 THEN a - b + 1 ELSE a + 1,
         ![l].right = n, ![l].right_child = TRUE,
         ![l].balance = IF b <= 0
                        THEN IF b > a THEN b + 1 ELSE a + 2
                        ELSE IF a <= -1 THEN b + 1 ELSE a + b + 2]]

NodeBalance(t, n) ==
  CASE t[n].balance < -1 ->
         LET inner == RotateLeft(t, t[n].left)
         IN  RotateRight(IF t[t[n].left].balance > 0
                         THEN [inner.tree EXCEPT ![n].left = inner.top] ELSE t, n)
    [] t[n].balance > 1 ->
         LET inner == RotateRight(t, t[n].right)
         IN  RotateLeft(IF t[t[n].right].balance < 0
                        THEN [inner.tree EXCEPT ![n].right = inner.top] ELSE t, n)
    [] OTHER -> [top |-> n, tree |-> t]

\* The nodes from n down to key, or to the one that has no child where it
\* would be.
RECURSIVE Path(_, _, _)
Path(t, n, key) ==
  LET re == NodeCmp(key, n)
  IN  <<n>> \o (CASE re < 0 /\ t[n].left_child -> Path(t, t[n].left, key)
                  [] re > 0 /\ t[n].right_child -> Path(t, t[n].right, key)
                  [] OTHER -> <<>>)

Last(path) == path[Len(path)]

Front(path) == SubSeq(path, 1, Len(path) - 1)

Up(path) == IF Len(path) = 1 THEN Null ELSE path[Len(path) - 1]

\* Slip: the node is taken for the left one of its parent.
RelinkLeft(t, parent, old, new) ==
  IF parent = Null THEN t ELSE [t EXCEPT ![parent].left = new]

\* The pointer of parent to old becomes a pointer to new.
Relink(t, parent, old, new) ==
  IF parent = Null THEN t
  ELSE IF t[parent].left = old THEN [t EXCEPT ![parent].left = new]
       ELSE [t EXCEPT ![parent].right = new]

\* Balance the last node of the path, and go on up while the height of what
\* is below has changed: grown by one node or shrunk by one.
RECURSIVE Rebalance(_, _, _, _)
Rebalance(t, top, path, grown) ==
  LET n      == Last(path)
      parent == Up(path)
      fixed  == NodeBalance(t, n)
      linked == IF fixed.top = n THEN t ELSE Relink(fixed.tree, parent, n, fixed.top)
      isLeft == t[parent].left = n
  IN  CASE parent = Null -> [tree |-> linked, root |-> fixed.top]
        [] (linked[fixed.top].balance = 0) = grown -> [tree |-> linked, root |-> top]
        [] OTHER -> Rebalance([linked EXCEPT ![parent].balance =
                                 IF isLeft = grown THEN @ - 1 ELSE @ + 1],
                              top, Front(path), grown)

\* node_add, of a key no node of the tree compares equal to
NodeAdd(key, value) ==
  LET path   == Path(node, root, key)
      n      == Last(path)
      child  == NodeInit(value)
      left   == NodeCmp(key, n) < 0
      linked ==
        IF left
        THEN [node EXCEPT ![n].left = key, ![n].left_child = TRUE, ![n].balance = @ - 1]
             @@ key :> [child EXCEPT !.left = node[n].left, !.right = n]
        ELSE [node EXCEPT ![n].right = key, ![n].right_child = TRUE, ![n].balance = @ + 1]
             @@ key :> [child EXCEPT !.right = node[n].right, !.left = n]
  IN  IF root = Null THEN [tree |-> key :> child, root |-> key]
      ELSE Rebalance(linked, root, path, TRUE)

-----------------------------------------------------------------------------
(* Removal *)

\* The node n at the end of path, with one child or none, is replaced in its
\* parent by that child or by the thread it had on that side.
Unlink(path) ==
  LET n      == Last(path)
      parent == Up(path)
      isLeft == node[parent].left = n
      hasL   == node[n].left_child
      hasR   == node[n].right_child
      only   == IF hasL THEN node[n].left ELSE node[n].right
      thread == CASE hasR -> [node EXCEPT ![NodeNext(node, n)].left = node[n].left]
                  [] hasL -> [node EXCEPT ![NodePrev(node, n)].right = node[n].right]
                  [] OTHER -> node
      down   == IF isLeft
                THEN [thread EXCEPT ![parent].balance = @ + 1,
                        ![parent].left = IF hasL \/ hasR THEN only ELSE node[n].left,
                        ![parent].left_child = hasL \/ hasR]
                ELSE [thread EXCEPT ![parent].balance = @ - 1,
                        ![parent].right = IF hasL \/ hasR THEN only ELSE node[n].right,
                        ![parent].right_child = hasL \/ hasR]
  IN  IF parent = Null
      THEN [tree |-> thread, root |-> IF hasL \/ hasR THEN only ELSE Null]
      ELSE Rebalance(down, root, Front(path), FALSE)

RECURSIVE LeftSpine(_)
LeftSpine(n) == <<n>> \o IF node[n].left_child THEN LeftSpine(node[n].left) ELSE <<>>

\* The node n at the end of path, with two children, is replaced by the next
\* one, which is the last node down the left of its right child.
Replace(path) ==
  LET n     == Last(path)
      spine == LeftSpine(node[n].right)
      next  == Last(spine)
      nextp == Up(spine)
      prev  == Rightmost(node, node[n].left)
      moved == IF nextp = Null
               THEN [node EXCEPT ![next].balance = node[n].balance - 1]
               ELSE [node EXCEPT
                      ![nextp].left = IF node[next].right_child THEN node[next].right ELSE @,
                      ![nextp].left_child = node[next].right_child,
                      ![nextp].balance = @ + 1,
                      ![next].right_child = TRUE, ![next].right = node[n].right,
                      ![next].balance = node[n].balance]
      set   == [moved EXCEPT ![prev].right = next,
                             ![next].left_child = TRUE, ![next].left = node[n].left]
  IN  Rebalance(Relink(set, Up(path), n, next),
                IF Up(path) = Null THEN next ELSE root,
                Front(path) \o <<next>> \o Front(spine), FALSE)

\* chula_avl_generic_del, of the node at the end of path
NodeDel(path) ==
  LET n    == Last(path)
      gone == IF node[n].left_child /\ node[n].right_child
              THEN Replace(path) ELSE Unlink(path)
  IN  [gone EXCEPT !.tree = [k \in DOMAIN node \ {n} |-> gone.tree[k]]]

-----------------------------------------------------------------------------
(* Calls *)

Init ==
  /\ case_insensitive \in BOOLEAN
  /\ root = Null /\ node = <<>> /\ walk = Null
  /\ answer = [ret |-> "ok", value |-> Null]

Answer(ret, value) == answer' = [ret |-> ret, value |-> value]

Become(new) ==
  /\ root' = new.root /\ node' = new.tree
  /\ UNCHANGED <<case_insensitive, walk>>

Same == UNCHANGED <<case_insensitive, root, node, walk>>

Found(key) == root # Null /\ NodeCmp(key, Last(Path(node, root, key))) = 0

\* chula_avl_add.  The node of an empty key is not freed.
Add(key, value) ==
  /\ walk = Null \/ Cardinality(DOMAIN node) < MaxWalked
  /\ IF NodeIsEmpty(key) \/ Found(key)
     THEN Same /\ Answer("error", Null)
     ELSE Become(NodeAdd(key, value)) /\ Answer("ok", Null)

\* node_new has no memory for the node; or it has none for the key, does not
\* look at the result of the copy, and the key is empty.
AddNoMem ==
  /\ Same
  /\ \E ret \in {"nomem", "error"} : Answer(ret, Null)

\* chula_avl_del.  Not of the node a walk is at, which chula_avl_generic_while
\* reads when its function returns.
Del(key) ==
  \/ NodeIsEmpty(key) /\ Same /\ Answer("error", Null)
  \/ ~NodeIsEmpty(key) /\ root = Null /\ Same /\ Answer("not_found", Null)
  \/ /\ ~NodeIsEmpty(key) /\ root # Null
     /\ LET path == Path(node, root, key)
            n    == Last(path)
        IN  \/ NodeCmp(key, n) # 0 /\ Same /\ Answer("not_found", Null)
            \/ /\ NodeCmp(key, n) = 0 /\ n # walk
               /\ Become(NodeDel(path)) /\ Answer("ok", node[n].value)

\* chula_avl_get
Get(key) ==
  CASE NodeIsEmpty(key) -> [ret |-> "error", value |-> Null]
    [] Found(key) /\ ~NodeIsEmpty(key) ->
         [ret |-> "ok", value |-> node[Last(Path(node, root, key))].value]
    [] OTHER -> [ret |-> "not_found", value |-> Null]

\* chula_avl_generic_while: the first call of its function, the next one, and
\* the end of the walk when the function does not return ret_ok.
While ==
  /\ walk = Null /\ root # Null /\ Cardinality(DOMAIN node) <= MaxWalked
  /\ walk' = NodeFirst(node, root)
  /\ UNCHANGED <<case_insensitive, root, node, answer>>

\* Slip: the right child is taken for the next node.
WhileRight ==
  /\ walk # Null
  /\ walk' = node[walk].right
  /\ UNCHANGED <<case_insensitive, root, node, answer>>

WhileNext ==
  /\ walk # Null
  /\ walk' = NodeNext(node, walk)
  /\ UNCHANGED <<case_insensitive, root, node, answer>>

WhileStop ==
  /\ walk # Null
  /\ walk' = Null
  /\ UNCHANGED <<case_insensitive, root, node, answer>>

\* The nodes from n on, in the order of a walk.
RECURSIVE InOrder(_)
InOrder(n) == IF n = Null THEN <<>> ELSE <<n>> \o InOrder(NodeNext(node, n))

\* chula_avl_len
AvlLen == Len(InOrder(NodeFirst(node, root)))

\* chula_avl_mrproper frees the nodes it walks over, and chula_avl_init makes
\* the tree usable again.
Mrproper ==
  /\ walk = Null
  /\ LET freed == InOrder(NodeFirst(node, root))
     IN  node' = [k \in DOMAIN node \ {freed[i] : i \in 1 .. Len(freed)} |-> node[k]]
  /\ root' = Null /\ case_insensitive' \in BOOLEAN
  /\ Answer("ok", Null)
  /\ UNCHANGED walk

Next ==
  \/ \E key \in Keys : Del(key) \/ \E value \in Values[key] : Add(key, value)
  \/ AddNoMem \/ While \/ WhileNext \/ WhileStop \/ Mrproper

Spec == Init /\ [][Next]_avars
-----------------------------------------------------------------------------
(* Properties *)

RECURSIVE NodeHeight(_)
NodeHeight(n) ==
  LET left  == IF node[n].left_child THEN NodeHeight(node[n].left) ELSE 0
      right == IF node[n].right_child THEN NodeHeight(node[n].right) ELSE 0
  IN  1 + IF left > right THEN left ELSE right

\* What node_check asks of one node.  It does not look at what its recursive
\* calls return, so chula_avl_check only answers for the root.
NodeCheck(n) ==
  LET left  == IF node[n].left_child THEN NodeHeight(node[n].left) ELSE 0
      right == IF node[n].right_child THEN NodeHeight(node[n].right) ELSE 0
  IN  /\ node[n].left_child => node[NodePrev(node, n)].right = n
      /\ node[n].right_child => node[NodeNext(node, n)].left = n
      /\ node[n].balance = right - left

\* chula_avl_check would find nothing wrong at any node, none is out of
\* balance, and following the threads from the first node leads through all
\* that are allocated: none is lost and none is freed while it is linked.
TreeOK ==
  /\ \A n \in DOMAIN node : NodeCheck(n) /\ node[n].balance \in -1 .. 1
  /\ LET order == InOrder(NodeFirst(node, root))
     IN  /\ {order[i] : i \in 1 .. Len(order)} = DOMAIN node
         /\ AvlLen = Cardinality(DOMAIN node)

Stored(key) == {j \in DOMAIN node : NodeCmp(key, j) = 0}

\* chula_avl_get finds every key that is stored, with its value, wherever the
\* rotations have left it, and no other.
GetsWhatIsStored ==
  \A key \in Keys :
    LET got == Get(key)
    IN  /\ got.ret = "ok" <=> Stored(key) # {}
        /\ \A j \in Stored(key) : got.value = node[j].value

Promise == INSTANCE Dictionary WITH
  Rank  <- [c \in BOOLEAN |-> [k \in Keys |->
              1000 * KeyLen[k] + IF c THEN KeyFolded[k] ELSE KeyText[k]]],
  Empty <- {k \in Keys : NodeIsEmpty(k)},
  ignore_case <- case_insensitive,
  dict  <- [k \in DOMAIN node |-> node[k].value],
  at    <- walk

\* Every add, removal and step of a walk does and returns what it would with
\* a dictionary, and a walk goes from each key to the next one there is, also
\* when its function adds and removes others.
RefinesDictionary == Promise!Spec
=============================================================================
