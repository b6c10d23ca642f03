----------------------------- MODULE Dictionary -----------------------------
(***************************************************************************)
(* What chula_avl_t promises: a dictionary whose keys are compared with or *)
(* without their case, and a walk over it in the order of the keys, which  *)
(* the function it calls may change as long as it leaves the key it was    *)
(* called for.                                                             *)
(***************************************************************************)
EXTENDS Integers

CONSTANTS
  Keys,
  Rank,    \* Rank[c][k]: the place of key k in the order, c: ignoring case
  Empty,   \* the keys that are refused
  Values,  \* Values[k]: what may be stored under k
  Null

VARIABLES
  ignore_case,
  dict,    \* from the stored keys to their values
  at,      \* the key the walk is at, Null when there is none
  answer   \* what the last call returned

Place(k) == Rank[ignore_case][k]

Found(k) == {j \in DOMAIN dict : Place(j) = Place(k)}

Least(S) == IF S = {} THEN Null ELSE CHOOSE k \in S : \A j \in S : Place(k) <= Place(j)

Reply(ret, value) == answer' = [ret |-> ret, value |-> value]

Init ==
  /\ ignore_case \in BOOLEAN
  /\ dict = <<>> /\ at = Null
  /\ answer = [ret |-> "ok", value |-> Null]

Add(k, v) ==
  /\ UNCHANGED <<ignore_case, at>>
  /\ IF k \in Empty \/ Found(k) # {}
     THEN UNCHANGED dict /\ Reply("error", Null)
     ELSE /\ dict' = [j \in DOMAIN dict \cup {k} |-> IF j = k THEN v ELSE dict[j]]
          /\ Reply("ok", Null)

\* No memory for the node or for its key: one or the other is reported.
AddNoMem ==
  /\ UNCHANGED <<ignore_case, dict, at>>
  /\ \E ret \in {"nomem", "error"} : Reply(ret, Null)

Del(k) ==
  /\ UNCHANGED <<ignore_case, at>>
  /\ \/ k \in Empty /\ UNCHANGED dict /\ Reply("error", Null)
     \/ k \notin Empty /\ Found(k) = {} /\ UNCHANGED dict /\ Reply("not_found", Null)
     \/ \E j \in Found(k) :
          /\ k \notin Empty
          /\ dict' = [i \in DOMAIN dict \ {j} |-> dict[i]]
          /\ Reply("ok", dict[j])

MoveTo(S) == at' = Least(S) /\ UNCHANGED <<ignore_case, dict, answer>>

Walk == at = Null /\ MoveTo(DOMAIN dict)

Onwards == at # Null /\ MoveTo({j \in DOMAIN dict : Place(j) > Place(at)})

Stop == MoveTo({})

Clear ==
  /\ dict' = <<>> /\ UNCHANGED at
  /\ ignore_case' \in BOOLEAN
  /\ Reply("ok", Null)

Next ==
  \/ \E k \in Keys : Del(k) \/ \E v \in Values[k] : Add(k, v)
  \/ AddNoMem \/ Walk \/ Onwards \/ Stop \/ Clear

Spec == Init /\ [][Next]_<<ignore_case, dict, at, answer>>
=============================================================================
