------------------------------- MODULE MCAvl -------------------------------
(***************************************************************************)
(* Keys of one and of two letters, among them one that only differs from   *)
(* another in its case, the empty key, and two values for one of them.     *)
(***************************************************************************)
EXTENDS Avl

CONSTANTS MCKeys, v1, v2

MCKeyLen == [k \in MCKeys |-> IF k = 0 THEN 0 ELSE IF k % 3 = 0 THEN 2 ELSE 1]

MCKeyText == [k \in MCKeys |-> k]

MCKeyFolded == [k \in MCKeys |-> IF k = 2 THEN 1 ELSE k]

MCValues == [k \in MCKeys |-> IF k = 1 THEN {v1, v2} ELSE {v1}]
=============================================================================
