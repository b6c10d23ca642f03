--------------------------- MODULE MCHeaderTable ---------------------------
(***************************************************************************)
(* Small header tables for TLC.  The real sizes are 128 slots, 4096 bytes, *)
(* an info of 8 bytes and an overhead of 32: the small ones keep what the  *)
(* code relies on, that a full table of the smallest fields takes fewer    *)
(* than Entries slots.                                                     *)
(***************************************************************************)
EXTENDS HeaderTableRefinement

CONSTANTS a, b, c, e, z

\* a, b, c: ordinary fields; z: a value and no name; e: neither.
NameLens  == [f \in Fields |-> CASE f = a -> 1 [] f = b -> 1 [] f = c -> 2
                                 [] f = z -> 0 [] OTHER -> 0]
ValueLens == [f \in Fields |-> CASE f = a -> 0 [] f = b -> 4 [] f = c -> 8
                                 [] f = z -> 1 [] OTHER -> 0]
=============================================================================
