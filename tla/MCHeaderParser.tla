--------------------------- MODULE MCHeaderParser ---------------------------
(***************************************************************************)
(* Small decoders for TLC: a static table of two fields, a header table of *)
(* four slots, and a bitmap set of two words of two bits.                  *)
(***************************************************************************)
EXTENDS HeaderParser

CONSTANTS a, z, large

\* large does not fit in a table whose maximum has been lowered; z has a value
\* and no name.
NameLens  == [f \in Fields |-> IF f = z THEN 0 ELSE 1]
ValueLens == [f \in Fields |-> CASE f = a -> 0 [] f = z -> 1 [] OTHER -> 5]
Statics   == [n \in 1 .. Static |-> a]
=============================================================================
