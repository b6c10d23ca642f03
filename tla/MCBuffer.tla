------------------------------ MODULE MCBuffer ------------------------------
(* Texts of up to two octets. *)
EXTENDS BufferClient

CONSTANTS a, b

MCOctets == {a, b, Nul}

MCTexts == {<<>>, <<a>>, <<a, b>>}
=============================================================================
