--------------------------- MODULE MCKnowledge ---------------------------
(* Two contents, planned into two chunks and one. *)
EXTENDS Knowledge

MCSize == [report |-> 2, letter |-> 1]
MCContent == DOMAIN MCSize
=============================================================================
