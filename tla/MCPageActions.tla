---------------------------- MODULE MCPageActions ----------------------------
(* An instance of PageActions for TLC: one tab, whose page may be loaded anew. *)
EXTENDS PageActions

=============================================================================
