---------------------------- MODULE MCRunBudget -----------------------------
(* Nothing tells two requests, or two subagents, apart.                      *)
EXTENDS RunBudget, TLC

Symmetry == Permutations(Request) \cup Permutations(Child)
=============================================================================
