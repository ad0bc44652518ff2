---------------------------- MODULE MCProposals -----------------------------
(* Instances of Proposals, and of the Team it acts in, for TLC.  Nothing     *)
(* tells two invitations, or two requests, apart.                            *)
EXTENDS Proposals, TLC

Symmetry == Permutations(Invitation) \cup Permutations(Applier)
=============================================================================
