-------------------------------- MODULE MCMcp --------------------------------
(* An instance of Mcp for TLC: nothing tells two services, two discoveries   *)
(* or two contracts apart.                                                   *)
EXTENDS Mcp, TLC

Symmetry == Permutations(Server) \cup Permutations(Discovery) \cup Permutations(Contract)
=============================================================================
