-------------------------- MODULE MCKeyProvisioning --------------------------
(* The instance for TLC: the ephemeral pairs and the keys are interchangeable. *)
EXTENDS KeyProvisioning, TLC

CONSTANTS p1, p2, p3, v1, v2

MCPairs == {p1, p2, p3}
MCValues == {v1, v2}

Symmetry == Permutations(MCPairs) \cup Permutations(MCValues)
=============================================================================
