--------------------------- MODULE MCAgentAuthority ---------------------------
(* Small instances of AgentAuthority.                                        *)
EXTENDS AgentAuthorityInv, TLC

CONSTANTS p1, p2

PlaneSymmetry == Permutations(Plane)
================================================================================
