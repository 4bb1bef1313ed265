---------------------------- MODULE MCOrbCompute ----------------------------
(* Small instances of OrbCompute: a draining revision and its successor. *)
EXTENDS OrbComputeInv, TLC

CONSTANTS old, new

OneRevision   == [r \in {new} |-> 1]
SameRevision  == [r \in {old, new} |-> 1]
TwoRevisions  == (old :> 1) @@ (new :> 2)

Peers == Permutations({old, new})

=============================================================================
