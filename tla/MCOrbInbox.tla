----------------------------- MODULE MCOrbInbox -----------------------------
(* Small instances of OrbInbox: two processes that dispatch one backlog. *)
EXTENDS OrbInbox, TLC

CONSTANTS p1, p2

Peers == Permutations({p1, p2})

=============================================================================
