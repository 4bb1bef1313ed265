-------------------------- MODULE MCCredentialBroker --------------------------
(* Small instances of CredentialBroker: two callers and a login at one row. *)
EXTENDS CredentialBroker, TLC

CONSTANTS c1, c2, login

Peers == Permutations({c1, c2})

=============================================================================
