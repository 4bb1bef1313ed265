---------------------------- MODULE MCSigningKeys ----------------------------
(* Small instances of SigningKeys.                                           *)
EXTENDS SigningKeysInv

CONSTANTS b1, b2, r1, r2
==============================================================================
