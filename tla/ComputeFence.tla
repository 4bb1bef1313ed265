---------------------------- MODULE ComputeFence ----------------------------
(***************************************************************************)
(* What disposable compute promises.  An orb has one live incarnation.     *)
(* Compute is adopted and authorised for that incarnation only, is         *)
(* condemned before it is retired, and is never authorised again once      *)
(* condemned; a runtime comes into service only with the authority of the  *)
(* live incarnation.  Condemned compute may go on serving until it is      *)
(* gone, but it cannot come back.                                          *)
(***************************************************************************)
EXTENDS Integers

VARIABLES
    incarnation,    \* the live incarnation
    owner,          \* the incarnation whose compute the orb names, or -1
    condemned,      \* its disposal has been requested
    authorised,     \* the incarnation whose token is answered, or -1
    serving         \* incarnations with a ready runtime

fenceVars == <<incarnation, owner, condemned, authorised, serving>>

None == -1

Init ==
    /\ incarnation = 0 /\ owner = None /\ authorised = None
    /\ condemned = FALSE /\ serving = {}

Adopt ==
    /\ ~condemned
    /\ owner' = incarnation /\ authorised' = incarnation
    /\ UNCHANGED <<incarnation, condemned, serving>>

Condemn ==
    /\ condemned' = TRUE /\ authorised' = None
    /\ UNCHANGED <<incarnation, owner, serving>>

Retire ==
    /\ condemned
    /\ incarnation' = incarnation + 1
    /\ owner' = None /\ condemned' = FALSE
    /\ UNCHANGED <<authorised, serving>>

Serve ==
    /\ authorised = incarnation
    /\ serving' = serving \cup {incarnation}
    /\ UNCHANGED <<incarnation, owner, condemned, authorised>>

Cease ==
    /\ \E gone \in SUBSET serving : serving' = serving \ gone
    /\ UNCHANGED <<incarnation, owner, condemned, authorised>>

Next == Adopt \/ Condemn \/ Retire \/ Serve \/ Cease

Spec == Init /\ [][Next]_fenceVars

-----------------------------------------------------------------------------

TypeOK ==
    /\ incarnation \in Nat
    /\ owner \in Nat \cup {None}
    /\ authorised \in Nat \cup {None}
    /\ condemned \in BOOLEAN
    /\ serving \subseteq Nat

(* Authority belongs to live, uncondemned compute that the orb names. *)
Exclusive ==
    /\ authorised \in {None, incarnation}
    /\ authorised # None => ~condemned /\ owner = incarnation

=============================================================================
