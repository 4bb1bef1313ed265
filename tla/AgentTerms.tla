------------------------------ MODULE AgentTerms ------------------------------
(***************************************************************************)
(* What the ownership of an orb's durable agent promises: the private and  *)
(* public history of the orb is one log, written in numbered terms.  At    *)
(* most one term is open at a time, only the open term writes, a term that *)
(* ended never writes again, and a sealed log never grows.                 *)
(***************************************************************************)
EXTENDS Naturals

VARIABLES
    term,     \* the last term granted or ended
    open,     \* whether the holder of that term may write
    sealed,   \* whether the log is closed for ever
    last      \* the term of the last commit to the log

vars == <<term, open, sealed, last>>

Init ==
    /\ term = 0
    /\ open = FALSE
    /\ sealed = FALSE
    /\ last = 0

\* A process takes the authority over: a new term.
Grant ==
    /\ ~sealed
    /\ term' = term + 1
    /\ open' = TRUE
    /\ UNCHANGED <<sealed, last>>

\* The holder of the open term commits.
Write ==
    /\ open
    /\ last' = term
    /\ UNCHANGED <<term, open, sealed>>

\* The term ends: its lease passes (the number stays) or it is given back.
Revoke ==
    /\ open' = FALSE
    /\ term' \in {term, term + 1}
    /\ UNCHANGED <<sealed, last>>

\* The log is sealed, with whatever term was open.
Seal ==
    /\ sealed' = TRUE
    /\ open' = FALSE
    /\ term' \in {term, term + 1}
    /\ UNCHANGED last

Next == Grant \/ Write \/ Revoke \/ Seal

Spec == Init /\ [][Next]_vars

\* Commits are in the order of their terms: a term that was superseded never
\* writes behind its successor.
LogInTermOrder == [][last' >= last /\ last' <= term']_vars

\* A sealed log has no open term.
SealedIsClosed == sealed => ~open
================================================================================
