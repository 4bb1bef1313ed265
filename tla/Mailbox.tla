-------------------------------- MODULE Mailbox --------------------------------
(***************************************************************************)
(* What the durable inbox of an orb promises.  Messages are numbered as    *)
(* they are sent and wait until they are withdrawn, fail or are retired.   *)
(* While the orb accepts input its agent is given what waits: each message *)
(* once, none before an older one that still waits, none that was          *)
(* withdrawn.  Only what was given can be retired, and what no longer      *)
(* waits never waits again.                                                *)
(***************************************************************************)
EXTENDS Naturals

CONSTANT Message   \* the numbers of the messages

VARIABLES
    sent,       \* every message so far
    waiting,    \* those that are still due
    given,      \* those the agent was given
    withdrawn,  \* those whose sender took them back
    retired,    \* those the history of the orb shows
    accepting   \* the orb neither sleeps nor is stopped

vars == <<sent, waiting, given, withdrawn, retired, accepting>>

Init ==
    /\ sent = {} /\ waiting = {} /\ given = {} /\ withdrawn = {} /\ retired = {}
    /\ accepting = TRUE

\* A send takes the next number; it may open a closed orb, as the notice of a
\* sleep that is over does.
Send ==
    \E m \in Message \ sent :
        /\ \A k \in sent : k < m
        /\ sent' = sent \cup {m}
        /\ waiting' = waiting \cup {m}
        /\ accepting' \in BOOLEAN
        /\ UNCHANGED <<given, withdrawn, retired>>

\* A sender takes a message back, unless the agent has it.
Withdraw ==
    \E m \in waiting \ given :
        /\ waiting' = waiting \ {m}
        /\ withdrawn' = withdrawn \cup {m}
        /\ UNCHANGED <<sent, given, retired, accepting>>

\* The agent of an orb that accepts input is given messages that wait, and with
\* each every older one that waits and was not given before.
Give ==
    /\ accepting
    /\ \E some \in SUBSET (waiting \ given) :
          /\ \A m \in some : \A k \in waiting : k < m => k \in given \cup some
          /\ given' = given \cup some
    /\ UNCHANGED <<sent, waiting, withdrawn, retired, accepting>>

\* Messages fail: the agent cannot start, or ended without an answer.
Fail ==
    /\ \E some \in SUBSET waiting : waiting' = waiting \ some
    /\ UNCHANGED <<sent, given, withdrawn, retired, accepting>>

\* The history of the agent shows messages, also those that were taken to have failed.
Retire ==
    /\ \E some \in SUBSET given :
          /\ waiting' = waiting \ some
          /\ retired' = retired \cup some
    /\ UNCHANGED <<sent, given, withdrawn, accepting>>

\* Sleep, Stop and Start.
Command ==
    /\ accepting' \in BOOLEAN
    /\ UNCHANGED <<sent, waiting, given, withdrawn, retired>>

Next == Command \/ Send \/ Withdraw \/ Give \/ Fail \/ Retire

Spec == Init /\ [][Next]_vars

\* Whatever order messages are given and lost in: what was withdrawn was never given
\* and never will be, history shows only what was given, and of two messages that are
\* due the older one was given first.
BacklogInOrder ==
    /\ given \subseteq sent /\ waiting \subseteq sent
    /\ withdrawn \subseteq sent \ (given \cup waiting)
    /\ retired \subseteq given \ waiting
    /\ \A m \in given : \A k \in waiting : k < m => k \in given

\* A message that no longer waits does not come back.
SettledForGood == [][sent \ waiting \subseteq sent' \ waiting']_vars
================================================================================
