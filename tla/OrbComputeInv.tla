--------------------------- MODULE OrbComputeInv ---------------------------
(***************************************************************************)
(* The inductive invariant behind the safety properties of OrbCompute: what *)
(* a pass may rely on at each of its steps, and how the hosts' tokens stand *)
(* to the row's.                                                           *)
(***************************************************************************)
EXTENDS OrbCompute

(* A pass works on a discard exactly while it disposes, on a boot at the     *)
(* steps of the boot, and has a host wherever it is about to name one.       *)
PassShape ==
    \A r \in Reconcilers :
        /\ seen[r].discardThrough # NoFence <=> pc[r] \in {"discard", "finalize"}
        /\ pc[r] \in {"admit", "reread", "provision", "commit", "enter"} => Booting(r)
        /\ pc[r] \in {"observe", "decide", "enter", "restart", "rebound"} =>
               seen[r].hostRef # NoHost
        /\ pc[r] = "restart" => seen[r].state = "running"

(* A copy of the current version is the row itself.  Only the finalization   *)
(* of a failed orb's discard changes the row under other copies, and those   *)
(* are of passes that dispose too.                                           *)
CurrentCopies ==
    \A r \in current :
        /\ pc[r] # "idle"
        /\ seen[r] = orb \/ pc[r] \in {"discard", "finalize"}

(* No pass knows an incarnation the row has not reached.                     *)
NoCopyAhead == \A r \in Reconcilers : seen[r].incarnation <= orb.incarnation

RunningIsUncondemned == orb.state = "running" => orb.discardThrough = NoFence

(* A valid token is one of the live incarnation's, and names its host.       *)
TokenNamesHost ==
    orb.token # NoToken =>
        /\ orb.token[1] = orb.incarnation
        /\ orb.hostRef = orb.incarnation
        /\ orb.token[2] <= hosts[orb.incarnation].token

(* Nothing has been provisioned beyond the live incarnation.                 *)
NoHostAhead == \A i \in Incarnation : i > orb.incarnation => hosts[i] = NoHostYet

(* A runtime that is ready on uncondemned compute was let in by the token    *)
(* the row still holds.                                                      *)
ReadyHoldsToken ==
    (orb.discardThrough = NoFence /\ hosts[orb.incarnation].status = "ready") =>
        orb.token = <<orb.incarnation, hosts[orb.incarnation].token>>

(* The token about to be committed is of the incarnation provisioned, no     *)
(* newer than its host's and, as far as the commit can succeed, no older     *)
(* than the row's.                                                           *)
MintedIsOrdered ==
    \A r \in Reconcilers : pc[r] = "commit" =>
        /\ minted[r][1] = seen[r].incarnation
        /\ minted[r][2] <= hosts[seen[r].incarnation].token
        /\ (r \in current /\ orb.token # NoToken) => orb.token[2] <= minted[r][2]

(* A pass that may come to provision does not go behind the committed        *)
(* specification.                                                            *)
AdmittedForward ==
    \A r \in Reconcilers :
        (pc[r] \in {"reread", "provision", "commit", "observe", "decide"} /\ Booting(r)) =>
            seen[r].spec \in {NoSpec, SpecOf[r]} \/ GenOf[r] >= seen[r].gen

IInv ==
    /\ TypeOK
    /\ PassShape
    /\ CurrentCopies
    /\ NoCopyAhead
    /\ HostRefNamesIncarnation
    /\ FailedRetainsNoCompute
    /\ CondemnedIsUnauthorised
    /\ RunningIsUncondemned
    /\ RunningHasHost
    /\ TokenNamesHost
    /\ NoHostAhead
    /\ ReadyHoldsToken
    /\ MintedIsOrdered
    /\ AdmittedForward

=============================================================================
