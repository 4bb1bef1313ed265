---------------------------- MODULE OrbInboxInv ----------------------------
(***************************************************************************)
(* The inductive invariant behind the safety properties of OrbInbox: how a  *)
(* row's batch stands to the batches the agent was given, and what a pass    *)
(* still knows of the backlog it claimed.                                   *)
(***************************************************************************)
EXTENDS OrbInbox

(* A row is frozen in a batch of rows it belongs to.                         *)
OwnBatch ==
    \A m \in Message :
        /\ msgs[m].batch # {} => m \in msgs[m].batch
        /\ \A k \in msgs[m].batch : msgs[k].status # "none"

(* A cancelled message is never taken up again.                              *)
CancelledIsFailed == \A m \in Message : msgs[m].cancelled => msgs[m].status = "failed"

(* An outstanding message the agent has was given to it in the batch its row *)
(* is frozen in: cancellations dissolve only batches the agent does not have. *)
AdmittedAsFrozen ==
    \A b \in admitted : \A m \in b :
        /\ msgs[m].status # "none"
        /\ m \in Outstanding => msgs[m].batch = b

(* A manual stop leaves no pass the admission version it began with.         *)
ManualRevokes == orb.stopReason = "manual" => authorised = {}

(* Rows are inserted in the order of their ordinals.                         *)
Contiguous ==
    \A m \in Message : msgs[m].status # "none" =>
        \A k \in Message : k < m => msgs[k].status # "none"

(* A pass about to submit holds everything outstanding that precedes         *)
(* something it holds.                                                       *)
HeldIsPrefix ==
    \A p \in Processes : pc[p] \in {"reread", "submit"} =>
        \A m \in UNION held[p] :
            /\ msgs[m].status # "none"
            /\ \A k \in Outstanding : k < m => k \in UNION held[p]

IInv ==
    /\ TypeOK
    /\ OwnBatch
    /\ CancelledIsFailed
    /\ CancelledIsNeverAdmitted
    /\ AdmittedAsFrozen
    /\ AdmittedOnce
    /\ ManualRevokes
    /\ StopCancelsWakes
    /\ Contiguous
    /\ HeldIsPrefix

=============================================================================
