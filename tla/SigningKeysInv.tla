---------------------------- MODULE SigningKeysInv ----------------------------
(***************************************************************************)
(* The inductive invariants of SigningKeys: what a boot and a rotation     *)
(* know of the keys they hold, and who else may touch them meanwhile.      *)
(***************************************************************************)
EXTENDS SigningKeys

\* The unique index.
OneActive == \A j, k \in In("active") : j = k

\* Nothing is left of a key nobody made, or whose material nobody knows.
FreshKeys == \A k \in Key : maker[k] = Nobody => Unclaimed(k) /\ k \notin stored

\* A candidate belongs to the boot that holds it, and flags speak of a candidate.
CandidateOwned ==
    \A b \in Owner :
        /\ boot[b].kid # NoKey => maker[boot[b].kid] = b
        /\ boot[b].written \/ boot[b].barred => boot[b].kid # NoKey

\* A request that looks for its row holds a key of its own.
ConfirmOwned ==
    \A r \in Rotation : rotation[r].step = "confirm" =>
        /\ maker[rotation[r].target] = Somebody
        /\ \A q \in Rotation :
              rotation[q].step = "confirm" /\ rotation[q].target = rotation[r].target => q = r

\* A key that is to be replaced has been active.
PinOf(r) == rotation[r].pin # NoKey => keys[rotation[r].pin] \in {"active", "retired"}
PinWasActive == \A r \in Rotation : PinOf(r)

\* While the pinned key signs its successor waits; it is activated after that.
Waits(r) ==
    rotation[r].pin # NoKey /\ keys[rotation[r].pin] = "active" =>
        /\ rotation[r].step # "activate"
        /\ rotation[r].step \in {"converge", "retire"} => keys[rotation[r].target] = "pending"
        /\ rotation[r].step = "confirm" => keys[rotation[r].target] \in {"none", "pending"}
TargetWaits == \A r \in Rotation : Waits(r)

RowInv ==
    /\ TypeOK
    /\ OneActive
    /\ SuccessorReady
    /\ FreshKeys
    /\ CandidateOwned
    /\ ConfirmOwned
    /\ PinWasActive
    /\ TargetWaits
    /\ OrphansAreKnown

\* The inserts of boots do not outlive their answers.
BootsLandInTime == Late \cap Owner = {}

\* An insert in flight is of a request and its material is there.
FlightHeld == \A f \in flight : maker[f[1]] = Somebody /\ f[1] \in stored

\* From the read that found no row of the candidate until it is inserted, none appears.
CandidateUnnamed ==
    \A b \in Owner :
        boot[b].kid # NoKey /\ boot[b].step \in {"adopt", "make", "insert", "drop", "cleanup"} =>
            keys[boot[b].kid] = "none"

\* Material that may be inserted was acknowledged, and no delete was tried.
CandidateStored ==
    \A b \in Owner :
        /\ boot[b].written /\ ~boot[b].barred => boot[b].kid \in stored
        /\ boot[b].step = "insert" => boot[b].written /\ ~boot[b].barred
        /\ boot[b].step = "make" => ~boot[b].barred
        /\ boot[b].step \in {"drop", "cleanup"} => boot[b].barred

MaterialInv ==
    /\ MaterialKept
    /\ FlightHeld
    /\ CandidateUnnamed
    /\ CandidateStored

\* A key that is published, or may yet be, is of nobody who would destroy it.
PendingHeld ==
    \A k \in Key : keys[k] = "pending" \/ <<k, "pending">> \in flight =>
        maker[k] = Somebody /\ k \in stored

\* The same of a key whose row has moved on.
Held(k) == keys[k] # "none" /\ maker[k] = Somebody /\ k \in stored
================================================================================
