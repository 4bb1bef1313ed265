--------------------------- MODULE OrbInboxProofs ---------------------------
(***************************************************************************)
(* Proofs about OrbInbox, for any number of processes and messages.        *)
(*                                                                         *)
(* A step changes the lifecycle columns alone, inserts a row, or lets the  *)
(* rows evolve in the way RowsEvolve describes while the agent keeps what  *)
(* it was given; only a submission gives it more.  Each step is one of     *)
(* Mailbox, or leaves the mailbox as it is.                                *)
(***************************************************************************)
EXTENDS OrbInboxInv, TLAPS, WellFoundedInduction

(* How rows may change under what the agent was given: nothing is taken up   *)
(* again, no intent appears, and what the agent has stays frozen as it was.  *)
RowEvolves(m, row) ==
    /\ row \in Row
    /\ row.status = "none" <=> msgs[m].status = "none"
    /\ msgs[m].status = "delivered" => row.status = "delivered"
    /\ row.status \in {"queued", "delivering"} => m \in Outstanding
    /\ row.batch # {} => m \in row.batch
    /\ \A k \in row.batch : msgs[k].status # "none"
    /\ row.cancelled =>
          /\ row.status = "failed"
          /\ msgs[m].cancelled \/ \A b \in admitted : m \notin b
    /\ (row.status \in {"queued", "delivering"} /\ \E b \in admitted : m \in b) =>
          row.batch = msgs[m].batch
    /\ (m \in Outstanding /\ row.autoStart) => msgs[m].autoStart

RowsEvolve ==
    /\ msgs' = [m \in Message |-> msgs'[m]]
    /\ \A m \in Message : RowEvolves(m, msgs'[m])

(* The parts of the invariant that speak of the rows and the agent.          *)
InboxHolds ==
    /\ OwnBatch /\ CancelledIsFailed /\ CancelledIsNeverAdmitted
    /\ AdmittedAsFrozen /\ AdmittedOnce /\ Contiguous

(* The parts that speak of the lifecycle columns.                            *)
OrbHolds ==
    /\ orb \in Orb /\ fresh \subseteq Message /\ authorised \subseteq Processes
    /\ ManualRevokes /\ StopCancelsWakes

(* The parts that speak of the passes.                                       *)
PassesHold ==
    /\ pc \in [Processes -> PC]
    /\ held \in [Processes -> SUBSET ((SUBSET Message) \ {{}})]
    /\ HeldIsPrefix

AgentTyped == admitted \subseteq ((SUBSET Message) \ {{}}) /\ open \subseteq admitted

(* The invariant, taken apart.                                               *)
LEMMA Parts ==
    IInv <=> /\ InboxHolds /\ OrbHolds /\ PassesHold
             /\ AgentTyped /\ msgs \in [Message -> Row]
BY DEF IInv, TypeOK, InboxHolds, OrbHolds, PassesHold, AgentTyped

LEMMA PartsNext ==
    (InboxHolds' /\ OrbHolds' /\ PassesHold' /\ AgentTyped' /\ msgs' \in [Message -> Row]) => IInv'
BY DEF IInv, TypeOK, InboxHolds, OrbHolds, PassesHold, AgentTyped

-----------------------------------------------------------------------------
(* Operators of the model *)

(* Ordinals are numbers.                                                     *)
LEMMA MessagesAreNat == Message \subseteq Nat
BY InboxAssumption DEF InboxAssumption, Message

(* A nonempty set of messages has a least member, and Min is it.             *)
LEMMA MinIsLeast ==
    ASSUME NEW b \in SUBSET Message, b # {}
    PROVE  Min(b) \in b /\ \A m \in b : Min(b) <= m
<1>1. b \subseteq Nat
  BY MessagesAreNat
<1> DEFINE Below == {ss \in Nat \X Nat : ss[1] < ss[2]}
<1>2. IsWellFoundedOn(Below, Nat)
  BY NatLessThanWellFounded DEF OpToRel
<1>3. PICK x \in b : \A y \in b : ~(<<y, x>> \in Below)
  <2> HIDE DEF Below
  <2> QED BY <1>1, <1>2, WFMin
<1>4. \A y \in b : x <= y
  <2> TAKE y \in b
  <2>1. x \in Nat /\ y \in Nat
    BY <1>1
  <2>2. y < x => <<y, x>> \in Below
    BY <2>1
  <2> QED BY <1>3, <2>1, <2>2
<1> QED BY <1>4 DEF Min

(* The run of a message is of outstanding messages, itself among them.       *)
LEMMA RunOfShape ==
    ASSUME NEW m \in Outstanding
    PROVE  m \in RunOf(m) /\ RunOf(m) \subseteq Outstanding
<1>1. CASE ~Plain(m)
  BY <1>1 DEF RunOf
<1>2. CASE Plain(m)
  <2>1. \A j \in Outstanding : j \in m .. m => j = m
    BY MessagesAreNat DEF Outstanding
  <2> QED BY <1>2, <2>1 DEF RunOf
<1> QED BY <1>1, <1>2

(* Freezing puts every outstanding message in a batch of its own.            *)
LEMMA FrozenShape ==
    ASSUME IInv, NEW m \in Message
    PROVE  /\ Frozen[m] \in Row
           /\ m \in Outstanding => m \in Frozen[m].batch
           /\ \A k \in Frozen[m].batch : msgs[k].status # "none"
           /\ Unbatched(m) => Frozen[m].status = "delivering" /\ Frozen[m].batch = RunOf(m)
           /\ ~Unbatched(m) => Frozen[m] = msgs[m]
           /\ Frozen[m].autoStart = msgs[m].autoStart
           /\ Frozen[m].cancelled = msgs[m].cancelled
<1>1. msgs[m] \in Row
  BY DEF IInv, TypeOK
<1>2. CASE Unbatched(m)
  <2>1. m \in RunOf(m) /\ RunOf(m) \subseteq Outstanding /\ Outstanding \subseteq Message
    BY <1>2, RunOfShape DEF Unbatched, Outstanding
  <2>2. Frozen[m] = [msgs[m] EXCEPT !.status = "delivering", !.batch = RunOf(m)]
    BY <1>2 DEF Frozen
  <2>3. \A k \in RunOf(m) : msgs[k].status # "none"
    BY <2>1 DEF Outstanding
  <2> QED BY <1>1, <1>2, <2>1, <2>2, <2>3 DEF Row
<1>3. CASE ~Unbatched(m)
  <2>1. Frozen[m] = msgs[m]
    BY <1>3 DEF Frozen
  <2> QED BY <1>1, <1>3, <2>1 DEF Unbatched, IInv, OwnBatch
<1> QED BY <1>2, <1>3

-----------------------------------------------------------------------------
(* Kinds of steps *)

(* A row that stays, stays in order.                                         *)
LEMMA RowStays ==
    ASSUME IInv, NEW m \in Message
    PROVE  RowEvolves(m, msgs[m])
BY DEF IInv, TypeOK, OwnBatch, CancelledIsFailed, RowEvolves, Outstanding

(* So does one that only loses its intent, fails, is delivered or is noted.  *)
LEMMA RowSettles ==
    ASSUME IInv, NEW m \in Message, msgs[m].status # "none", ~msgs[m].cancelled,
           NEW status \in {"queued", "delivering", "delivered", "failed"},
           status \in {"queued", "delivering"} => m \in Outstanding,
           msgs[m].status = "delivered" => status = "delivered",
           NEW row \in Row,
           row.status = status, row.batch = msgs[m].batch, ~row.autoStart, ~row.cancelled
    PROVE  RowEvolves(m, row)
BY DEF IInv, OwnBatch, RowEvolves

(* Evolving rows keep what holds of the rows and the agent.                  *)
LEMMA RowsKeep ==
    ASSUME IInv, RowsEvolve, admitted' = admitted
    PROVE  /\ InboxHolds' /\ msgs' \in [Message -> Row]
           /\ Outstanding' \subseteq Outstanding /\ Intents' \subseteq Intents
           /\ \A m \in Message : msgs'[m].status = "none" <=> msgs[m].status = "none"
<1> USE DEF RowEvolves
<1>1. Outstanding' \subseteq Outstanding /\ Intents' \subseteq Intents
  BY DEF RowsEvolve, Outstanding, Intents
<1>2. OwnBatch'
  <2> SUFFICES ASSUME NEW m \in Message
      PROVE /\ msgs'[m].batch # {} => m \in msgs'[m].batch
            /\ \A k \in msgs'[m].batch : msgs'[k].status # "none"
    BY DEF OwnBatch
  <2>1. msgs'[m].batch \subseteq Message
    BY DEF RowsEvolve, Row
  <2> QED BY <2>1 DEF RowsEvolve
<1>3. CancelledIsFailed' /\ CancelledIsNeverAdmitted'
  BY DEF RowsEvolve, CancelledIsFailed, CancelledIsNeverAdmitted, IInv
<1>4. AdmittedAsFrozen'
  <2> SUFFICES ASSUME NEW b \in admitted, NEW m \in b
      PROVE msgs'[m].status # "none" /\ (m \in Outstanding' => msgs'[m].batch = b)
    BY DEF AdmittedAsFrozen
  <2>1. m \in Message
    BY DEF IInv, TypeOK
  <2>2. msgs[m].status # "none" /\ (m \in Outstanding => msgs[m].batch = b)
    BY DEF IInv, AdmittedAsFrozen
  <2> QED BY <2>1, <2>2, <1>1 DEF RowsEvolve, Outstanding
<1>5. AdmittedOnce' /\ Contiguous'
  BY DEF IInv, AdmittedOnce, Contiguous, RowsEvolve
<1> QED BY <1>1, <1>2, <1>3, <1>4, <1>5 DEF InboxHolds, RowsEvolve

(* Passes that stand still keep what they know while rows evolve.            *)
LEMMA PassesKeep ==
    ASSUME IInv, RowsEvolve, admitted' = admitted, UNCHANGED passes
    PROVE  PassesHold'
<1>1. UNCHANGED <<pc, held>>
  BY DEF passes
<1>2. \A p \in Processes : UNION held[p] \subseteq Message
  BY DEF IInv, TypeOK
<1> QED BY <1>1, <1>2, RowsKeep DEF IInv, TypeOK, PassesHold, HeldIsPrefix

(* A step of the lifecycle columns alone.                                    *)
LEMMA OrbStep ==
    ASSUME IInv, OrbHolds', UNCHANGED <<msgs, agent, passes>>
    PROVE  IInv'
<1>1. UNCHANGED <<msgs, admitted, open, pc, held>>
  BY DEF agent, passes
<1>2. InboxHolds' /\ AgentTyped' /\ PassesHold'
  BY <1>1, Parts DEF InboxHolds, AgentTyped, PassesHold, OwnBatch, CancelledIsFailed,
     CancelledIsNeverAdmitted, AdmittedAsFrozen, AdmittedOnce, Contiguous, HeldIsPrefix, Outstanding
<1> QED BY <1>1, <1>2, PartsNext, Parts

(* Whatever clears intents keeps Stop's promise.                             *)
LEMMA StopKeeps ==
    ASSUME IInv, Intents' \subseteq Intents, UNCHANGED <<orb, authorised, fresh>>
    PROVE  OrbHolds'
BY DEF IInv, TypeOK, OrbHolds, ManualRevokes, StopCancelsWakes

(* A step of rows under an unchanged orb and unchanged passes.               *)
LEMMA RowsStep ==
    ASSUME IInv, RowsEvolve, admitted' = admitted, open' \subseteq open,
           UNCHANGED <<orb, authorised, fresh, passes>>
    PROVE  IInv'
<1>1. AgentTyped'
  BY Parts DEF AgentTyped
<1>2. OrbHolds'
  BY RowsKeep, StopKeeps
<1> QED BY <1>1, <1>2, RowsKeep, PassesKeep, PartsNext

-----------------------------------------------------------------------------
(* Commands *)

(* A new row is of a message nobody knows, and comes after all others.       *)
LEMMA InsertKeeps ==
    ASSUME IInv, NEW row \in Row, row.status = "queued", row.batch = {}, ~row.cancelled,
           Insert(row), UNCHANGED <<agent, passes>>
    PROVE  /\ InboxHolds' /\ PassesHold' /\ AgentTyped' /\ msgs' \in [Message -> Row]
           /\ fresh' \subseteq Message
           /\ ~row.autoStart => Intents' \subseteq Intents
<1>1. PICK n \in Message :
          /\ msgs[n].status = "none" /\ \A k \in Message : k < n => msgs[k].status # "none"
          /\ msgs' = [msgs EXCEPT ![n] = row]
          /\ fresh' = (IF orb' = orb THEN fresh ELSE {}) \cup (IF row.autoStart THEN {n} ELSE {})
  BY DEF Insert
<1>2. UNCHANGED <<admitted, open, pc, held>>
  BY DEF agent, passes
<1>3. /\ msgs' \in [Message -> Row] /\ fresh' \subseteq Message
      /\ msgs'[n] = row /\ \A m \in Message : m # n => msgs'[m] = msgs[m]
  BY <1>1 DEF IInv, TypeOK
<1>4. Outstanding' = Outstanding \cup {n} /\ n \notin Outstanding
  BY <1>1, <1>3 DEF Outstanding
<1>5. \A m \in Message : msgs[m].status # "none" => m # n /\ msgs'[m].status # "none" /\ m < n
  <2> SUFFICES ASSUME NEW m \in Message, msgs[m].status # "none" PROVE m # n /\ ~(n < m)
    BY <1>3, MessagesAreNat
  <2> QED BY <1>1 DEF IInv, Contiguous
<1>6. OwnBatch' /\ CancelledIsFailed'
  <2>1. \A m \in Message : msgs[m].batch \subseteq Message
    BY DEF IInv, TypeOK, Row
  <2> QED BY <1>3, <1>5, <2>1 DEF IInv, OwnBatch, CancelledIsFailed
<1>7. \A b \in admitted : b \subseteq Message /\ n \notin b
  BY <1>1 DEF IInv, TypeOK, AdmittedAsFrozen
<1>8. CancelledIsNeverAdmitted' /\ AdmittedAsFrozen' /\ AdmittedOnce'
  BY <1>2, <1>3, <1>4, <1>7
     DEF IInv, CancelledIsNeverAdmitted, AdmittedAsFrozen, AdmittedOnce
<1>9. Contiguous'
  BY <1>1, <1>3 DEF IInv, Contiguous
<1>10. PassesHold'
  <2>1. \A p \in Processes : UNION held[p] \subseteq Message
    BY DEF IInv, TypeOK
  <2>2. HeldIsPrefix'
    <3> SUFFICES ASSUME NEW p \in Processes, pc[p] \in {"reread", "submit"},
                        NEW m \in UNION held[p]
        PROVE /\ msgs'[m].status # "none"
              /\ \A k \in Outstanding' : k < m => k \in UNION held[p]
      BY <1>2 DEF HeldIsPrefix
    <3>1. m \in Message /\ msgs[m].status # "none" /\ m < n
      BY <2>1, <1>5 DEF IInv, HeldIsPrefix
    <3> QED BY <3>1, <1>4, <1>5, MessagesAreNat DEF IInv, HeldIsPrefix
  <2> QED BY <2>2, <1>2 DEF PassesHold, IInv, TypeOK
<1>11. ~row.autoStart => Intents' \subseteq Intents
  BY <1>3, <1>4 DEF Intents, Outstanding
<1> QED BY <1>2, <1>3, <1>6, <1>8, <1>9, <1>10, <1>11 DEF InboxHolds, AgentTyped, IInv, TypeOK

(* The rows a send and a due sleep insert.                                   *)
LEMMA NewRows ==
    ASSUME NEW system \in BOOLEAN, NEW wake \in BOOLEAN
    PROVE  LET row == [NoRow EXCEPT !.status = "queued", !.system = system, !.autoStart = wake]
           IN  /\ row \in Row /\ row.status = "queued" /\ row.batch = {}
               /\ ~row.cancelled /\ row.autoStart = wake
BY DEF NoRow, Row

(* A send.                                                                   *)
LEMMA EnqueueKeeps ==
    ASSUME IInv, NEW wake \in BOOLEAN, NEW system \in BOOLEAN, EnqueueOrbMessage(wake, system)
    PROVE  IInv'
<1> DEFINE intent == wake /\ orb.state \in {"stopping", "stopped", "failed"}
           row == [NoRow EXCEPT !.status = "queued", !.system = system, !.autoStart = intent]
<1>1. /\ row \in Row /\ row.status = "queued" /\ row.batch = {} /\ ~row.cancelled
      /\ row.autoStart = intent
  <2>1. intent \in BOOLEAN
    OBVIOUS
  <2> HIDE DEF intent
  <2> QED BY <2>1, NewRows
<1>2. Insert(row) /\ UNCHANGED <<agent, passes>>
  BY DEF EnqueueOrbMessage
<1>3. /\ InboxHolds' /\ PassesHold' /\ AgentTyped' /\ msgs' \in [Message -> Row]
      /\ fresh' \subseteq Message /\ (~row.autoStart => Intents' \subseteq Intents)
  <2> HIDE DEF row
  <2> QED BY <1>1, <1>2, InsertKeeps
<1>4. OrbHolds'
  <2> HIDE DEF row
  <2>1. CASE wake /\ (orb.sleep \/ orb.stopReason # "none")
    <3>1. orb' = [orb EXCEPT !.sleep = FALSE, !.stopReason = "none"] /\ Reopen
      BY <2>1 DEF EnqueueOrbMessage
    <3> QED BY <3>1, <1>3 DEF IInv, TypeOK, OrbHolds, ManualRevokes, StopCancelsWakes, Reopen, Orb
  <2>2. CASE wake /\ ~orb.sleep /\ orb.stopReason = "none"
    <3>1. orb' = orb /\ UNCHANGED authorised
      BY <2>2 DEF EnqueueOrbMessage
    <3> QED BY <2>2, <3>1, <1>3 DEF IInv, TypeOK, OrbHolds, ManualRevokes, StopCancelsWakes
  <2>3. CASE ~wake
    <3>1. orb' = orb /\ UNCHANGED authorised
      BY <2>3 DEF EnqueueOrbMessage
    <3> QED BY <2>3, <3>1, <1>1, <1>3 DEF IInv, TypeOK, OrbHolds, ManualRevokes, StopCancelsWakes
  <2> QED BY <2>1, <2>2, <2>3
<1> QED BY <1>3, <1>4, PartsNext

(* The rows a cancellation leaves.                                           *)
Withdrawn(row) == [row EXCEPT !.status = "failed", !.cancelled = TRUE, !.autoStart = FALSE]
Requeued(row) == [row EXCEPT !.status = "queued", !.batch = {}]

LEMMA CancelledRows ==
    ASSUME NEW row \in Row
    PROVE  /\ Withdrawn(row) \in Row /\ Withdrawn(row).status = "failed"
           /\ Withdrawn(row).batch = row.batch /\ ~Withdrawn(row).autoStart
           /\ Requeued(row) \in Row /\ Requeued(row).status = "queued"
           /\ Requeued(row).batch = {} /\ Requeued(row).cancelled = row.cancelled
           /\ Requeued(row).autoStart = row.autoStart
BY DEF Row, Withdrawn, Requeued

(* A cancellation dissolves a batch the agent does not have.                 *)
LEMMA CancelKeeps ==
    ASSUME IInv, NEW m \in Message, CancelPendingOrbMessage(m)
    PROVE  IInv' /\ RowsEvolve
<1>1. /\ m \in Outstanding /\ \A b \in admitted : m \notin b
      /\ msgs' = Cancelled(m) /\ UNCHANGED <<orb, fresh, authorised, agent, passes>>
  BY DEF CancelPendingOrbMessage
<1>2. RowsEvolve
  <2> SUFFICES ASSUME NEW k \in Message PROVE RowEvolves(k, Cancelled(m)[k])
    BY <1>1 DEF RowsEvolve, Cancelled
  <2>1. /\ msgs[k] \in Row
        /\ msgs[k].batch # {} => k \in msgs[k].batch
        /\ \A j \in msgs[k].batch : msgs[j].status # "none"
        /\ msgs[m].batch # {} => m \in msgs[m].batch
    BY DEF IInv, TypeOK, OwnBatch
  <2>2. CASE k = m
    <3>1. Cancelled(m)[k] = Withdrawn(msgs[k])
      BY <2>2 DEF Cancelled, Withdrawn
    <3>2. /\ Cancelled(m)[k] \in Row /\ Cancelled(m)[k].status = "failed"
          /\ Cancelled(m)[k].batch = msgs[k].batch /\ ~Cancelled(m)[k].autoStart
      BY <2>1, <3>1, CancelledRows
    <3> HIDE DEF Cancelled
    <3> QED BY <1>1, <2>1, <2>2, <3>2 DEF RowEvolves, Outstanding
  <2>3. CASE k # m /\ k \in Outstanding /\ msgs[k].batch # {} /\ msgs[k].batch = msgs[m].batch
             /\ ~msgs[k].noted
    <3>1. Cancelled(m)[k] = Requeued(msgs[k])
      BY <2>3 DEF Cancelled, Requeued
    <3>2. \A b \in admitted : k \notin b
      <4> SUFFICES ASSUME NEW b \in admitted, k \in b PROVE FALSE
        OBVIOUS
      <4>1. msgs[k].batch = b
        BY <2>3 DEF IInv, AdmittedAsFrozen
      <4> QED BY <4>1, <1>1, <2>1, <2>3
    <3>3. ~msgs[k].cancelled
      BY <2>3 DEF IInv, CancelledIsFailed, Outstanding
    <3>4. /\ Cancelled(m)[k] \in Row /\ Cancelled(m)[k].status = "queued"
          /\ Cancelled(m)[k].batch = {} /\ ~Cancelled(m)[k].cancelled
          /\ Cancelled(m)[k].autoStart = msgs[k].autoStart
      BY <2>1, <3>1, <3>3, CancelledRows
    <3> QED BY <2>1, <2>3, <3>2, <3>4 DEF RowEvolves, Outstanding
  <2>4. CASE k # m /\ ~(k \in Outstanding /\ msgs[k].batch # {}
                         /\ msgs[k].batch = msgs[m].batch /\ ~msgs[k].noted)
    <3>1. Cancelled(m)[k] = msgs[k]
      BY <2>4 DEF Cancelled
    <3> QED BY <3>1, RowStays
  <2> QED BY <2>2, <2>3, <2>4
<1> QED BY <1>1, <1>2, RowsStep DEF agent

(* Start, Stop and the request to sleep.                                     *)
LEMMA OrbCommandKeeps ==
    ASSUME IInv, ScheduleOrbSleep \/ RequestOrbStart
    PROVE  IInv'
<1>1. UNCHANGED <<msgs, agent, passes>>
  BY DEF ScheduleOrbSleep, RequestOrbStart
<1>2. Intents' = Intents
  BY <1>1 DEF Intents, Outstanding
<1>3. CASE ScheduleOrbSleep
  <2>1. OrbHolds'
    BY <1>2, <1>3 DEF ScheduleOrbSleep, Advance, IInv, TypeOK, OrbHolds, ManualRevokes,
       StopCancelsWakes, Orb
  <2> QED BY <1>1, <2>1, OrbStep
<1>4. CASE RequestOrbStart
  <2>1. CASE orb.state \in {"stopped", "failed"}
    <3>1. orb' = [state |-> "starting", stopReason |-> "none", sleep |-> FALSE]
          /\ fresh' = {} /\ authorised' \subseteq authorised
      BY <1>4, <2>1 DEF RequestOrbStart, Advance, Reopen
    <3>2. OrbHolds'
      BY <3>1 DEF IInv, TypeOK, OrbHolds, ManualRevokes, StopCancelsWakes, Orb, OrbState
    <3> QED BY <1>1, <3>2, OrbStep
  <2>2. CASE orb.state \in {"starting", "running"}
    <3>1. orb' = [orb EXCEPT !.sleep = FALSE] /\ fresh' = {} /\ UNCHANGED authorised
      BY <1>4, <2>2 DEF RequestOrbStart, Advance
    <3>2. OrbHolds'
      BY <2>2, <3>1 DEF IInv, TypeOK, OrbHolds, ManualRevokes, StopCancelsWakes, Orb
    <3> QED BY <1>1, <3>2, OrbStep
  <2> QED BY <1>4, <2>1, <2>2 DEF RequestOrbStart
<1> QED BY <1>3, <1>4

LEMMA StopStep ==
    ASSUME IInv, RequestOrbStop
    PROVE  IInv' /\ RowsEvolve
<1>1. /\ orb' = Stopped /\ fresh' = {} /\ authorised' = {} /\ msgs' = NoIntents
      /\ UNCHANGED <<agent, passes>>
  BY DEF RequestOrbStop, Advance
<1>2. RowsEvolve
  <2> SUFFICES ASSUME NEW m \in Message PROVE RowEvolves(m, NoIntents[m])
    BY <1>1 DEF RowsEvolve, NoIntents
  <2>1. CASE m \notin Outstanding
    BY <2>1, RowStays DEF NoIntents
  <2>2. CASE m \in Outstanding
    <3>1. NoIntents[m] = [msgs[m] EXCEPT !.autoStart = FALSE]
      BY <2>2 DEF NoIntents
    <3>2. msgs[m] \in Row /\ ~msgs[m].cancelled
      BY <2>2 DEF IInv, TypeOK, CancelledIsFailed, Outstanding
    <3>3. /\ NoIntents[m] \in Row /\ NoIntents[m].status = msgs[m].status
          /\ NoIntents[m].batch = msgs[m].batch /\ ~NoIntents[m].autoStart
          /\ ~NoIntents[m].cancelled
      BY <3>1, <3>2 DEF Row
    <3>4. msgs[m].status \in {"queued", "delivering"}
      BY <2>2 DEF Outstanding
    <3> QED BY <2>2, <3>2, <3>3, <3>4, RowSettles
  <2> QED BY <2>1, <2>2
<1>3. Intents' = {}
  BY <1>1 DEF Intents, Outstanding, NoIntents, IInv, TypeOK, Row
<1>4. OrbHolds'
  BY <1>1, <1>3 DEF OrbHolds, Stopped, ManualRevokes, StopCancelsWakes, IInv, TypeOK, Orb, OrbState
<1>5. AgentTyped' /\ admitted' = admitted
  BY <1>1, Parts DEF agent, AgentTyped
<1> QED BY <1>1, <1>2, <1>4, <1>5, RowsKeep, PassesKeep, PartsNext

-----------------------------------------------------------------------------
(* Lifecycle reconciliation *)

LEMMA LifecycleKeeps ==
    ASSUME IInv, \/ EnterRunning \/ AutoRestart \/ FailOrb \/ FailRestartBudget
                 \/ QuietStop \/ EnterStopped \/ SleepOffVm
                 \/ CasStartOrbForQueuedMessage \/ WakeForAgentWork
    PROVE  IInv'
<1>1. UNCHANGED <<msgs, agent, passes>>
  BY DEF EnterRunning, AutoRestart, FailOrb, FailRestartBudget, QuietStop, EnterStopped,
     SleepOffVm, CasStartOrbForQueuedMessage, WakeForAgentWork
<1>2. Intents' = Intents
  BY <1>1 DEF Intents, Outstanding
<1> USE DEF IInv, TypeOK, OrbHolds, ManualRevokes, StopCancelsWakes, Orb, OrbState, Advance
<1>3. CASE EnterRunning \/ AutoRestart \/ WakeForAgentWork
  <2>1. OrbHolds'
    BY <1>3 DEF EnterRunning, AutoRestart, WakeForAgentWork
  <2> QED BY <1>1, <2>1, OrbStep
<1>4. CASE FailOrb \/ FailRestartBudget
  <2>1. OrbHolds'
    BY <1>4 DEF FailOrb, FailRestartBudget
  <2> QED BY <1>1, <2>1, OrbStep
<1>5. CASE QuietStop \/ SleepOffVm
  <2>1. OrbHolds'
    BY <1>5 DEF QuietStop, SleepOffVm
  <2> QED BY <1>1, <2>1, OrbStep
<1>6. CASE EnterStopped
  <2>1. OrbHolds'
    BY <1>2, <1>6 DEF EnterStopped
  <2> QED BY <1>1, <2>1, OrbStep
<1>7. CASE CasStartOrbForQueuedMessage
  <2>1. OrbHolds'
    BY <1>7 DEF CasStartOrbForQueuedMessage, Woken, Reopen
  <2> QED BY <1>1, <2>1, OrbStep
<1> QED BY <1>3, <1>4, <1>5, <1>6, <1>7

(* A due sleep ends and leaves its notice.                                   *)
LEMMA DueKeeps ==
    ASSUME IInv, ProcessDueOrbSleep
    PROVE  IInv'
<1> DEFINE wakes == orb.state # "running"
           row == [NoRow EXCEPT !.status = "queued", !.system = TRUE, !.autoStart = wakes]
<1>1. /\ row \in Row /\ row.status = "queued" /\ row.batch = {} /\ ~row.cancelled
      /\ row.autoStart = wakes
  <2>1. wakes \in BOOLEAN
    OBVIOUS
  <2> HIDE DEF wakes
  <2> QED BY <2>1, NewRows
<1>2. Insert(row) /\ UNCHANGED <<agent, passes, authorised>>
  BY DEF ProcessDueOrbSleep, agent
<1>3. /\ InboxHolds' /\ PassesHold' /\ AgentTyped' /\ msgs' \in [Message -> Row]
      /\ fresh' \subseteq Message
  <2> HIDE DEF row
  <2> QED BY <1>1, <1>2, InsertKeeps
<1>4. OrbHolds'
  <2>1. orb.sleep /\ orb' = [orb EXCEPT !.sleep = FALSE]
    BY DEF ProcessDueOrbSleep
  <2> QED BY <2>1, <1>2, <1>3 DEF IInv, TypeOK, OrbHolds, ManualRevokes, StopCancelsWakes, Orb
<1> QED BY <1>3, <1>4, PartsNext

-----------------------------------------------------------------------------
(* Dispatch passes *)

(* A pass moves: it ends, or stands at a label that asks nothing of what it  *)
(* holds, or it keeps what it holds between the second look and the commit.  *)
MovesSafely(p) ==
    \E label \in PC, batches \in SUBSET ((SUBSET Message) \ {{}}) :
        /\ pc' = [pc EXCEPT ![p] = label] /\ held' = [held EXCEPT ![p] = batches]
        /\ label \in {"reread", "submit"} => batches = held[p] /\ pc[p] = "reread"

LEMMA PassMoves ==
    ASSUME IInv, NEW p \in Processes, MovesSafely(p), RowsEvolve, admitted' = admitted
    PROVE  PassesHold'
<1>1. PICK label \in PC, batches \in SUBSET ((SUBSET Message) \ {{}}) :
          /\ pc' = [pc EXCEPT ![p] = label] /\ held' = [held EXCEPT ![p] = batches]
          /\ label \in {"reread", "submit"} => batches = held[p] /\ pc[p] = "reread"
  BY DEF MovesSafely
<1>2. pc' \in [Processes -> PC] /\ held' \in [Processes -> SUBSET ((SUBSET Message) \ {{}})]
  BY <1>1 DEF IInv, TypeOK
<1>3. HeldIsPrefix'
  <2> SUFFICES ASSUME NEW q \in Processes, pc'[q] \in {"reread", "submit"},
                      NEW m \in UNION held'[q]
      PROVE /\ msgs'[m].status # "none"
            /\ \A k \in Outstanding' : k < m => k \in UNION held'[q]
    BY DEF HeldIsPrefix
  <2>1. held'[q] = held[q] /\ pc[q] \in {"reread", "submit"}
    BY <1>1 DEF IInv, TypeOK
  <2>2. m \in Message
    BY <2>1 DEF IInv, TypeOK
  <2> QED BY <2>1, <2>2, RowsKeep DEF IInv, HeldIsPrefix
<1> QED BY <1>2, <1>3 DEF PassesHold

(* Rows that stay, evolve.                                                   *)
LEMMA Unmoved == IInv /\ UNCHANGED msgs => RowsEvolve
<1> SUFFICES ASSUME IInv, UNCHANGED msgs PROVE RowsEvolve
  OBVIOUS
<1>1. msgs' = [m \in Message |-> msgs'[m]]
  BY DEF IInv, TypeOK
<1> QED BY <1>1, RowStays DEF RowsEvolve

(* A step of one pass and the rows, that gives the agent nothing.            *)
LEMMA PassStep ==
    ASSUME IInv, NEW p \in Processes, MovesSafely(p), RowsEvolve,
           UNCHANGED <<orb, fresh, agent, authorised>>
    PROVE  IInv'
<1>1. AgentTyped' /\ admitted' = admitted
  BY Parts DEF AgentTyped, agent
<1>2. OrbHolds'
  BY <1>1, RowsKeep, StopKeeps
<1> QED BY <1>1, <1>2, RowsKeep, PassMoves, PartsNext

(* Ending a pass, and moving it on past the commit, is always safe.          *)
LEMMA EndIsSafe ==
    ASSUME IInv, NEW p \in Processes, EndPass(p)
    PROVE  MovesSafely(p)
<1>1. {} \in SUBSET ((SUBSET Message) \ {{}}) /\ "idle" \in PC
  BY DEF PC
<1> QED BY <1>1 DEF EndPass, Goto, MovesSafely

LEMMA HeldTyped ==
    ASSUME IInv, NEW p \in Processes
    PROVE  /\ held[p] \in SUBSET ((SUBSET Message) \ {{}})
           /\ held = [held EXCEPT ![p] = held[p]]
BY DEF IInv, TypeOK

LEMMA MoveIsSafe ==
    ASSUME IInv, NEW p \in Processes, UNCHANGED held,
           NEW label \in PC, Goto(p, label),
           label \in {"reread", "submit"} => pc[p] = "reread"
    PROVE  MovesSafely(p)
BY HeldTyped DEF Goto, MovesSafely

LEMMA NextBatchIsSafe ==
    ASSUME IInv, NEW p \in Processes, NextBatch(p), pc[p] \in {"note", "refused"}
    PROVE  MovesSafely(p)
<1> DEFINE label == IF held'[p] = {} THEN "idle" ELSE pc[p]
           batches == held[p] \ {Head(p)}
<1>1. label \in PC /\ label \notin {"reread", "submit"}
  BY DEF PC
<1>2. batches \in SUBSET ((SUBSET Message) \ {{}})
  BY HeldTyped
<1>3. pc' = [pc EXCEPT ![p] = label] /\ held' = [held EXCEPT ![p] = batches]
  BY DEF NextBatch, Goto
<1> HIDE DEF label, batches
<1> QED BY <1>1, <1>2, <1>3 DEF MovesSafely

(* Steps of a pass that touch no row.                                        *)
LEMMA QuietPassKeeps ==
    ASSUME IInv, NEW p \in Processes, Abandon(p) \/ ReRead(p) \/ RefuseStartup(p)
    PROVE  IInv'
<1>1. UNCHANGED <<orb, msgs, fresh, agent, authorised>>
  BY DEF Abandon, ReRead, RefuseStartup
<1>2. MovesSafely(p)
  <2>1. CASE Abandon(p)
    BY <2>1, EndIsSafe DEF Abandon
  <2>2. CASE ReRead(p)
    BY <2>2, EndIsSafe, MoveIsSafe DEF ReRead, PC
  <2>3. CASE RefuseStartup(p)
    BY <2>3, MoveIsSafe DEF RefuseStartup, PC
  <2> QED BY <2>1, <2>2, <2>3
<1> QED BY <1>1, <1>2, Unmoved, PassStep

(* A pass begins, having woken a failed orb if it must.                      *)
LEMMA ReconcileKeeps ==
    ASSUME IInv, NEW p \in Processes, Reconcile(p)
    PROVE  IInv'
<1>1. /\ UNCHANGED <<msgs, held, agent>> /\ Goto(p, "claim") /\ orb.stopReason # "manual"
  BY DEF Reconcile
<1>2. MovesSafely(p)
  BY <1>1, MoveIsSafe DEF PC
<1>3. OrbHolds'
  <2>1. CASE orb.state = "failed" /\ ~orb.sleep /\ Waking # {}
    <3>1. /\ orb' = [orb EXCEPT !.state = "starting", !.stopReason = "none"] /\ fresh' = {}
          /\ authorised' \subseteq authorised \cup {p}
      BY <2>1 DEF Reconcile, Woken, Advance
    <3> QED BY <3>1 DEF IInv, TypeOK, OrbHolds, ManualRevokes, StopCancelsWakes, Orb, OrbState
  <2>2. CASE ~(orb.state = "failed" /\ ~orb.sleep /\ Waking # {})
    <3>1. UNCHANGED <<orb, fresh>> /\ authorised' = authorised \cup {p}
      BY <2>2 DEF Reconcile
    <3> QED BY <1>1, <3>1 DEF IInv, TypeOK, OrbHolds, ManualRevokes, StopCancelsWakes
  <2> QED BY <2>1, <2>2
<1>4. AgentTyped' /\ admitted' = admitted
  BY <1>1, Parts DEF AgentTyped, agent
<1> QED BY <1>1, <1>2, <1>3, <1>4, Unmoved, RowsKeep, PassMoves, PartsNext

(* A claim freezes everything outstanding, and holds it.                     *)
LEMMA ClaimKeeps ==
    ASSUME IInv, NEW p \in Processes, ClaimOrbMessageBacklog(p)
    PROVE  IInv' /\ RowsEvolve
<1>1. UNCHANGED <<orb, fresh, agent, authorised>>
  BY DEF ClaimOrbMessageBacklog
<1>2. CASE EndPass(p) /\ UNCHANGED msgs
  BY <1>1, <1>2, EndIsSafe, Unmoved, PassStep
<1>3. CASE /\ msgs' = Frozen /\ Goto(p, "reread")
           /\ held' = [held EXCEPT ![p] = {Frozen[m].batch : m \in Outstanding}]
  <2>1. RowsEvolve
    <3> SUFFICES ASSUME NEW m \in Message PROVE RowEvolves(m, Frozen[m])
      BY <1>3 DEF RowsEvolve, Frozen
    <3>1. CASE ~Unbatched(m)
      BY <3>1, FrozenShape, RowStays
    <3>2. CASE Unbatched(m)
      <4>1. m \in Outstanding /\ ~msgs[m].cancelled
        BY <3>2 DEF Unbatched, Outstanding, IInv, CancelledIsFailed
      <4>2. \A b \in admitted : m \notin b
        BY <3>2 DEF Unbatched, IInv, AdmittedAsFrozen
      <4> QED BY <3>2, <4>1, <4>2, FrozenShape DEF RowEvolves, Outstanding
    <3> QED BY <3>1, <3>2
  <2>2. /\ Outstanding \subseteq UNION held'[p]
        /\ \A m \in UNION held'[p] : msgs[m].status # "none"
        /\ held'[p] \in SUBSET ((SUBSET Message) \ {{}})
    <3>1. held'[p] = {Frozen[m].batch : m \in Outstanding}
      BY <1>3 DEF IInv, TypeOK
    <3>2. \A m \in Outstanding :
              /\ m \in Frozen[m].batch /\ Frozen[m].batch \subseteq Message
              /\ \A k \in Frozen[m].batch : msgs[k].status # "none"
      BY FrozenShape DEF Outstanding, Row
    <3> QED BY <3>1, <3>2
  <2>3. PassesHold'
    <3>1. /\ pc' \in [Processes -> PC]
          /\ held' \in [Processes -> SUBSET ((SUBSET Message) \ {{}})]
      BY <1>3, <2>2 DEF IInv, TypeOK, Goto, PC
    <3>2. HeldIsPrefix'
      <4> SUFFICES ASSUME NEW q \in Processes, pc'[q] \in {"reread", "submit"},
                          NEW m \in UNION held'[q]
          PROVE /\ msgs'[m].status # "none"
                /\ \A k \in Outstanding' : k < m => k \in UNION held'[q]
        BY DEF HeldIsPrefix
      <4>1. m \in Message
        BY <3>1
      <4>2. /\ Outstanding' \subseteq Outstanding
            /\ msgs'[m].status = "none" <=> msgs[m].status = "none"
        BY <1>1, <2>1, <4>1, RowsKeep DEF agent
      <4>3. CASE q = p
        BY <2>2, <4>2, <4>3
      <4>4. CASE q # p
        <5>1. held'[q] = held[q] /\ pc'[q] = pc[q]
          BY <1>3, <4>4 DEF Goto, IInv, TypeOK
        <5> QED BY <4>2, <5>1 DEF IInv, HeldIsPrefix
      <4> QED BY <4>3, <4>4
    <3> QED BY <3>1, <3>2 DEF PassesHold
  <2>4. AgentTyped' /\ admitted' = admitted
    BY <1>1, Parts DEF AgentTyped, agent
  <2>5. OrbHolds'
    BY <1>1, <2>1, <2>4, RowsKeep, StopKeeps
  <2> QED BY <2>1, <2>3, <2>4, <2>5, RowsKeep, PartsNext
<1> QED BY <1>2, <1>3 DEF ClaimOrbMessageBacklog

(* A submission gives the agent what is frozen and not admitted yet.         *)
LEMMA SubmitKeeps ==
    ASSUME IInv, NEW p \in Processes, SubmitMany(p)
    PROVE  IInv'
<1> DEFINE new == held[p] \ admitted
<1>1. /\ pc[p] = "submit" /\ Goto(p, "note") /\ UNCHANGED <<orb, msgs, fresh, held, authorised>>
      /\ admitted' = admitted \cup new /\ open' = open \cup new
      /\ \A b \in new : Admissible(b)
  BY DEF SubmitMany
<1>2. new \subseteq ((SUBSET Message) \ {{}})
  BY HeldTyped
<1>3. \A b \in new : \A m \in b :
          m \in Message /\ m \in Outstanding /\ msgs[m].batch = b /\ ~msgs[m].cancelled
            /\ msgs[m].status # "none"
  BY <1>1, <1>2 DEF Admissible, IInv, CancelledIsFailed, Outstanding
<1> HIDE DEF new
<1>4. Outstanding' = Outstanding
  BY <1>1 DEF Outstanding
<1>5. CancelledIsNeverAdmitted'
  BY <1>1, <1>3 DEF IInv, CancelledIsNeverAdmitted
<1>6. AdmittedAsFrozen'
  BY <1>1, <1>3, <1>4 DEF IInv, AdmittedAsFrozen
<1>7. AdmittedOnce'
  <2> SUFFICES ASSUME NEW b \in admitted', NEW c \in admitted', NEW m \in b, m \in c
      PROVE b = c
    BY DEF AdmittedOnce
  <2>1. CASE b \in admitted /\ c \in admitted
    BY <2>1 DEF IInv, AdmittedOnce
  <2>2. CASE b \in new \/ c \in new
    BY <1>1, <1>3, <2>2 DEF IInv, AdmittedAsFrozen
  <2> QED BY <1>1, <2>1, <2>2
<1>8. PassesHold'
  <2>1. MovesSafely(p)
    BY <1>1, MoveIsSafe DEF PC
  <2>2. pc' \in [Processes -> PC] /\ \A q \in Processes : pc'[q] \in {"reread", "submit"} => pc'[q] = pc[q]
    BY <1>1 DEF Goto, PC, IInv, TypeOK
  <2> QED BY <1>1, <1>4, <2>2 DEF PassesHold, HeldIsPrefix, IInv, TypeOK
<1>9. OrbHolds' /\ AgentTyped'
  BY <1>1, <1>2, Parts
     DEF OrbHolds, AgentTyped, ManualRevokes, StopCancelsWakes, Intents, Outstanding
<1>10. OwnBatch' /\ CancelledIsFailed' /\ Contiguous' /\ msgs' \in [Message -> Row]
  BY <1>1 DEF IInv, TypeOK, OwnBatch, CancelledIsFailed, Contiguous
<1> QED BY <1>5, <1>6, <1>7, <1>8, <1>9, <1>10, PartsNext DEF InboxHolds

(* The rows that failure, a note and publication leave.                      *)
Settled(row, status) == [row EXCEPT !.status = status, !.autoStart = FALSE]

LEMMA SettledRows ==
    ASSUME NEW row \in Row, NEW status \in {"queued", "delivering", "delivered", "failed"}
    PROVE  /\ Settled(row, status) \in Row /\ Settled(row, status).status = status
           /\ Settled(row, status).batch = row.batch /\ ~Settled(row, status).autoStart
           /\ Settled(row, status).cancelled = row.cancelled
BY DEF Row, Settled

LEMMA Settles ==
    ASSUME IInv, NEW m \in Message, msgs[m].status # "none", ~msgs[m].cancelled,
           NEW status \in {"queued", "delivering", "delivered", "failed"},
           status \in {"queued", "delivering"} => m \in Outstanding,
           msgs[m].status = "delivered" => status = "delivered"
    PROVE  RowEvolves(m, Settled(msgs[m], status))
<1>1. msgs[m] \in Row
  BY DEF IInv, TypeOK
<1> QED BY <1>1, SettledRows, RowSettles

(* Failing the outstanding messages of a batch.                              *)
LEMMA FailedRows ==
    ASSUME IInv, NEW b,
           msgs' = [m \in Message |->
                      IF m \in b /\ m \in Outstanding /\ msgs[m].batch = b
                      THEN [msgs[m] EXCEPT !.status = "failed", !.autoStart = FALSE]
                      ELSE msgs[m]]
    PROVE  RowsEvolve
<1> SUFFICES ASSUME NEW m \in Message PROVE RowEvolves(m, msgs'[m])
  BY DEF RowsEvolve
<1>1. CASE m \in b /\ m \in Outstanding /\ msgs[m].batch = b
  <2>1. msgs'[m] = Settled(msgs[m], "failed")
    BY <1>1 DEF Settled
  <2>2. /\ msgs[m].status # "none" /\ msgs[m].status # "delivered" /\ ~msgs[m].cancelled
    BY <1>1 DEF Outstanding, IInv, CancelledIsFailed
  <2> QED BY <2>1, <2>2, Settles
<1>2. CASE ~(m \in b /\ m \in Outstanding /\ msgs[m].batch = b)
  BY <1>2, RowStays
<1> QED BY <1>1, <1>2

LEMMA FailBatchKeeps ==
    ASSUME IInv, NEW p \in Processes, FailOrbMessageBatch(p)
    PROVE  IInv' /\ RowsEvolve
BY FailedRows, NextBatchIsSafe, PassStep DEF FailOrbMessageBatch

(* A note.                                                                   *)
LEMMA NoteKeeps ==
    ASSUME IInv, NEW p \in Processes, NoteOrbMessageDelivery(p)
    PROVE  IInv' /\ RowsEvolve
<1> DEFINE Concerned(m) ==
        m \in Head(p) /\ msgs[m].status \in {"queued", "delivering", "delivered"}
<1>1. /\ msgs' = [m \in Message |-> IF Concerned(m) THEN Noted(m) ELSE msgs[m]]
      /\ pc[p] = "note" /\ NextBatch(p) /\ UNCHANGED <<orb, fresh, agent, authorised>>
  BY DEF NoteOrbMessageDelivery
<1>2. RowsEvolve
  <2> SUFFICES ASSUME NEW m \in Message PROVE RowEvolves(m, msgs'[m])
    BY <1>1 DEF RowsEvolve
  <2>1. CASE Concerned(m)
    <3> DEFINE status == IF msgs[m].status = "delivered" THEN "delivered" ELSE "delivering"
    <3>1. /\ msgs[m] \in Row /\ msgs[m].status # "none" /\ ~msgs[m].cancelled
          /\ status \in {"delivering", "delivered"}
          /\ status = "delivering" => m \in Outstanding
      BY <2>1 DEF IInv, TypeOK, CancelledIsFailed, Outstanding
    <3>2. msgs'[m] = [msgs[m] EXCEPT !.status = status, !.autoStart = FALSE, !.noted = TRUE]
      BY <1>1, <2>1 DEF Noted
    <3>3. /\ msgs'[m] \in Row /\ msgs'[m].status = status /\ msgs'[m].batch = msgs[m].batch
          /\ ~msgs'[m].autoStart /\ ~msgs'[m].cancelled
      <4> HIDE DEF status
      <4> QED BY <3>1, <3>2 DEF Row
    <3>4. msgs[m].status = "delivered" => status = "delivered"
      OBVIOUS
    <3> HIDE DEF status
    <3> QED BY <3>1, <3>3, <3>4, RowSettles
  <2>2. CASE ~Concerned(m)
    BY <1>1, <2>2, RowStays
  <2> QED BY <2>1, <2>2
<1> QED BY <1>1, <1>2, NextBatchIsSafe, PassStep

-----------------------------------------------------------------------------
(* The agent *)

LEMMA AnswerKeeps ==
    ASSUME IInv, NEW b \in open, Answer(b)
    PROVE  IInv' /\ RowsEvolve
<1>1. /\ UNCHANGED <<orb, fresh, admitted, authorised, passes>> /\ open' \subseteq open
      /\ b \in admitted
  BY DEF Answer, Publish, EndUnanswered, IInv, TypeOK
<1>2. RowsEvolve
  <2>1. CASE Publish(b)
    <3> SUFFICES ASSUME NEW m \in Message PROVE RowEvolves(m, msgs'[m])
      BY <2>1 DEF Publish, RowsEvolve
    <3>1. CASE m \in b
      <4>1. msgs'[m] = Settled(msgs[m], "delivered")
        BY <2>1, <3>1 DEF Publish, Settled
      <4>2. msgs[m].status # "none" /\ ~msgs[m].cancelled
        BY <1>1, <3>1 DEF IInv, AdmittedAsFrozen, CancelledIsNeverAdmitted
      <4> QED BY <4>1, <4>2, Settles
    <3>2. CASE m \notin b
      BY <2>1, <3>2, RowStays DEF Publish
    <3> QED BY <3>1, <3>2
  <2>2. CASE EndUnanswered(b)
    BY <2>2, FailedRows DEF EndUnanswered
  <2> QED BY <2>1, <2>2 DEF Answer
<1> QED BY <1>1, <1>2, RowsStep

-----------------------------------------------------------------------------
(* The whole *)

LEMMA InitHolds == Init => IInv
<1> SUFFICES ASSUME Init PROVE IInv
  OBVIOUS
<1>1. TypeOK
  BY DEF Init, TypeOK, Orb, OrbState, Row, NoRow, PC
<1>2. Outstanding = {}
  BY DEF Init, NoRow, Outstanding
<1> QED BY <1>1, <1>2 DEF Init, NoRow, IInv, OwnBatch, CancelledIsFailed,
    CancelledIsNeverAdmitted, AdmittedAsFrozen, AdmittedOnce, ManualRevokes, StopCancelsWakes,
    Contiguous, HeldIsPrefix

LEMMA StutterKeeps == IInv /\ UNCHANGED vars => IInv'
<1> SUFFICES ASSUME IInv, UNCHANGED vars PROVE IInv'
  OBVIOUS
<1>1. UNCHANGED <<orb, msgs, fresh, authorised, agent, passes>> /\ admitted' = admitted
      /\ open' = open
  BY DEF vars, agent, passes
<1> QED BY <1>1, Unmoved, RowsStep

(* Every step.                                                               *)
LEMMA NextKeeps == IInv /\ [Next]_vars => IInv'
<1> SUFFICES ASSUME IInv, Next PROVE IInv'
  BY StutterKeeps
<1>1. CASE Commands
  BY <1>1, EnqueueKeeps, CancelKeeps, OrbCommandKeeps, StopStep DEF Commands
<1>2. CASE Lifecycle
  BY <1>2, LifecycleKeeps, DueKeeps DEF Lifecycle
<1>3. ASSUME NEW p \in Processes, Dispatch(p) \/ Abandon(p) PROVE IInv'
  BY <1>3, ReconcileKeeps, ClaimKeeps, QuietPassKeeps, SubmitKeeps, FailBatchKeeps, NoteKeeps
     DEF Dispatch
<1>4. ASSUME NEW b \in open, Answer(b) PROVE IInv'
  BY <1>4, AnswerKeeps
<1> QED BY <1>1, <1>2, <1>3, <1>4 DEF Next

(* IInv is an invariant of the inbox: the safety properties follow from it.  *)
THEOREM Inductive == Spec => []IInv
BY InitHolds, NextKeeps, PTL DEF Spec

(* The row, the inbox and the passes have their types.                       *)
THEOREM TypeCorrect == Spec => []TypeOK
BY Inductive, PTL DEF IInv

(* A confirmed cancellation holds against every pass and every process.      *)
THEOREM CancellationHolds == Spec => []CancelledIsNeverAdmitted
BY Inductive, PTL DEF IInv

(* The agent is given each message at most once.                             *)
THEOREM AtMostOnce == Spec => []AdmittedOnce
BY Inductive, PTL DEF IInv

(* After an accepted Stop nothing is left that could wake the orb.           *)
THEOREM StopIsFinal == Spec => []StopCancelsWakes
BY Inductive, PTL DEF IInv

-----------------------------------------------------------------------------
(* Action properties *)

(* Only a submission changes what the agent was given.                       *)
LEMMA OnlySubmissionsAdmit ==
    ASSUME IInv, [Next]_vars, admitted' # admitted
    PROVE  \E p \in Processes : SubmitMany(p)
<1>1. Next
  BY DEF vars
<1>2. ASSUME Commands \/ Lifecycle PROVE admitted' = admitted
  BY <1>2 DEF Commands, Lifecycle, EnqueueOrbMessage, CancelPendingOrbMessage, ScheduleOrbSleep,
     RequestOrbStart, RequestOrbStop, EnterRunning, AutoRestart, FailOrb, FailRestartBudget,
     QuietStop, EnterStopped, SleepOffVm, ProcessDueOrbSleep, CasStartOrbForQueuedMessage,
     WakeForAgentWork, agent
<1>3. ASSUME NEW p \in Processes, Dispatch(p) \/ Abandon(p), ~SubmitMany(p)
      PROVE admitted' = admitted
  BY <1>3 DEF Dispatch, Abandon, Reconcile, ClaimOrbMessageBacklog, ReRead, RefuseStartup,
     FailOrbMessageBatch, NoteOrbMessageDelivery, agent
<1>4. ASSUME NEW b \in open, Answer(b) PROVE admitted' = admitted
  BY <1>4 DEF Answer, Publish, EndUnanswered
<1> QED BY <1>1, <1>2, <1>3, <1>4 DEF Next

(* Nothing is given to the agent of an orb that is stopped or goes to sleep: *)
(* Stop takes its admission version from every pass.                         *)
THEOREM StopFences == Spec => NothingAdmittedWhileStopped
<1>1. IInv /\ [Next]_vars => [admitted' # admitted => Accepting]_vars
  <2> SUFFICES ASSUME IInv, [Next]_vars, admitted' # admitted PROVE Accepting
    OBVIOUS
  <2>1. PICK p \in Processes : SubmitMany(p)
    BY OnlySubmissionsAdmit
  <2>2. p \in authorised /\ held[p] \ admitted # {}
    BY <2>1 DEF SubmitMany
  <2>3. ~orb.sleep /\ orb.stopReason # "sleep"
    BY <2>1, <2>2 DEF SubmitMany
  <2>4. orb.stopReason \in {"none", "manual", "sleep"} /\ orb.stopReason # "manual"
    BY <2>2 DEF IInv, TypeOK, Orb, ManualRevokes
  <2> QED BY <2>3, <2>4 DEF Accepting
<1> QED BY <1>1, Inductive, PTL DEF Spec, NothingAdmittedWhileStopped

(* Whatever is given to the agent takes everything outstanding before it     *)
(* along, or finds it given already.                                         *)
THEOREM FirstInFirstOut == Spec => AdmittedInOrder
<1> DEFINE InOrder ==
        \A b \in admitted' \ admitted : \A k \in Outstanding :
            k < Min(b) => k \in UNION admitted'
<1>1. IInv /\ [Next]_vars => [InOrder]_vars
  <2> SUFFICES ASSUME IInv, [Next]_vars,
                      NEW b \in admitted' \ admitted, NEW k \in Outstanding, k < Min(b)
      PROVE k \in UNION admitted'
    OBVIOUS
  <2>1. PICK p \in Processes : SubmitMany(p)
    BY OnlySubmissionsAdmit
  <2>2. /\ pc[p] = "submit" /\ b \in held[p] /\ held[p] \subseteq admitted'
    BY <2>1 DEF SubmitMany
  <2>3. b \in SUBSET Message /\ b # {}
    BY <2>2, HeldTyped
  <2>4. Min(b) \in b
    BY <2>3, MinIsLeast
  <2>5. k \in UNION held[p]
    BY <2>2, <2>4 DEF IInv, HeldIsPrefix
  <2> QED BY <2>2, <2>5
<1> QED BY <1>1, Inductive, PTL DEF Spec, AdmittedInOrder

(* What history has retired stays retired.                                   *)
THEOREM RetirementIsFinal == Spec => DeliveredIsFinal
<1> DEFINE Final ==
        \A m \in Message : msgs[m].status = "delivered" => msgs'[m].status = "delivered"
<1>1. ASSUME IInv, RowsEvolve PROVE Final
  BY <1>1 DEF RowsEvolve, RowEvolves
<1>2. ASSUME IInv, NEW row, Insert(row) PROVE Final
  BY <1>2 DEF Insert, IInv, TypeOK
<1>3. IInv /\ [Next]_vars => [Final]_vars
  <2> SUFFICES ASSUME IInv, Next PROVE Final
    BY Zenon
  <2>1. CASE Commands
    <3>1. ASSUME NEW wake, NEW system, EnqueueOrbMessage(wake, system) PROVE Final
      BY <1>2, <3>1 DEF EnqueueOrbMessage
    <3>2. ASSUME ScheduleOrbSleep \/ RequestOrbStart PROVE Final
      BY <3>2 DEF ScheduleOrbSleep, RequestOrbStart
    <3> HIDE DEF Final
    <3> QED BY <1>1, <2>1, <3>1, <3>2, CancelKeeps, StopStep DEF Commands
  <2>2. CASE Lifecycle
    <3>1. CASE ProcessDueOrbSleep
      BY <1>2, <3>1 DEF ProcessDueOrbSleep
    <3>2. CASE ~ProcessDueOrbSleep
      BY <2>2, <3>2 DEF Lifecycle, EnterRunning, AutoRestart, FailOrb, FailRestartBudget,
         QuietStop, EnterStopped, SleepOffVm, CasStartOrbForQueuedMessage, WakeForAgentWork
    <3> QED BY <3>1, <3>2
  <2>3. ASSUME NEW p \in Processes, Dispatch(p) \/ Abandon(p) PROVE Final
    <3>1. CASE ClaimOrbMessageBacklog(p) \/ FailOrbMessageBatch(p) \/ NoteOrbMessageDelivery(p)
      BY <1>1, <3>1, ClaimKeeps, FailBatchKeeps, NoteKeeps
    <3>2. CASE Reconcile(p) \/ ReRead(p) \/ SubmitMany(p) \/ RefuseStartup(p) \/ Abandon(p)
      BY <3>2 DEF Reconcile, ReRead, SubmitMany, RefuseStartup, Abandon
    <3> QED BY <2>3, <3>1, <3>2 DEF Dispatch
  <2>4. ASSUME NEW b \in open, Answer(b) PROVE Final
    BY <1>1, <2>4, AnswerKeeps
  <2> HIDE DEF Final
  <2> QED BY <2>1, <2>2, <2>3, <2>4 DEF Next
<1> QED BY <1>3, Inductive, PTL DEF Spec, DeliveredIsFinal

-----------------------------------------------------------------------------
(* The inbox implements Mailbox *)

(* As the mailbox sees it, a row stays what it was.                          *)
SameMessage(m) ==
    /\ msgs'[m].status = "none" <=> msgs[m].status = "none"
    /\ msgs'[m].status \in {"queued", "delivering"} <=> msgs[m].status \in {"queued", "delivering"}
    /\ msgs'[m].status = "delivered" <=> msgs[m].status = "delivered"
    /\ msgs'[m].cancelled <=> msgs[m].cancelled

(* A step that leaves every row what it was at most opens or closes the orb. *)
LEMMA CommandsMail ==
    ASSUME \A m \in Message : SameMessage(m), admitted' = admitted
    PROVE  Box!Command
<1>1. /\ {m \in Message : msgs'[m].status # "none"} = {m \in Message : msgs[m].status # "none"}
      /\ Outstanding' = Outstanding
      /\ {m \in Message : msgs'[m].cancelled} = {m \in Message : msgs[m].cancelled}
      /\ {m \in Message : msgs'[m].status = "delivered"}
           = {m \in Message : msgs[m].status = "delivered"}
  BY DEF SameMessage, Outstanding
<1> QED BY <1>1 DEF Box!Command, Accepting

LEMMA QuietMail ==
    ASSUME UNCHANGED <<msgs, admitted>>
    PROVE  Box!Command
BY CommandsMail DEF SameMessage

(* A row that is inserted takes the next number.                             *)
LEMMA InsertMails ==
    ASSUME IInv, NEW row \in Row, row.status = "queued", ~row.cancelled, Insert(row), UNCHANGED agent
    PROVE  Box!Send
<1>1. PICK n \in Message :
          /\ msgs[n].status = "none" /\ \A k \in Message : k < n => msgs[k].status # "none"
          /\ msgs' = [msgs EXCEPT ![n] = row]
  BY DEF Insert
<1>2. msgs'[n] = row /\ \A m \in Message : m # n => msgs'[m] = msgs[m]
  BY <1>1 DEF IInv, TypeOK
<1>3. msgs[n].cancelled = FALSE
  BY <1>1 DEF IInv, TypeOK, Row, CancelledIsFailed
<1>4. \A k \in Message : msgs[k].status # "none" => k < n
  <2> SUFFICES ASSUME NEW k \in Message, msgs[k].status # "none" PROVE k # n /\ ~(n < k)
    BY MessagesAreNat
  <2> QED BY <1>1 DEF IInv, Contiguous
<1>5. /\ {m \in Message : msgs'[m].status # "none"} = {m \in Message : msgs[m].status # "none"} \cup {n}
      /\ Outstanding' = Outstanding \cup {n}
      /\ {m \in Message : msgs'[m].cancelled} = {m \in Message : msgs[m].cancelled}
      /\ {m \in Message : msgs'[m].status = "delivered"}
           = {m \in Message : msgs[m].status = "delivered"}
  BY <1>1, <1>2, <1>3 DEF Outstanding
<1>6. admitted' = admitted
  BY DEF agent
<1> QED BY <1>1, <1>4, <1>5, <1>6 DEF Box!Send, Accepting

(* A cancellation takes one message back.                                    *)
LEMMA CancelMails ==
    ASSUME IInv, NEW m \in Message, CancelPendingOrbMessage(m)
    PROVE  Box!Withdraw
<1>1. /\ m \in Outstanding /\ m \notin UNION admitted
      /\ msgs' = Cancelled(m) /\ UNCHANGED <<orb, admitted>>
  BY DEF CancelPendingOrbMessage, agent
<1>2. \A k \in Message : msgs[k] \in Row
  BY DEF IInv, TypeOK
<1>3. msgs'[m].status = "failed" /\ msgs'[m].cancelled
  <2>1. msgs'[m] = Withdrawn(msgs[m])
    BY <1>1 DEF Cancelled, Withdrawn
  <2> QED BY <1>2, <2>1 DEF Withdrawn, Row
<1>4. ASSUME NEW k \in Message, k # m PROVE SameMessage(k)
  <2>1. msgs'[k] = msgs[k] \/ (k \in Outstanding /\ msgs'[k] = Requeued(msgs[k]))
    BY <1>1, <1>4 DEF Cancelled, Requeued
  <2>2. Requeued(msgs[k]).status = "queued" /\ Requeued(msgs[k]).cancelled = msgs[k].cancelled
    BY <1>2, CancelledRows
  <2> QED BY <2>1, <2>2 DEF SameMessage, Outstanding
<1>5. msgs[m].status # "none" /\ msgs[m].status # "delivered"
  BY <1>1 DEF Outstanding
<1>6. /\ {k \in Message : msgs'[k].status # "none"} = {k \in Message : msgs[k].status # "none"}
      /\ Outstanding' = Outstanding \ {m}
      /\ {k \in Message : msgs'[k].cancelled} = {k \in Message : msgs[k].cancelled} \cup {m}
      /\ {k \in Message : msgs'[k].status = "delivered"}
           = {k \in Message : msgs[k].status = "delivered"}
  BY <1>3, <1>4, <1>5 DEF SameMessage, Outstanding
<1> QED BY <1>1, <1>6 DEF Box!Withdraw, Accepting

(* Stop, a claim and a note change no message.                               *)
LEMMA StopMails ==
    ASSUME IInv, RequestOrbStop
    PROVE  Box!Command
<1>1. msgs' = NoIntents /\ admitted' = admitted
  BY DEF RequestOrbStop, agent
<1>2. ASSUME NEW m \in Message PROVE SameMessage(m)
  <2>1. msgs'[m] = msgs[m] \/ msgs'[m] = [msgs[m] EXCEPT !.autoStart = FALSE]
    BY <1>1 DEF NoIntents
  <2> QED BY <2>1 DEF SameMessage, IInv, TypeOK, Row
<1> QED BY <1>1, <1>2, CommandsMail

LEMMA ClaimMails ==
    ASSUME IInv, NEW p \in Processes, ClaimOrbMessageBacklog(p)
    PROVE  Box!Command
<1>1. admitted' = admitted
  BY DEF ClaimOrbMessageBacklog, agent
<1>2. CASE UNCHANGED msgs
  BY <1>1, <1>2, QuietMail
<1>3. CASE msgs' = Frozen
  <2>1. ASSUME NEW m \in Message PROVE SameMessage(m)
    BY <1>3, FrozenShape DEF SameMessage, Unbatched, Outstanding
  <2> QED BY <1>1, <2>1, CommandsMail
<1> QED BY <1>2, <1>3 DEF ClaimOrbMessageBacklog

LEMMA NoteMails ==
    ASSUME IInv, NEW p \in Processes, NoteOrbMessageDelivery(p)
    PROVE  Box!Command
<1>1. admitted' = admitted
  BY DEF NoteOrbMessageDelivery, agent
<1>2. ASSUME NEW m \in Message PROVE SameMessage(m)
  <2>1. msgs[m] \in Row
    BY DEF IInv, TypeOK
  <2>2. CASE msgs'[m] = msgs[m]
    BY <2>2 DEF SameMessage
  <2>3. CASE msgs[m].status \in {"queued", "delivering", "delivered"} /\ msgs'[m] = Noted(m)
    BY <2>1, <2>3 DEF Noted, SameMessage, Row
  <2> QED BY <2>2, <2>3 DEF NoteOrbMessageDelivery
<1> QED BY <1>1, <1>2, CommandsMail

(* A submission gives the agent what a pass holds, and with it everything    *)
(* that waits before it.                                                     *)
LEMMA SubmitMails ==
    ASSUME IInv, NEW p \in Processes, SubmitMany(p), admitted' # admitted
    PROVE  Box!Give
<1> DEFINE new == held[p] \ admitted
           some == UNION new
<1>1. /\ pc[p] = "submit" /\ UNCHANGED <<orb, msgs>> /\ admitted' = admitted \cup new
      /\ \A b \in new : Admissible(b)
  BY DEF SubmitMany
<1>2. new # {} /\ p \in authorised /\ ~orb.sleep /\ orb.stopReason # "sleep"
  BY <1>1 DEF SubmitMany
<1>3. Accepting
  BY <1>2 DEF IInv, TypeOK, Orb, ManualRevokes, Accepting
<1>4. \A b \in new : \A m \in b : m \in Outstanding /\ m \notin UNION admitted
  <2> SUFFICES ASSUME NEW b \in new, NEW m \in b
      PROVE m \in Outstanding /\ \A c \in admitted : m \notin c
    OBVIOUS
  <2>1. m \in Outstanding /\ msgs[m].batch = b
    BY <1>1 DEF Admissible
  <2> QED BY <2>1 DEF IInv, AdmittedAsFrozen
<1>5. some \in SUBSET (Outstanding \ (UNION admitted))
  BY <1>4
<1>6. UNION admitted' = (UNION admitted) \cup some
  BY <1>1
<1>7. \A m \in some : \A k \in Outstanding : k < m => k \in (UNION admitted) \cup some
  <2> SUFFICES ASSUME NEW m \in UNION held[p], NEW k \in Outstanding, k < m
      PROVE k \in (UNION admitted) \cup some
    OBVIOUS
  <2>1. k \in UNION held[p]
    BY <1>1 DEF IInv, HeldIsPrefix
  <2> QED BY <2>1
<1>8. Outstanding' = Outstanding /\ Accepting' = Accepting
  BY <1>1 DEF Outstanding, Accepting
<1> HIDE DEF some, new
<1> QED BY <1>1, <1>3, <1>5, <1>6, <1>7, <1>8 DEF Box!Give

(* What fails of a batch waited.                                             *)
LEMMA FailMails ==
    ASSUME IInv, NEW b, UNCHANGED <<orb, admitted>>,
           msgs' = [m \in Message |->
                      IF m \in b /\ m \in Outstanding /\ msgs[m].batch = b
                      THEN [msgs[m] EXCEPT !.status = "failed", !.autoStart = FALSE]
                      ELSE msgs[m]]
    PROVE  Box!Fail
<1> DEFINE some == {m \in Outstanding : m \in b /\ msgs[m].batch = b}
<1>1. ASSUME NEW m \in some PROVE msgs'[m].status = "failed" /\ msgs'[m].cancelled = msgs[m].cancelled
  <2>1. m \in Message /\ m \in Outstanding /\ m \in b /\ msgs[m].batch = b /\ msgs[m] \in Row
    BY <1>1 DEF IInv, TypeOK, Outstanding
  <2> HIDE DEF some
  <2>2. msgs'[m] = Settled(msgs[m], "failed")
    BY <2>1 DEF Settled
  <2>3. /\ Settled(msgs[m], "failed").status = "failed"
        /\ Settled(msgs[m], "failed").cancelled = msgs[m].cancelled
    BY <2>1, SettledRows
  <2> QED BY <2>2, <2>3
<1>2. ASSUME NEW m \in Message, m \notin some PROVE msgs'[m] = msgs[m]
  BY <1>2
<1>3. some \subseteq Outstanding /\ \A m \in some : m \in Message /\ msgs[m].status \in {"queued", "delivering"}
  BY DEF Outstanding
<1> HIDE DEF some
<1>4. /\ {m \in Message : msgs'[m].status # "none"} = {m \in Message : msgs[m].status # "none"}
      /\ Outstanding' = Outstanding \ some
      /\ {m \in Message : msgs'[m].cancelled} = {m \in Message : msgs[m].cancelled}
      /\ {m \in Message : msgs'[m].status = "delivered"}
           = {m \in Message : msgs[m].status = "delivered"}
  BY <1>1, <1>2, <1>3 DEF Outstanding
<1>5. Accepting' = Accepting
  BY DEF Accepting
<1> QED BY <1>3, <1>4, <1>5 DEF Box!Fail

(* History retires what the agent was given.                                 *)
LEMMA PublishMails ==
    ASSUME IInv, NEW b \in open, Publish(b)
    PROVE  Box!Retire
<1>1. /\ UNCHANGED <<orb, admitted>> /\ b \in SUBSET UNION admitted /\ b \subseteq Message
      /\ \A m \in Message : msgs'[m] = IF m \in b THEN Settled(msgs[m], "delivered") ELSE msgs[m]
  BY DEF Publish, Settled, IInv, TypeOK
<1>2. ASSUME NEW m \in b
      PROVE  /\ msgs'[m].status = "delivered" /\ msgs'[m].cancelled = msgs[m].cancelled
             /\ msgs[m].status # "none"
  <2>1. msgs[m] \in Row
    BY <1>1 DEF IInv, TypeOK
  <2> QED BY <1>1, <2>1, SettledRows DEF IInv, TypeOK, AdmittedAsFrozen
<1>3. /\ {m \in Message : msgs'[m].status # "none"} = {m \in Message : msgs[m].status # "none"}
      /\ Outstanding' = Outstanding \ b
      /\ {m \in Message : msgs'[m].cancelled} = {m \in Message : msgs[m].cancelled}
      /\ {m \in Message : msgs'[m].status = "delivered"}
           = {m \in Message : msgs[m].status = "delivered"} \cup b
  BY <1>1, <1>2 DEF Outstanding
<1>4. Accepting' = Accepting
  BY <1>1 DEF Accepting
<1> QED BY <1>1, <1>3, <1>4 DEF Box!Retire

(* Every step of the inbox is a step of the mailbox, or none.                *)
LEMMA MailSteps ==
    ASSUME IInv, Next
    PROVE  Box!Next
<1>1. CASE Commands
  <2>1. ASSUME NEW wake \in BOOLEAN, NEW system \in BOOLEAN, EnqueueOrbMessage(wake, system)
        PROVE  Box!Send
    <3> DEFINE intent == wake /\ orb.state \in {"stopping", "stopped", "failed"}
               row == [NoRow EXCEPT !.status = "queued", !.system = system, !.autoStart = intent]
    <3>1. Insert(row) /\ UNCHANGED agent
      BY <2>1 DEF EnqueueOrbMessage
    <3>2. intent \in BOOLEAN
      OBVIOUS
    <3> HIDE DEF intent
    <3>3. row \in Row /\ row.status = "queued" /\ ~row.cancelled
      BY <3>2, NewRows
    <3> HIDE DEF row
    <3> QED BY <3>1, <3>3, InsertMails
  <2>2. CASE ScheduleOrbSleep \/ RequestOrbStart
    BY <2>2, QuietMail DEF ScheduleOrbSleep, RequestOrbStart, agent, Box!Next
  <2> QED BY <1>1, <2>1, <2>2, CancelMails, StopMails DEF Commands, Box!Next
<1>2. CASE Lifecycle
  <2>1. CASE ProcessDueOrbSleep
    <3> DEFINE intent == orb.state # "running"
               row == [NoRow EXCEPT !.status = "queued", !.system = TRUE, !.autoStart = intent]
    <3>1. Insert(row) /\ UNCHANGED agent
      BY <2>1 DEF ProcessDueOrbSleep
    <3>2. intent \in BOOLEAN
      OBVIOUS
    <3> HIDE DEF intent
    <3>3. row \in Row /\ row.status = "queued" /\ ~row.cancelled
      BY <3>2, NewRows
    <3> HIDE DEF row
    <3> QED BY <3>1, <3>3, InsertMails DEF Box!Next
  <2>2. CASE ~ProcessDueOrbSleep
    <3>1. UNCHANGED <<msgs, admitted>>
      BY <1>2, <2>2 DEF Lifecycle, EnterRunning, AutoRestart, FailOrb, FailRestartBudget, QuietStop,
         EnterStopped, SleepOffVm, CasStartOrbForQueuedMessage, WakeForAgentWork, agent
    <3> QED BY <3>1, QuietMail DEF Box!Next
  <2> QED BY <2>1, <2>2
<1>3. ASSUME NEW p \in Processes, Dispatch(p) \/ Abandon(p) PROVE Box!Next
  <2>1. CASE Reconcile(p) \/ ReRead(p) \/ RefuseStartup(p) \/ Abandon(p)
    <3>1. UNCHANGED <<msgs, admitted>>
      BY <2>1 DEF Reconcile, ReRead, RefuseStartup, Abandon, agent
    <3> QED BY <3>1, QuietMail DEF Box!Next
  <2>2. CASE SubmitMany(p)
    <3>1. CASE admitted' = admitted
      BY <2>2, <3>1, QuietMail DEF SubmitMany, Box!Next
    <3> QED BY <2>2, <3>1, SubmitMails DEF Box!Next
  <2>3. CASE FailOrbMessageBatch(p)
    BY <2>3, FailMails DEF FailOrbMessageBatch, agent, Box!Next
  <2> QED BY <1>3, <2>1, <2>2, <2>3, ClaimMails, NoteMails DEF Dispatch, Box!Next
<1>4. ASSUME NEW b \in open, Answer(b) PROVE Box!Next
  <2>1. CASE EndUnanswered(b)
    BY <2>1, FailMails DEF EndUnanswered, Box!Next
  <2> QED BY <1>4, <2>1, PublishMails DEF Answer, Box!Next
<1> QED BY <1>1, <1>2, <1>3, <1>4 DEF Next

(* The inbox keeps the promise of Mailbox.                                   *)
THEOREM Implements == Spec => ImplementsMailbox
<1>1. Init => Box!Init
  BY DEF Init, Box!Init, NoRow, Outstanding, Accepting
<1>2. ASSUME IInv, [Next]_vars PROVE [Box!Next]_(Box!vars)
  <2>1. CASE UNCHANGED vars
    BY <2>1, QuietMail DEF vars, Box!Next
  <2> QED BY <1>2, <2>1, MailSteps
<1>3. IInv /\ [Next]_vars => [Box!Next]_(Box!vars)
  BY <1>2
<1> QED BY <1>1, <1>3, Inductive, PTL DEF Spec, ImplementsMailbox, Box!Spec

(* What the mailbox keeps, each of its steps keeps.                          *)
LEMMA MailboxKeeps ==
    ASSUME Box!BacklogInOrder, [Box!Next]_(Box!vars)
    PROVE  Box!BacklogInOrder'
<1> DEFINE sent == {m \in Message : msgs[m].status # "none"}
           waiting == Outstanding
           given == UNION admitted
           withdrawn == {m \in Message : msgs[m].cancelled}
           retired == {m \in Message : msgs[m].status = "delivered"}
<1>1. sent \subseteq Nat
  BY MessagesAreNat
<1>2. /\ given \subseteq sent /\ waiting \subseteq sent
      /\ withdrawn \subseteq sent \ (given \cup waiting)
      /\ retired \subseteq given \ waiting
      /\ \A m \in given : \A k \in waiting : k < m => k \in given
  BY DEF Box!BacklogInOrder
<1>3. SUFFICES /\ given' \subseteq sent' /\ waiting' \subseteq sent'
               /\ withdrawn' \subseteq sent' \ (given' \cup waiting')
               /\ retired' \subseteq given' \ waiting'
               /\ \A m \in given' : \A k \in waiting' : k < m => k \in given'
  BY DEF Box!BacklogInOrder
<1>4. CASE Box!Send
  <2>1. PICK n \in Message \ sent :
            /\ \A k \in sent : k < n
            /\ sent' = sent \cup {n} /\ waiting' = waiting \cup {n}
            /\ given' = given /\ withdrawn' = withdrawn /\ retired' = retired
    BY <1>4 DEF Box!Send
  <2>2. n \in Nat /\ n \notin sent
    BY <2>1, MessagesAreNat
  <2> HIDE DEF sent, waiting, given, withdrawn, retired
  <2>3. \A m \in given : ~(n < m)
    BY <1>1, <1>2, <2>1, <2>2
  <2> QED BY <1>2, <2>1, <2>2, <2>3
<1>5. CASE Box!Withdraw
  <2>1. PICK m \in waiting \ given :
            /\ waiting' = waiting \ {m} /\ withdrawn' = withdrawn \cup {m}
            /\ sent' = sent /\ given' = given /\ retired' = retired
    BY <1>5 DEF Box!Withdraw
  <2> HIDE DEF sent, waiting, given, withdrawn, retired
  <2> QED BY <1>2, <2>1
<1>6. CASE Box!Give
  <2>1. PICK some \in SUBSET (waiting \ given) :
            /\ \A m \in some : \A k \in waiting : k < m => k \in given \cup some
            /\ given' = given \cup some
            /\ sent' = sent /\ waiting' = waiting /\ withdrawn' = withdrawn /\ retired' = retired
    BY <1>6 DEF Box!Give
  <2> HIDE DEF sent, waiting, given, withdrawn, retired
  <2> QED BY <1>2, <2>1
<1>7. CASE Box!Fail
  <2>1. PICK some \in SUBSET waiting :
            /\ waiting' = waiting \ some
            /\ sent' = sent /\ given' = given /\ withdrawn' = withdrawn /\ retired' = retired
    BY <1>7 DEF Box!Fail
  <2> HIDE DEF sent, waiting, given, withdrawn, retired
  <2> QED BY <1>2, <2>1
<1>8. CASE Box!Retire
  <2>1. PICK some \in SUBSET given :
            /\ waiting' = waiting \ some /\ retired' = retired \cup some
            /\ sent' = sent /\ given' = given /\ withdrawn' = withdrawn
    BY <1>8 DEF Box!Retire
  <2> HIDE DEF sent, waiting, given, withdrawn, retired
  <2> QED BY <1>2, <2>1
<1>9. CASE Box!Command \/ UNCHANGED Box!vars
  <2>1. /\ sent' = sent /\ waiting' = waiting /\ given' = given /\ withdrawn' = withdrawn
        /\ retired' = retired
    BY <1>9 DEF Box!Command, Box!vars
  <2> HIDE DEF sent, waiting, given, withdrawn, retired
  <2> QED BY <1>2, <2>1
<1> QED BY <1>4, <1>5, <1>6, <1>7, <1>8, <1>9 DEF Box!Next

(* What was withdrawn was never given, history shows only what was given,    *)
(* and of two messages that are due the older was given first, in every      *)
(* reachable state of the inbox.                                             *)
THEOREM BacklogKept == Spec => []Box!BacklogInOrder
<1>1. Box!Init => Box!BacklogInOrder
  BY DEF Box!Init, Box!BacklogInOrder
<1>2. Box!BacklogInOrder /\ [Box!Next]_(Box!vars) => Box!BacklogInOrder'
  BY MailboxKeeps
<1>3. Spec => Box!Init /\ [][Box!Next]_(Box!vars)
  BY Implements DEF ImplementsMailbox, Box!Spec
<1> QED BY <1>1, <1>2, <1>3, PTL

(* A message that was withdrawn, failed or was retired never waits again.    *)
THEOREM SettledStays == Spec => Box!SettledForGood
<1> DEFINE Stays == {m \in Message : msgs[m].status # "none"} \ Outstanding
                        \subseteq {m \in Message : msgs[m].status # "none"}' \ Outstanding'
<1>1. ASSUME Box!BacklogInOrder, [Box!Next]_(Box!vars)
      PROVE  Stays
  BY <1>1 DEF Box!BacklogInOrder, Box!Next, Box!Send, Box!Withdraw, Box!Give, Box!Fail, Box!Retire,
     Box!Command, Box!vars
<1>2. Box!BacklogInOrder /\ [Box!Next]_(Box!vars) => [Stays]_(Box!vars)
  BY <1>1
<1>3. Spec => [][Box!Next]_(Box!vars)
  BY Implements, PTL DEF ImplementsMailbox, Box!Spec
<1> QED BY <1>2, <1>3, BacklogKept, PTL DEF Box!SettledForGood

=============================================================================
