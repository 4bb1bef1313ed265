------------------------------ MODULE OrbInbox ------------------------------
(***************************************************************************)
(* The durable inbox of an orb whose agent runs in the control plane:       *)
(* messages, the wake intents they carry, scheduled sleep, and the passes    *)
(* that hand the backlog to the agent.                                       *)
(*                                                                           *)
(* A send only inserts a row; the reconcilers make the lifecycle follow it.  *)
(* A dispatch pass claims the whole backlog, reads the row again, submits    *)
(* everything to the agent in one native commit and notes each delivery:     *)
(* four transactions, between which other processes, commands and failures   *)
(* take their steps.  A row is retired by the history the agent publishes.   *)
(*                                                                           *)
(* Versions are only compared for equality with the row's own, so sets stand *)
(* for them: `fresh` holds the messages whose wake_state_version is the      *)
(* row's state_version, `authorised` the passes whose admission version is   *)
(* the row's.  A transaction that advances a version empties its set.        *)
(***************************************************************************)
EXTENDS Integers, FiniteSetsExt

CONSTANTS
    Processes,      \* control-plane processes that run dispatch passes
    MaxMessage      \* bound: rows inserted into the inbox

ASSUME InboxAssumption == MaxMessage \in Nat

(* A message is named by its ordinal; insertions take the orb's row lock. *)
Message == 1 .. MaxMessage

OrbState == {"starting", "running", "stopping", "stopped", "failed"}

Orb == [state: OrbState,
        stopReason: {"none", "manual", "sleep"},    \* null and idle: none
        sleep: BOOLEAN]                             \* sleep_id is set

(* A batch is named by a hash of its members: it is the set of them. *)
Row == [status: {"none", "queued", "delivering", "delivered", "failed"},
        system: BOOLEAN,
        batch: SUBSET Message,      \* delivery_batch_id, {} while it is null
        autoStart: BOOLEAN,         \* the wake intent
        noted: BOOLEAN,             \* operation_id is set
        cancelled: BOOLEAN]         \* failed by a cancellation

PC == {"idle", "claim", "reread", "submit", "note", "refused"}

VARIABLES
    orb,        \* the lifecycle columns of the orb row
    msgs,       \* the inbox
    fresh,      \* messages whose wake intent names the row's state_version
    admitted,   \* the batches natively submitted to the agent
    open,       \* those the agent has neither published nor given up
    pc, held,   \* each dispatch pass, and the batches it holds
    authorised  \* passes whose admission version is the row's

vars == <<orb, msgs, fresh, admitted, open, pc, held, authorised>>

passes == <<pc, held>>
agent  == <<admitted, open>>

-----------------------------------------------------------------------------

NoRow == [status |-> "none", system |-> FALSE, batch |-> {}, autoStart |-> FALSE,
          noted |-> FALSE, cancelled |-> FALSE]

Init ==
    /\ orb = [state |-> "starting", stopReason |-> "none", sleep |-> FALSE]
    /\ msgs = [m \in Message |-> NoRow]
    /\ fresh = {} /\ admitted = {} /\ open = {}
    /\ pc = [p \in Processes |-> "idle"]
    /\ held = [p \in Processes |-> {}]
    /\ authorised = {}

-----------------------------------------------------------------------------

Outstanding == {m \in Message : msgs[m].status \in {"queued", "delivering"}}

Intents == {m \in Outstanding : msgs[m].autoStart}

(* Every transaction that advances state_version makes older intents stale. *)
Advance(row) == orb' = row /\ fresh' = {}

(* The admission version advances when manual or sleep authority ends. *)
Reopen == authorised' = IF orb.stopReason \in {"manual", "sleep"} THEN {} ELSE authorised

Insert(row) ==
    \E m \in Message :
        /\ msgs[m].status = "none" /\ \A k \in Message : k < m => msgs[k].status # "none"
        /\ msgs' = [msgs EXCEPT ![m] = row]
        /\ fresh' = (IF orb' = orb THEN fresh ELSE {}) \cup (IF row.autoStart THEN {m} ELSE {})

-----------------------------------------------------------------------------
(* Commands *)

(* A send of a user or another orb wakes and ends sleep and manual stop; the *)
(* notice of an upload does neither.                                         *)
EnqueueOrbMessage(wake, system) ==
    LET reopens == wake /\ (orb.sleep \/ orb.stopReason # "none")
    IN  /\ orb' = IF reopens THEN [orb EXCEPT !.sleep = FALSE, !.stopReason = "none"]
                  ELSE orb
        /\ IF reopens THEN Reopen ELSE UNCHANGED authorised
        /\ Insert([NoRow EXCEPT !.status = "queued", !.system = system,
                     !.autoStart = wake /\ orb.state \in {"stopping", "stopped", "failed"}])
        /\ UNCHANGED <<agent, passes>>

(* Mutant: a cancelled message's batch mates stay frozen with it. *)
CancelKeepingBatch(m) ==
    /\ m \in Outstanding /\ ~msgs[m].system /\ ~msgs[m].noted
    /\ \A b \in admitted : m \notin b
    /\ msgs' = [msgs EXCEPT ![m].status = "failed", ![m].cancelled = TRUE,
                            ![m].autoStart = FALSE]
    /\ UNCHANGED <<orb, fresh, authorised, agent, passes>>

Cancelled(m) ==
    [k \in Message |->
        IF k = m THEN [msgs[k] EXCEPT !.status = "failed", !.cancelled = TRUE,
                                      !.autoStart = FALSE]
        ELSE IF k \in Outstanding /\ msgs[m].batch # {} /\ msgs[k].batch = msgs[m].batch
                /\ ~msgs[k].noted
             THEN [msgs[k] EXCEPT !.status = "queued", !.batch = {}]
             ELSE msgs[k]]

(* Mutant: only a noted delivery makes a message active. *)
CancelUnlessNoted(m) ==
    /\ m \in Outstanding /\ ~msgs[m].system /\ ~msgs[m].noted
    /\ msgs' = Cancelled(m)
    /\ UNCHANGED <<orb, fresh, authorised, agent, passes>>

(* A message can be withdrawn until the agent has admitted it; the rest of   *)
(* its batch returns to the queue.                                           *)
CancelPendingOrbMessage(m) ==
    /\ m \in Outstanding /\ ~msgs[m].system /\ ~msgs[m].noted
    /\ \A b \in admitted : m \notin b
    /\ msgs' = Cancelled(m)
    /\ UNCHANGED <<orb, fresh, authorised, agent, passes>>

ScheduleOrbSleep ==
    /\ ~orb.sleep /\ orb.stopReason = "none"
    /\ Advance([orb EXCEPT !.sleep = TRUE])
    /\ UNCHANGED <<msgs, authorised, agent, passes>>

(* Start boots a stopped or failed orb, and only ends the sleep of another.  *)
RequestOrbStart ==
    /\ \/ /\ orb.state \in {"stopped", "failed"}
          /\ Advance([state |-> "starting", stopReason |-> "none", sleep |-> FALSE])
          /\ Reopen \/ (orb.state = "failed" /\ authorised' = {})
       \/ /\ orb.state \in {"starting", "running"} /\ orb.sleep
          /\ Advance([orb EXCEPT !.sleep = FALSE])
          /\ UNCHANGED authorised
    /\ UNCHANGED <<msgs, agent, passes>>

Stopped == [state |-> IF orb.state \in {"stopping", "stopped"} THEN orb.state ELSE "stopping",
            stopReason |-> "manual", sleep |-> FALSE]

NoIntents == [m \in Message |->
                 IF m \in Outstanding THEN [msgs[m] EXCEPT !.autoStart = FALSE] ELSE msgs[m]]

(* Mutant: Stop leaves the intents of the inbox standing. *)
StopKeepingIntents ==
    /\ Advance(Stopped) /\ authorised' = {}
    /\ UNCHANGED <<msgs, agent, passes>>

(* Mutant: Stop does not revoke admission. *)
StopKeepingAdmission ==
    /\ Advance(Stopped) /\ msgs' = NoIntents
    /\ UNCHANGED <<authorised, agent, passes>>

(* Stop revokes admission and every timer and wake in one transaction. *)
RequestOrbStop ==
    /\ Advance(Stopped) /\ msgs' = NoIntents /\ authorised' = {}
    /\ UNCHANGED <<agent, passes>>

-----------------------------------------------------------------------------
(* Lifecycle reconciliation *)

(* Compute comes up, or has to be started again. *)
EnterRunning ==
    /\ orb.state = "starting" /\ Advance([orb EXCEPT !.state = "running"])
    /\ UNCHANGED <<msgs, authorised, agent, passes>>

AutoRestart ==
    /\ orb.state = "running" /\ Advance([orb EXCEPT !.state = "starting"])
    /\ UNCHANGED <<msgs, authorised, agent, passes>>

FailOrb ==
    /\ orb.state \in {"starting", "running", "stopping"}
    /\ Advance([orb EXCEPT !.state = "failed"])
    /\ UNCHANGED <<msgs, authorised, agent, passes>>

(* A spent restart budget also suspends the agent, as Stop does; it may be    *)
(* spent on compute or, whatever the orb's state, on the agent's recovery.   *)
FailRestartBudget ==
    /\ Advance([orb EXCEPT !.state = "failed", !.stopReason = "manual"])
    /\ authorised' = {}
    /\ UNCHANGED <<msgs, agent, passes>>

(* The orb is idle, or asked to sleep and its deadline has not passed; the   *)
(* look at the agent's work that precedes the transaction is advisory.       *)
QuietStop ==
    /\ orb.state = "running"
    /\ \E why \in {"none"} \cup (IF orb.sleep THEN {"sleep"} ELSE {}) :
          Advance([orb EXCEPT !.state = "stopping", !.stopReason = why])
    /\ UNCHANGED <<msgs, authorised, agent, passes>>

(* A stop for sleep waits for the agent to finish. *)
EnterStopped ==
    /\ orb.state = "stopping" /\ (orb.stopReason = "sleep" => open = {})
    /\ Advance([orb EXCEPT !.state = "stopped"])
    /\ UNCHANGED <<msgs, authorised, agent, passes>>

(* A stopped or failed orb with nothing to deliver sleeps where it is; only  *)
(* an upload notice can still slip in behind the look at the inbox.          *)
SleepOffVm ==
    /\ orb.state \in {"stopped", "failed"} /\ orb.sleep /\ orb.stopReason # "sleep"
    /\ Outstanding = {}
    /\ Advance([orb EXCEPT !.state = "stopped", !.stopReason = "sleep"])
    /\ UNCHANGED <<msgs, authorised, agent, passes>>

(* Mutant: a failed orb's sleep is never due. *)
DueUnlessFailed ==
    /\ orb.sleep /\ orb.state \in {"running", "stopped"}
    /\ orb' = [orb EXCEPT !.sleep = FALSE]
    /\ Insert([NoRow EXCEPT !.status = "queued", !.system = TRUE,
                            !.autoStart = orb.state # "running"])
    /\ UNCHANGED <<authorised, agent, passes>>

(* The deadline passed: the sleep ends and leaves a notice, which wakes the  *)
(* orb unless it still runs.                                                 *)
ProcessDueOrbSleep ==
    /\ orb.sleep /\ orb.state \in {"running", "stopped", "failed"}
    /\ orb' = [orb EXCEPT !.sleep = FALSE]
    /\ Insert([NoRow EXCEPT !.status = "queued", !.system = TRUE,
                            !.autoStart = orb.state # "running"])
    /\ UNCHANGED <<authorised, agent, passes>>

(* Mutant: only an intent of the current version wakes. *)
WakingFresh == Intents \cap fresh

(* A stopped orb wakes for any intent, a failed one for an intent admitted   *)
(* against this failure.                                                     *)
Waking == IF orb.state = "stopped" THEN Intents ELSE Intents \cap fresh

Woken ==
    /\ orb.state \in {"stopped", "failed"} /\ ~orb.sleep /\ Waking # {}
    /\ Advance([orb EXCEPT !.state = "starting", !.stopReason = "none"])

(* The wake keeps the intent: it stands until the message is delivered.      *)
CasStartOrbForQueuedMessage ==
    /\ Woken
    /\ Reopen \/ (orb.state = "failed" /\ authorised' = {})
    /\ UNCHANGED <<msgs, agent, passes>>

(* The agent of a stopped orb has work to do. *)
WakeForAgentWork ==
    /\ orb.state = "stopped" /\ orb.stopReason = "none" /\ open # {}
    /\ Advance([orb EXCEPT !.state = "starting"])
    /\ UNCHANGED <<msgs, authorised, agent, passes>>

-----------------------------------------------------------------------------
(* Dispatch passes *)

Accepting == ~orb.sleep /\ orb.stopReason = "none"

Goto(p, label) == pc' = [pc EXCEPT ![p] = label]

EndPass(p) == Goto(p, "idle") /\ held' = [held EXCEPT ![p] = {}]

(* A retryable error, a timeout, or the death of the process. *)
Abandon(p) ==
    /\ pc[p] # "idle" /\ EndPass(p)
    /\ UNCHANGED <<orb, msgs, fresh, agent, authorised>>

(* A pass wakes a failed orb first, then goes on to deliver. *)
Reconcile(p) ==
    /\ pc[p] = "idle" /\ orb.stopReason # "manual"
    /\ IF orb.state = "failed" /\ ~orb.sleep /\ Waking # {}
       THEN /\ Woken
            /\ authorised' = {p} \/ (orb.stopReason = "none" /\ authorised' = authorised \cup {p})
       ELSE /\ Accepting
            /\ authorised' = authorised \cup {p}
            /\ UNCHANGED <<orb, fresh>>
    /\ Goto(p, "claim")
    /\ UNCHANGED <<msgs, held, agent>>

(* The messages that are frozen together with m: its run of unbatched human  *)
(* messages in the backlog, or itself if it is a system notice.              *)
Unbatched(m) == m \in Outstanding /\ msgs[m].batch = {}
Plain(m) == Unbatched(m) /\ ~msgs[m].system
RunOf(m) ==
    IF ~Plain(m) THEN {m}
    ELSE {k \in Outstanding :
            \A j \in Outstanding : (j \in m .. k \/ j \in k .. m) => Plain(j)}

(* Mutant: system notices are delivered without being frozen. *)
FrozenHumans == [m \in Message |->
                    IF Plain(m)
                    THEN [msgs[m] EXCEPT !.status = "delivering", !.batch = RunOf(m)]
                    ELSE msgs[m]]

Frozen == [m \in Message |->
              IF Unbatched(m) THEN [msgs[m] EXCEPT !.status = "delivering", !.batch = RunOf(m)]
              ELSE msgs[m]]

(* Mutant: batches frozen by an earlier pass are not delivered again. *)
ClaimNew(p) ==
    /\ pc[p] = "claim"
    /\ IF orb.sleep \/ orb.stopReason = "sleep" \/ ~\E m \in Outstanding : Unbatched(m)
       THEN EndPass(p) /\ UNCHANGED msgs
       ELSE /\ msgs' = Frozen
            /\ held' = [held EXCEPT ![p] = {Frozen[m].batch : m \in {k \in Outstanding : Unbatched(k)}}]
            /\ Goto(p, "reread")
    /\ UNCHANGED <<orb, fresh, agent, authorised>>

(* The whole backlog is frozen into batches, those of earlier passes kept.   *)
ClaimOrbMessageBacklog(p) ==
    /\ pc[p] = "claim"
    /\ IF orb.sleep \/ orb.stopReason = "sleep" \/ Outstanding = {}
       THEN EndPass(p) /\ UNCHANGED msgs
       ELSE /\ msgs' = Frozen
            /\ held' = [held EXCEPT ![p] = {Frozen[m].batch : m \in Outstanding}]
            /\ Goto(p, "reread")
    /\ UNCHANGED <<orb, fresh, agent, authorised>>

(* The row is read again: its admission must be the one the pass began with, *)
(* and neither sleep nor Stop may have intervened.                           *)
ReRead(p) ==
    /\ pc[p] = "reread"
    /\ IF p \in authorised /\ Accepting
       THEN Goto(p, "submit") /\ UNCHANGED held
       ELSE EndPass(p)
    /\ UNCHANGED <<orb, msgs, fresh, agent, authorised>>

(* Mutant: the native commit only excludes what was noted. *)
NotYetNoted(b) == \A m \in b : ~msgs[m].noted

(* Every row of the batch is outstanding, still frozen in it and not noted.  *)
Admissible(b) ==
    \A m \in b : m \in Outstanding /\ msgs[m].batch = b /\ ~msgs[m].noted

(* One native commit admits every batch the agent does not have yet, or none *)
(* of them.                                                                  *)
SubmitMany(p) ==
    /\ pc[p] = "submit"
    /\ p \in authorised
    /\ LET new == held[p] \ admitted
       IN  /\ new # {} => ~orb.sleep /\ orb.stopReason # "sleep"
           /\ \A b \in new : Admissible(b)
           /\ admitted' = admitted \cup new
           /\ open' = open \cup new
    /\ Goto(p, "note")
    /\ UNCHANGED <<orb, msgs, fresh, held, authorised>>

(* The agent definitively refuses to start: each batch fails. *)
RefuseStartup(p) ==
    /\ pc[p] = "submit" /\ Goto(p, "refused")
    /\ UNCHANGED <<orb, msgs, fresh, agent, held, authorised>>

(* The batch whose turn it is in the pass. *)
Head(p) == CHOOSE b \in held[p] : \A c \in held[p] : Min(b) <= Min(c)

NextBatch(p) ==
    /\ held' = [held EXCEPT ![p] = @ \ {Head(p)}]
    /\ Goto(p, IF held'[p] = {} THEN "idle" ELSE pc[p])

FailOrbMessageBatch(p) ==
    /\ pc[p] = "refused"
    /\ msgs' = [m \in Message |->
                  IF m \in Head(p) /\ m \in Outstanding /\ msgs[m].batch = Head(p)
                  THEN [msgs[m] EXCEPT !.status = "failed", !.autoStart = FALSE]
                  ELSE msgs[m]]
    /\ NextBatch(p)
    /\ UNCHANGED <<orb, fresh, agent, authorised>>

(* A delivery is noted after the fact; history may have retired the row.     *)
Noted(m) ==
    [msgs[m] EXCEPT !.status = IF @ = "delivered" THEN @ ELSE "delivering",
                    !.autoStart = FALSE, !.noted = TRUE]

NoteOrbMessageDelivery(p) ==
    /\ pc[p] = "note"
    /\ msgs' = [m \in Message |->
                  IF m \in Head(p) /\ msgs[m].status \in {"queued", "delivering", "delivered"}
                  THEN Noted(m) ELSE msgs[m]]
    /\ NextBatch(p)
    /\ UNCHANGED <<orb, fresh, agent, authorised>>

-----------------------------------------------------------------------------
(* The agent *)

(* History that names the messages of a batch retires them. *)
Publish(b) ==
    /\ b \in open /\ open' = open \ {b}
    /\ msgs' = [m \in Message |->
                  IF m \in b THEN [msgs[m] EXCEPT !.status = "delivered", !.autoStart = FALSE]
                  ELSE msgs[m]]
    /\ UNCHANGED <<orb, fresh, admitted, authorised, passes>>

(* A submission ends without an answer: its messages fail. *)
EndUnanswered(b) ==
    /\ b \in open /\ open' = open \ {b}
    /\ msgs' = [m \in Message |->
                  IF m \in b /\ m \in Outstanding /\ msgs[m].batch = b
                  THEN [msgs[m] EXCEPT !.status = "failed", !.autoStart = FALSE]
                  ELSE msgs[m]]
    /\ UNCHANGED <<orb, fresh, admitted, authorised, passes>>

-----------------------------------------------------------------------------

Commands ==
    \/ \E system \in BOOLEAN : EnqueueOrbMessage(TRUE, system)
    \/ EnqueueOrbMessage(FALSE, FALSE)
    \/ \E m \in Message : CancelPendingOrbMessage(m)
    \/ ScheduleOrbSleep \/ RequestOrbStart \/ RequestOrbStop

Lifecycle ==
    \/ EnterRunning \/ AutoRestart \/ FailOrb \/ FailRestartBudget
    \/ QuietStop \/ EnterStopped \/ SleepOffVm
    \/ ProcessDueOrbSleep \/ CasStartOrbForQueuedMessage \/ WakeForAgentWork

Dispatch(p) ==
    \/ Reconcile(p) \/ ClaimOrbMessageBacklog(p) \/ ReRead(p) \/ SubmitMany(p)
    \/ RefuseStartup(p) \/ FailOrbMessageBatch(p) \/ NoteOrbMessageDelivery(p)

Answer(b) == Publish(b) \/ EndUnanswered(b)

Next ==
    \/ Commands \/ Lifecycle
    \/ \E p \in Processes : Dispatch(p) \/ Abandon(p)
    \/ \E b \in open : Answer(b)

Spec == Init /\ [][Next]_vars

(* The dispatcher retries its passes, and none of their steps fails for ever; *)
(* the agent answers what it was given.                                      *)
Delivering(p) ==
    /\ WF_vars(Dispatch(p) \/ Abandon(p))
    /\ SF_vars(ClaimOrbMessageBacklog(p)) /\ SF_vars(ReRead(p)) /\ SF_vars(SubmitMany(p))

Answering == WF_vars(\E b \in open : Answer(b))

(* Compute comes up or fails, stops and wakes, and deadlines pass. *)
Cycling ==
    /\ WF_vars(EnterRunning \/ FailOrb \/ EnterStopped \/ CasStartOrbForQueuedMessage)
    /\ SF_vars(ProcessDueOrbSleep)

FairSpec == Spec /\ Answering /\ Cycling

-----------------------------------------------------------------------------

(* The row, the inbox and the passes have their types. *)
TypeOK ==
    /\ orb \in Orb
    /\ msgs \in [Message -> Row]
    /\ fresh \subseteq Message
    /\ admitted \subseteq ((SUBSET Message) \ {{}}) /\ open \subseteq admitted
    /\ pc \in [Processes -> PC]
    /\ held \in [Processes -> SUBSET ((SUBSET Message) \ {{}})]
    /\ authorised \subseteq Processes

(* A cancellation that was confirmed holds: no pass that claimed the message *)
(* before hands it to the agent, and none that has is told it was cancelled  *)
(* (store.ts, cancelPendingOrbMessage against the native commit).            *)
CancelledIsNeverAdmitted ==
    \A m \in Message : msgs[m].cancelled => \A b \in admitted : m \notin b

(* The agent is given each message at most once, however batches are frozen, *)
(* dissolved by cancellations and delivered again by several processes       *)
(* (docs/runtime-protocol.md, delivery deduplication).                       *)
AdmittedOnce ==
    \A b, c \in admitted : b # c => b \cap c = {}

(* What is admitted has nothing outstanding before it that is not: first in, *)
(* first out across passes and processes (store.ts, claimOrbMessageBacklog). *)
AdmittedInOrder ==
    [][\A b \in admitted' \ admitted : \A k \in Outstanding :
          k < Min(b) => k \in UNION admitted']_vars

(* Nothing is admitted to the agent of an orb that is manually stopped or    *)
(* goes to sleep, whatever a pass saw before (lifecycle.ts,                  *)
(* dispatchQueuedMessages; the ownership and inbox guards of the commit).    *)
NothingAdmittedWhileStopped == [][admitted' # admitted => Accepting]_vars

(* After an accepted Stop no timer and no intent is left that could start    *)
(* the orb again, until a fresh send (docs/lifecycle.md, "Accepted Stop").   *)
StopCancelsWakes ==
    (orb.stopReason = "manual" /\ orb.state \in {"stopping", "stopped"}) =>
        ~orb.sleep /\ Intents = {}

(* A message that history has retired stays retired, also when the note of   *)
(* its delivery or the failure of its batch arrives later (store.ts,         *)
(* noteOrbMessageDelivery).                                                  *)
DeliveredIsFinal ==
    [][\A m \in Message : msgs[m].status = "delivered" => msgs'[m].status = "delivered"]_vars

(* While the orb accepts input, nobody keeps starting it anew and the passes  *)
(* go on, every message is eventually delivered or visibly failed, although   *)
(* passes conflict and batches dissolve (lifecycle.ts, dispatchQueuedMessages). *)
InboxDrains ==
    (/\ \A p \in Processes : Delivering(p)
     /\ <>[]Accepting /\ <>[][~RequestOrbStart]_vars) =>
        \A m \in Message : []<>(m \notin Outstanding)

(* A stopped orb with a wake intent comes up, whenever the intent was        *)
(* recorded, unless sleep or Stop supersedes it (docs/lifecycle.md, "A       *)
(* stopped orb wakes for any outstanding intent").                           *)
IntentWakes ==
    []<>(orb.state = "stopped" => orb.sleep \/ Intents = {})

(* A scheduled sleep ends, in whatever state its deadline finds the orb, as  *)
(* long as the inbox has room for its notice (store.ts, processDueOrbSleep). *)
SleepEnds == []<>(orb.sleep => msgs[MaxMessage].status # "none")

(* The inbox, as the promise of Mailbox: whatever passes, processes and       *)
(* commands do to rows and batches (docs/lifecycle.md, store.ts).            *)
Box == INSTANCE Mailbox WITH
    sent <- {m \in Message : msgs[m].status # "none"},
    waiting <- Outstanding,
    given <- UNION admitted,
    withdrawn <- {m \in Message : msgs[m].cancelled},
    retired <- {m \in Message : msgs[m].status = "delivered"},
    accepting <- Accepting

ImplementsMailbox == Box!Spec

-----------------------------------------------------------------------------
(* What the documentation says and the code does not keep *)

(* A send to a failed orb wakes it before its delivery can retire the intent *)
(* that names the failure (docs/lifecycle.md; lifecycle.ts, "Reserve fresh   *)
(* failed-state wake authority before central publication").                 *)
WakeBeforeRetirement ==
    orb.state = "failed" =>
        \A m \in fresh : msgs[m].status # "delivered" /\ ~msgs[m].noted

=============================================================================
