---------------------------- MODULE AgentAuthority ----------------------------
(***************************************************************************)
(* The durable agent of one orb.  Every control-plane process may run it:  *)
(* its OrbAgentManager keeps one line of operations per orb, an agent it   *)
(* opens acquires the row of durable_pg_owners (a fence, an admission      *)
(* version, a lease), and every commit to the private tables, which        *)
(* carries the public history with it, is guarded by that row under the    *)
(* lock of the orb.  Stops, starts and deletions advance the orb's         *)
(* admission version; an archive seals the row.                            *)
(***************************************************************************)
EXTENDS Naturals, Sequences, FiniteSets

CONSTANTS
    Plane,          \* processes: a restart is another process, a new owner id
    NoPlane,
    MaxEvents,      \* bound on stops, failed calls, late holders, unloads and
                    \* consultations together
    MaxQueue        \* operations a manager holds for the orb, the running one included

ASSUME AgentAssumption ==
    /\ NoPlane \notin Plane
    /\ {MaxEvents, MaxQueue} \subseteq Nat

VARIABLES
    orb,       \* the row of orbs: state, admission, sealed
    row,       \* the row of durable_pg_owners; fence 0 is no row
    work,      \* the private tables hold an unfinished turn
    last,      \* the last commit: its fence, admission and owner, and whether the orb
               \* was closed when it was made
    manager,   \* per process: alive, closing, disposed, known and its queue
    agent,     \* per process: its agent with the lease it runs under
    pass,      \* per process: its reconcile pass over the orb
    events     \* events so far, of those that MaxEvents bounds

vars == <<orb, row, work, last, manager, agent, pass, events>>
stored == <<orb, row, work, last>>

--------------------------------------------------------------------------------
(* State. *)

OrbState == {"live", "stopped", "archiving", "archived", "deleting", "gone"}
\* A stop and its start for each event, the archive and the deletion.
Admission == 0 .. 2 * MaxEvents + 2

\* An operation of the manager; a close is a suspend without a limit.
Op == [kind : {"ensure", "read", "suspend", "close", "unload"}, version : Admission,
       step : {"queued", "retire", "open", "abandon"}, superseded : BOOLEAN]
Stage == {"none", "opening", "owned", "closing", "draining", "closed", "failed"}

NoAgent == [stage |-> "none", fence |-> 0, admission |-> 0, accepting |-> FALSE,
            retiring |-> FALSE, draining |-> FALSE, broken |-> FALSE, paused |-> FALSE]
NoManager == [alive |-> FALSE, closing |-> TRUE, disposed |-> FALSE, known |-> 0,
              queue |-> <<>>]
NoPass == [step |-> "idle", state |-> "live", admission |-> 0]

TypeOK ==
    /\ orb \in [state : OrbState, admission : Admission, sealed : BOOLEAN]
    /\ row \in [owner : Plane \cup {NoPlane}, fence : Nat, admission : Admission,
                lease : {"held", "over"}, archived : BOOLEAN]
    /\ work \in BOOLEAN
    /\ last \in [fence : Nat, admission : Admission, owner : Plane \cup {NoPlane},
                 closed : BOOLEAN]
    /\ manager \in [Plane -> [alive : BOOLEAN, closing : BOOLEAN, disposed : BOOLEAN,
                              known : Admission, queue : Seq(Op)]]
    /\ agent \in [Plane -> [stage : Stage, fence : Nat, admission : Admission,
                            accepting : BOOLEAN, retiring : BOOLEAN,
                            draining : BOOLEAN, broken : BOOLEAN, paused : BOOLEAN]]
    /\ pass \in [Plane -> [step : {"idle", "seen", "prepared", "suspending",
                                   "suspended", "disposing", "disposed"},
                           state : OrbState, admission : Admission]]
    /\ events \in 0 .. MaxEvents

Init ==
    /\ orb = [state |-> "live", admission |-> 0, sealed |-> FALSE]
    /\ row = [owner |-> NoPlane, fence |-> 0, admission |-> 0, lease |-> "over", archived |-> FALSE]
    /\ work = FALSE
    /\ last = [fence |-> 0, admission |-> 0, owner |-> NoPlane, closed |-> FALSE]
    /\ manager = [p \in Plane |-> [NoManager EXCEPT !.alive = TRUE, !.closing = FALSE]]
    /\ agent = [p \in Plane |-> NoAgent]
    /\ pass = [p \in Plane |-> NoPass]
    /\ events = 0

Alive(p) == manager[p].alive

\* An event the bound still admits.
Event == /\ events < MaxEvents
         /\ events' = events + 1

--------------------------------------------------------------------------------
(* The authority: transactions over the owner row, under the orb's lock. *)

\* Mutant: the commit compares the admission only.
GuardByAdmission(p, drain) ==
    /\ orb.state # "gone"
    /\ drain \/ orb.admission = agent[p].admission
    /\ ~row.archived

\* guard: the agent still is what the row says; a drain outlives its admission.
Guard(p, drain) ==
    /\ orb.state # "gone"
    /\ drain \/ orb.admission = agent[p].admission
    /\ row.owner = p
    /\ row.fence = agent[p].fence
    /\ row.admission = agent[p].admission
    /\ row.lease = "held"
    /\ ~row.archived

\* Mutant: a lease that passed still keeps another owner out.
AcquireOwnOnly(p, version) ==
    /\ orb.state \notin {"gone", "archiving", "archived", "deleting"}
    /\ orb.admission = version
    /\ ~row.archived
    /\ row.fence > 0 => row.owner = p

\* acquire refuses a changed admission, a closed orb and another owner's lease.
MayAcquire(p, version) ==
    /\ orb.state \notin {"gone", "archiving", "archived", "deleting"}
    /\ orb.admission = version
    /\ ~row.archived
    /\ row.lease = "held" => row.owner = p

\* Mutant: the release deletes the row.
ReleasedRow(p) ==
    IF /\ orb.state # "gone"
       /\ row.owner = p
       /\ row.fence = agent[p].fence
       /\ row.admission = agent[p].admission
       /\ ~row.archived
    THEN [row EXCEPT !.fence = 0, !.lease = "over"]
    ELSE row

\* release ends the term even when the lease has passed, and only once.
Released(p) ==
    IF /\ orb.state # "gone"
       /\ row.owner = p
       /\ row.fence = agent[p].fence
       /\ row.admission = agent[p].admission
       /\ ~row.archived
    THEN [row EXCEPT !.fence = @ + 1, !.lease = "over"]
    ELSE row

\* Mutant: the seal leaves the owner of the row alone.
SealedTables == row

\* removePrivateAgentState, in the transaction of the seal.
Sealed ==
    IF row.fence > 0 /\ ~row.archived
    THEN [row EXCEPT !.archived = TRUE, !.fence = @ + 1, !.lease = "over"]
    ELSE row

\* Some process still renews the lease of the row.
Renewing ==
    \E p \in Plane : /\ agent[p].stage \in {"opening", "owned", "closing", "draining"}
                     /\ row.owner = p /\ row.fence = agent[p].fence

\* The lease passes: nobody renews it, or its holder is late.
LeaseLapses ==
    /\ row.lease = "held" /\ orb.state # "gone"
    /\ row' = [row EXCEPT !.lease = "over"]
    /\ IF Renewing THEN Event ELSE UNCHANGED events
    /\ UNCHANGED <<orb, work, last, manager, agent, pass>>

--------------------------------------------------------------------------------
(* The manager: one line of operations for the orb. *)

\* The manager's map holds the agent: an agent still opening is not in it.
Published(p) == agent[p].stage \notin {"none", "opening"}

Revoked(a) == [a EXCEPT !.accepting = FALSE]

\* close() revokes and starts the drain; a second call joins the first.
Closing(a) ==
    IF a.stage = "owned" THEN [Revoked(a) EXCEPT !.stage = "closing"] ELSE a

Retired(a) == [Closing(a) EXCEPT !.retiring = TRUE]

Room(p) == Len(manager[p].queue) < MaxQueue

Operation(kind, version) ==
    [kind |-> kind, version |-> version, step |-> "queued", superseded |-> FALSE]

\* The operations that open the agent: to work, or only to be read.
Opens == {"ensure", "read"}

Suspends == {"suspend", "close"}

\* A suspend takes a new ticket: every operation before it is superseded.
WithSuspend(p, kind, version) ==
    LET q == manager[p].queue
    IN Append([i \in 1 .. Len(q) |-> [q[i] EXCEPT !.superseded = @ \/ q[i].kind \in Opens]],
              Operation(kind, version))

\* Mutant: the agent learns of its end when the operation runs.
RevokeLater(p) == UNCHANGED agent

\* The synchronous half of revoking: the agent in the map accepts nothing more.
RevokeAgent(p) ==
    agent' = IF Published(p) THEN [agent EXCEPT ![p] = Revoked(@)] ELSE agent

\* ensure: refused at once, or admitted behind the operations before it.
RequestEnsure(p, kind, version) ==
    IF manager[p].closing \/ manager[p].disposed \/ version < manager[p].known
    THEN UNCHANGED <<manager, agent>>
    ELSE /\ Room(p)
         /\ manager' = [manager EXCEPT ![p].known = version,
                                       ![p].queue = Append(@, Operation(kind, version))]
         /\ IF agent[p].admission < version THEN RevokeAgent(p) ELSE UNCHANGED agent

\* suspend: the agent stops accepting at once and every ensure before it is superseded.
RequestSuspend(p, version) ==
    /\ Room(p)
    /\ manager' = [manager EXCEPT ![p].queue = WithSuspend(p, "suspend", version), ![p].known = version]
    /\ RevokeAgent(p)

\* A newer admission is known: the suspend has nothing to do.
SuspendIsLate(p, version) == manager[p].known > version

Pending(p) == Alive(p) /\ manager[p].queue # <<>>
Running(p) == Head(manager[p].queue)

\* The ensure still is the one the manager wants.
Admitted(p) ==
    /\ ~manager[p].closing /\ ~manager[p].disposed
    /\ ~Running(p).superseded
    /\ manager[p].known = Running(p).version

StepTo(p, step) ==
    manager' = [manager EXCEPT ![p].queue[1].step = step]

\* The running operation ends; a pass that awaits its suspend learns how.
EndOp(p, succeeded) ==
    LET q == manager[p].queue
        awaited == /\ Running(p).kind \in Suspends
                   /\ \A i \in 2 .. Len(q) : q[i].kind \notin Suspends
        next == CASE pass[p].step = "suspending" /\ succeeded ->
                        [pass[p] EXCEPT !.step = "suspended"]
                  [] pass[p].step = "disposing" /\ succeeded ->
                        [pass[p] EXCEPT !.step = "disposed"]
                  [] OTHER -> NoPass
    IN /\ manager' = [manager EXCEPT ![p].queue = Tail(@)]
       /\ pass' = IF awaited /\ pass[p].step \in {"suspending", "disposing"}
                  THEN [pass EXCEPT ![p] = next]
                  ELSE pass

\* The operation reaches the head of its line.
StartEnsure(p) ==
    /\ Pending(p) /\ Running(p).kind \in Opens /\ Running(p).step = "queued"
    /\ \/ /\ \/ ~Admitted(p)
             \/ /\ agent[p].stage = "owned" /\ agent[p].accepting /\ ~agent[p].retiring
                /\ agent[p].admission = Running(p).version
          /\ EndOp(p, Admitted(p))
          /\ UNCHANGED agent
       \/ /\ Admitted(p) /\ Published(p)
          /\ ~(agent[p].accepting /\ agent[p].admission = Running(p).version)
          /\ agent' = [agent EXCEPT ![p] = Retired(@)]
          /\ StepTo(p, "retire")
          /\ UNCHANGED pass
       \/ /\ Admitted(p) /\ agent[p].stage = "none"
          /\ StepTo(p, "open")
          /\ UNCHANGED <<agent, pass>>
    /\ UNCHANGED <<stored, events>>

\* The suspend retires the agent unless a newer admission opened it.
StartSuspend(p) ==
    /\ Pending(p) /\ Running(p).kind \in Suspends /\ Running(p).step = "queued"
    /\ IF \/ agent[p].stage = "none"
          \/ Running(p).kind = "suspend" /\ agent[p].admission > Running(p).version
       THEN EndOp(p, TRUE) /\ UNCHANGED agent
       ELSE /\ agent' = [agent EXCEPT ![p] = Retired(@)]
            /\ StepTo(p, "abandon")
            /\ UNCHANGED pass
    /\ UNCHANGED <<stored, events>>

\* prepareIdleStop: a paused agent has nothing under way; another must be idle,
\* and one that closed refuses.
Prepared(p) == agent[p].paused \/ (agent[p].accepting /\ ~work)

\* The unload retires an idle agent without closing its admission, if the orb still
\* is what the pass read.
StartUnload(p) ==
    /\ Pending(p) /\ Running(p).kind = "unload" /\ Running(p).step = "queued"
    /\ IF /\ Published(p)
          /\ agent[p].retiring \/ (/\ Prepared(p) /\ orb.state = "live"
                                  /\ orb.admission = Running(p).version)
       THEN /\ agent' = [agent EXCEPT ![p] = Retired(@)]
            /\ StepTo(p, "abandon")
            /\ UNCHANGED pass
       ELSE EndOp(p, FALSE) /\ UNCHANGED agent
    /\ UNCHANGED <<stored, events>>

\* The retirement is over.  One that failed stays in the map: whoever comes
\* next joins the same failure, and the orb cannot be opened here again.
RetirementEnds(p) ==
    /\ Pending(p) /\ Running(p).step \in {"retire", "abandon"}
    /\ \/ /\ agent[p].stage = "closed"
          /\ agent' = [agent EXCEPT ![p] = NoAgent]
          /\ IF Running(p).step = "retire"
             THEN StepTo(p, "open") /\ UNCHANGED pass
             ELSE EndOp(p, TRUE)
       \/ /\ agent[p].stage = "failed"
          /\ EndOp(p, FALSE)
          /\ UNCHANGED agent
    /\ UNCHANGED <<stored, events>>

\* Sealed or deleted: nothing may be written any more.
Closed == orb.sealed \/ orb.state = "gone"

Commit(p) ==
    last' = [fence |-> agent[p].fence, admission |-> agent[p].admission, owner |-> p,
             closed |-> Closed]

\* Mutant: a grant over a lease that passed keeps its number.
GrantedAgain(p, version) ==
    [owner |-> p, fence |-> IF row.fence = 0 THEN 1 ELSE row.fence, admission |-> version,
     lease |-> "held", archived |-> FALSE]

\* The row of a new owner: the next fence, the admission it asked for.
Granted(p, version) ==
    [owner |-> p, fence |-> row.fence + 1, admission |-> version, lease |-> "held",
     archived |-> FALSE]

Opening(p) == Pending(p) /\ Running(p).kind \in Opens /\ Running(p).step = "open"

\* acquire, its refusal, its cancellation, or a call whose answer never came.
Acquire(p) ==
    /\ Opening(p) /\ agent[p].stage = "none"
    /\ LET version == Running(p).version IN
       \/ /\ MayAcquire(p, version)
          /\ row' = Granted(p, version)
          /\ agent' = [agent EXCEPT ![p] = [NoAgent EXCEPT !.stage = "opening",
                           !.fence = row'.fence, !.admission = version,
                           !.paused = Running(p).kind = "read"]]
          /\ UNCHANGED <<manager, pass, events>>
       \/ /\ MayAcquire(p, version) => ~Admitted(p)
          /\ EndOp(p, FALSE)
          /\ UNCHANGED <<row, agent, events>>
       \/ /\ MayAcquire(p, version)
          /\ Event
          /\ row' \in {row, Granted(p, version)}
          /\ EndOp(p, FALSE)
          /\ UNCHANGED agent
    /\ UNCHANGED <<orb, work, last>>

\* The opened agent has written what it must and enters the map; one that is no longer
\* wanted is retired at once.
Publish(p) ==
    /\ Opening(p) /\ agent[p].stage = "opening" /\ Guard(p, FALSE)
    /\ LET owned == [agent[p] EXCEPT !.stage = "owned", !.accepting = TRUE] IN
       IF Admitted(p)
       THEN agent' = [agent EXCEPT ![p] = owned] /\ EndOp(p, TRUE)
       ELSE /\ agent' = [agent EXCEPT ![p] = Retired(owned)]
            /\ StepTo(p, "abandon")
            /\ UNCHANGED pass
    /\ Commit(p)
    /\ UNCHANGED <<orb, row, work, events>>

\* The opening fails and gives the lease back; a failure to do so is swallowed.
OpenFails(p) ==
    /\ Opening(p) /\ agent[p].stage = "opening"
    /\ \/ /\ ~Guard(p, FALSE) \/ ~Admitted(p)
          /\ row' = Released(p)
          /\ UNCHANGED events
       \/ /\ Event
          /\ row' \in {row, Released(p)}
    /\ agent' = [agent EXCEPT ![p] = NoAgent]
    /\ EndOp(p, FALSE)
    /\ UNCHANGED <<orb, work, last>>

--------------------------------------------------------------------------------
(* The agent under its lease. *)

\* A turn starts: the agent accepts it, and its admission is checked by renewing.
StartTurn(p) ==
    /\ agent[p].stage = "owned" /\ agent[p].accepting /\ ~agent[p].paused /\ Guard(p, FALSE)
    /\ ~work
    /\ Event
    /\ work' = TRUE
    /\ Commit(p)
    /\ UNCHANGED <<orb, row, manager, agent, pass>>

FinishTurn(p) ==
    /\ agent[p].stage = "owned" /\ ~agent[p].paused /\ Guard(p, FALSE)
    /\ work
    /\ work' = FALSE
    /\ Commit(p)
    /\ UNCHANGED <<orb, row, manager, agent, pass, events>>

\* What a closing agent settles: the turn stays.
Settle(p) ==
    /\ agent[p].stage \in {"closing", "draining"}
    /\ Guard(p, agent[p].draining)
    /\ Commit(p)
    /\ UNCHANGED <<orb, row, work, manager, agent, pass, events>>

\* The heartbeat finds the lease or the admission gone, or cannot ask: the agent closes.
HeartbeatFails(p) ==
    /\ agent[p].stage = "owned"
    /\ IF Guard(p, FALSE) THEN Event ELSE UNCHANGED events
    /\ agent' = [agent EXCEPT ![p] = Closing(@)]
    /\ UNCHANGED <<stored, manager, pass>>

\* beginDrain: the owner may settle its turn under an admission that is over; an
\* owner that lost the row writes nothing more; an error breaks the close.
BeginDrain(p) ==
    /\ agent[p].stage = "closing"
    /\ \/ /\ agent' = [agent EXCEPT ![p].stage = "draining", ![p].draining = Guard(p, TRUE),
                                    ![p].broken = orb.state = "gone"]
          /\ UNCHANGED events
       \/ /\ Event
          /\ agent' = [agent EXCEPT ![p].stage = "draining", ![p].broken = TRUE]
    /\ UNCHANGED <<stored, manager, pass>>

Ended(a, closed) ==
    [a EXCEPT !.stage = IF closed THEN "closed" ELSE "failed", !.draining = FALSE, !.broken = FALSE]

\* Everything is settled; release, whose failure is the failure of the close.
Release(p) ==
    /\ agent[p].stage = "draining"
    /\ \/ /\ row' = Released(p)
          /\ agent' = [agent EXCEPT ![p] = Ended(@, ~@.broken)]
          /\ UNCHANGED events
       \/ /\ Event
          /\ row' \in {row, Released(p)}
          /\ agent' = [agent EXCEPT ![p] = Ended(@, FALSE)]
    /\ UNCHANGED <<orb, work, last, manager, pass>>

--------------------------------------------------------------------------------
(* Commands, processes and the reconcile passes of each process. *)

\* A stop and a start: each advances the admission version.
Stop ==
    /\ orb.state = "live"
    /\ Event
    /\ orb' = [orb EXCEPT !.state = "stopped", !.admission = @ + 1]
    /\ UNCHANGED <<row, work, last, manager, agent, pass>>

Start ==
    /\ orb.state = "stopped"
    /\ orb' = [orb EXCEPT !.state = "live", !.admission = @ + 1]
    /\ UNCHANGED <<row, work, last, manager, agent, pass, events>>

\* An archive keeps the admission: the current turn may finish.
RequestArchive ==
    /\ orb.state \in {"live", "stopped"}
    /\ orb' = [orb EXCEPT !.state = "archiving"]
    /\ UNCHANGED <<row, work, last, manager, agent, pass, events>>

\* Mutant: a repeated request is accepted again.
RequestDeletionAgain ==
    /\ orb.state # "gone"
    /\ orb' = [orb EXCEPT !.state = "deleting", !.admission = @ + 1]
    /\ UNCHANGED <<row, work, last, manager, agent, pass, events>>

\* requestOrbDeletion: the admission ends with it.
RequestDeletion ==
    /\ orb.state \notin {"deleting", "gone"}
    /\ orb' = [orb EXCEPT !.state = "deleting", !.admission = @ + 1]
    /\ UNCHANGED <<row, work, last, manager, agent, pass, events>>

\* Another process remains to run the orb.
Survives(p) == \E q \in Plane \ {p} : Alive(q) /\ ~manager[q].closing

Shutdown(p) ==
    /\ Alive(p) /\ ~manager[p].closing /\ Survives(p)
    /\ Room(p)
    /\ manager' = [manager EXCEPT ![p].closing = TRUE, ![p].queue = WithSuspend(p, "close", 0)]
    /\ RevokeAgent(p)
    /\ pass' = [pass EXCEPT ![p] = NoPass]
    /\ UNCHANGED <<stored, events>>

\* A crash, or the end of a process: its memory goes, the row stays.  An orderly end
\* tries the releases that failed again.
Exit(p) ==
    /\ Alive(p) /\ (manager[p].closing \/ Survives(p))
    /\ manager' = [manager EXCEPT ![p] = NoManager]
    /\ agent' = [agent EXCEPT ![p] = NoAgent]
    /\ pass' = [pass EXCEPT ![p] = NoPass]
    /\ row' \in {row} \cup (IF manager[p].closing /\ agent[p].stage = "failed"
                           THEN {Released(p)} ELSE {})
    /\ UNCHANGED <<orb, work, last, events>>

\* A reader's request through the handle of the conversation: the orb as it is now,
\* opened paused when it is stopped.
Consult(p) ==
    /\ Alive(p) /\ orb.state # "gone"
    /\ Event
    /\ RequestEnsure(p, IF orb.state = "stopped" THEN "read" ELSE "ensure", orb.admission)
    /\ UNCHANGED <<stored, pass>>

\* A pass reads the orb and acts on what it read, however late.
ReadOrb(p) ==
    /\ Alive(p) /\ ~manager[p].closing /\ pass[p].step = "idle"
    /\ orb.state \notin {"archived", "gone"}
    /\ pass' = [pass EXCEPT ![p] = [step |-> "seen", state |-> orb.state,
                                    admission |-> orb.admission]]
    /\ UNCHANGED <<stored, manager, agent, events>>

Seen(p, states) == pass[p].step = "seen" /\ pass[p].state \in states

PassTo(p, step) ==
    pass' = [pass EXCEPT ![p] = IF step = "idle" THEN NoPass ELSE [@ EXCEPT !.step = step]]

\* reconcileCentralAgent: a stopped orb's agent is suspended, any other is ensured.
ReconcileAgent(p) ==
    /\ \/ /\ Seen(p, {"live"})
          /\ RequestEnsure(p, "ensure", pass[p].admission)
       \/ /\ Seen(p, {"stopped"})
          /\ IF SuspendIsLate(p, pass[p].admission)
             THEN UNCHANGED <<manager, agent>>
             ELSE RequestSuspend(p, pass[p].admission)
    /\ PassTo(p, "idle")
    /\ UNCHANGED <<stored, events>>

\* The same pass when the compute is down and nothing is left to do: the agent may
\* be unloaded until it is wanted again.
UnloadIdle(p) ==
    /\ Seen(p, {"live"}) /\ Room(p) /\ Published(p)
    /\ Event
    /\ manager' = [manager EXCEPT ![p].queue = Append(@, Operation("unload", pass[p].admission))]
    /\ PassTo(p, "idle")
    /\ UNCHANGED <<stored, agent>>

\* The manager has an agent in its map that is not being retired.
Loaded(p) == Published(p) /\ ~agent[p].retiring

\* Mutant: the suspend is requested but not awaited.
SuspendUnawaited(p) ==
    /\ PassTo(p, "suspended")
    /\ IF SuspendIsLate(p, pass[p].admission)
       THEN UNCHANGED <<manager, agent>>
       ELSE RequestSuspend(p, pass[p].admission)

\* What the pass of an archive asks of its manager, and awaits.
SuspendForArchive(p) ==
    IF SuspendIsLate(p, pass[p].admission)
    THEN PassTo(p, "suspended") /\ UNCHANGED <<manager, agent>>
    ELSE PassTo(p, "suspending") /\ RequestSuspend(p, pass[p].admission)

\* reconcileArchiving before the seal: an agent here must answer that it is idle; a
\* paused one has nothing to say, and where there is none nobody is asked.
PrepareArchive(p) ==
    /\ Seen(p, {"archiving"}) /\ ~orb.sealed
    /\ \/ /\ orb.state # "archiving" \/ (Loaded(p) /\ ~Prepared(p))
          /\ PassTo(p, "idle")
          /\ UNCHANGED <<manager, agent>>
       \/ /\ orb.state = "archiving" /\ Loaded(p) /\ Prepared(p) /\ ~agent[p].paused
          /\ PassTo(p, "prepared")
          /\ UNCHANGED <<manager, agent>>
       \/ /\ orb.state = "archiving" /\ (Loaded(p) => agent[p].paused)
          /\ SuspendForArchive(p)
    /\ UNCHANGED <<stored, events>>

\* The agent was idle when it answered; it goes with whatever it accepted since.
SuspendArchived(p) ==
    /\ pass[p].step = "prepared"
    /\ SuspendForArchive(p)
    /\ UNCHANGED <<stored, events>>

\* sealOrbArchive: the private tables go and the row is closed, in one transaction.
SealArchive(p) ==
    /\ pass[p].step = "suspended"
    /\ IF orb.state = "archiving"
       THEN /\ orb' = [orb EXCEPT !.sealed = TRUE]
            /\ row' = Sealed
            /\ work' = FALSE
       ELSE UNCHANGED <<orb, row, work>>
    /\ PassTo(p, "idle")
    /\ UNCHANGED <<last, manager, agent, events>>

\* Mutant: a disposal is asked of the plane once.
DisposeAgentOnce(p) ==
    /\ Seen(p, {"deleting"}) \/ (Seen(p, {"archiving"}) /\ orb.sealed)
    /\ Room(p) /\ ~manager[p].disposed
    /\ manager' = [manager EXCEPT ![p].disposed = TRUE, ![p].queue = WithSuspend(p, "close", 0)]
    /\ RevokeAgent(p)
    /\ PassTo(p, "disposing")
    /\ UNCHANGED <<stored, events>>

\* reconcileResourceDisposal: the agent is disposed of for good in this process.
DisposeAgent(p) ==
    /\ Seen(p, {"deleting"}) \/ (Seen(p, {"archiving"}) /\ orb.sealed)
    /\ Room(p)
    /\ manager' = [manager EXCEPT ![p].disposed = TRUE, ![p].queue = WithSuspend(p, "close", 0)]
    /\ RevokeAgent(p)
    /\ PassTo(p, "disposing")
    /\ UNCHANGED <<stored, events>>

\* finalizeOrbDeletion and finalizeOrbArchive, each against the state it read.
FinalizeDisposal(p) ==
    /\ pass[p].step = "disposed"
    /\ CASE orb.state = "deleting" /\ pass[p].state = "deleting" ->
                /\ orb' = [orb EXCEPT !.state = "gone"]
                /\ work' = FALSE
         [] orb.state = "archiving" /\ pass[p].state = "archiving" ->
                /\ orb' = [orb EXCEPT !.state = "archived", !.admission = @ + 1]
                /\ UNCHANGED work
         [] OTHER -> UNCHANGED <<orb, work>>
    /\ PassTo(p, "idle")
    /\ UNCHANGED <<row, last, manager, agent, events>>

\* The deadline of a call to the plane passes; the operation goes on.
PassGivesUp(p) ==
    /\ pass[p].step \in {"suspending", "disposing"}
    /\ Event
    /\ PassTo(p, "idle")
    /\ UNCHANGED <<stored, manager, agent>>

--------------------------------------------------------------------------------
ManagerStep(p) ==
    \/ StartEnsure(p) \/ StartSuspend(p) \/ StartUnload(p) \/ RetirementEnds(p)
    \/ Acquire(p) \/ Publish(p) \/ OpenFails(p)

AgentStep(p) ==
    \/ HeartbeatFails(p) \/ BeginDrain(p) \/ Release(p)

TurnStep(p) == StartTurn(p) \/ FinishTurn(p) \/ Settle(p)

PassStep(p) ==
    \/ ReadOrb(p) \/ ReconcileAgent(p) \/ UnloadIdle(p) \/ PrepareArchive(p)
    \/ SuspendArchived(p) \/ SealArchive(p) \/ DisposeAgent(p) \/ FinalizeDisposal(p) \/ PassGivesUp(p)

Environment ==
    \/ LeaseLapses \/ Stop \/ Start \/ RequestArchive \/ RequestDeletion

Next ==
    \/ Environment
    \/ \E p \in Plane :
          \/ ManagerStep(p) \/ AgentStep(p) \/ TurnStep(p) \/ PassStep(p)
          \/ Shutdown(p) \/ Exit(p) \/ Consult(p)

Spec == Init /\ [][Next]_vars

\* Every process that lives keeps working its line, closing what it closes and
\* passing over the orb; a turn under way finishes; a lease nobody renews passes.
Fairness ==
    /\ \A p \in Plane :
          /\ WF_vars(ManagerStep(p))
          /\ WF_vars(AgentStep(p) /\ UNCHANGED events)
          /\ WF_vars(FinishTurn(p))
          /\ WF_vars(PassStep(p) /\ UNCHANGED events)
    /\ WF_vars(LeaseLapses /\ UNCHANGED events)

FairSpec == Spec /\ Fairness

--------------------------------------------------------------------------------
(* Properties. *)

\* The durable log has one writer at a time: commits come in the order of their
\* terms and of the admissions they were made under, and a term has one owner and
\* one admission, whatever leases passed, calls lost their answers and drains ran late.
CommitsInOrder ==
    [][last' # last => last'.fence > last.fence /\ last'.admission >= last.admission]_vars

\* No two agents hold the same term, and none holds one the row has not reached.
TermsApart ==
    /\ \A p, q \in Plane : p # q /\ agent[p].fence > 0 => agent[p].fence # agent[q].fence
    /\ \A p \in Plane : agent[p].fence <= row.fence

\* An agent that accepts is the one its manager wants: a stop, a newer admission, a
\* shutdown or a disposal known to the process has revoked every other.
AcceptsOnlyWanted ==
    \A p \in Plane :
        agent[p].accepting =>
            /\ agent[p].stage = "owned" /\ ~agent[p].retiring
            /\ agent[p].admission = manager[p].known
            /\ ~manager[p].closing /\ ~manager[p].disposed

\* Once the archive is sealed or the orb is gone, nothing is committed and no term
\* is granted: a late owner, an opening in flight or a retry finds it closed.
ClosedForEver ==
    [][Closed => ~last'.closed /\ (row'.lease = "held" => row.lease = "held")]_vars

Served == \E p \in Plane : /\ agent[p].stage = "owned" /\ agent[p].accepting
                           /\ agent[p].admission = orb.admission

\* Every process left has an agent whose close failed: it opens no other.
Blocked ==
    \A p \in Plane : Alive(p) /\ ~manager[p].closing => agent[p].stage = "failed"

\* Every process left has an agent that closed by itself and that nobody retires.
Stranded ==
    \A p \in Plane : Alive(p) /\ ~manager[p].closing =>
        agent[p].stage = "failed" \/ (agent[p].stage = "closed" /\ ~agent[p].retiring)

\* A live orb gets its agent back: after crashes, passed leases, lost answers and
\* superseded admissions some process serves the current admission, unless the
\* closes of every process left have failed.
AgentReturns == []<>(orb.state = "live" => Served \/ Blocked)

\* A disposal that was asked for ends, under the same reservation; an archive also
\* unless the agents that are left closed by themselves before the seal.
DisposalEnds ==
    []<>(orb.state \in {"archiving", "deleting"} =>
            \/ orb.state = "archiving" /\ ~orb.sealed /\ Stranded
            \/ Blocked)

\* The process that seals an archive has let its own agent go: nothing that agent had
\* still to settle is cut off, whatever reader or ensure came between.
SealsWithoutAgent ==
    [][~orb.sealed /\ orb'.sealed =>
         \E p \in Plane : pass[p].step = "suspended" /\ pass'[p].step = "idle"
                          /\ agent[p].stage = "none"]_vars

\* The log of the orb, as the promise of AgentTerms.
Terms == INSTANCE AgentTerms WITH
    term <- row.fence,
    open <- row.lease = "held" /\ ~row.archived /\ orb.state # "gone",
    sealed <- Closed,
    last <- last.fence

ImplementsTerms == Terms!Spec
================================================================================
