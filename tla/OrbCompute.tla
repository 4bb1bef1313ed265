----------------------------- MODULE OrbCompute -----------------------------
(***************************************************************************)
(* Disposable compute of one orb: the durable row, the provider's hosts,   *)
(* and the reconcilers that drive one towards the other.                   *)
(*                                                                         *)
(* Several control-plane processes reconcile the same orb at once (a       *)
(* draining revision and its successor).  A pass reads the row, then       *)
(* alternates provider calls with store transactions, and everything may   *)
(* change between two of its steps.  One action is one provider call or    *)
(* one store transaction.                                                  *)
(*                                                                         *)
(* `state_version` is only ever compared for equality with the row's own   *)
(* version.  The model keeps that comparison and not the number:           *)
(* `current` is the set of reconcilers whose copy still names the row's    *)
(* version, and a transaction that advances the version empties it of      *)
(* everyone but the caller that is handed the updated row.                 *)
(***************************************************************************)
EXTENDS Integers

CONSTANTS
    Reconcilers,    \* control-plane processes that reconcile the orb
    SpecOf,         \* the host specification each process would launch
    GenOf,          \* the deploy generation each process is configured with
    MaxIncarnation, \* bound: compute incarnations a run explores
    MaxTokens       \* bound: tokens minted for an incarnation before its host
                    \* may no longer vanish

ASSUME ConstantsAssumption ==
    /\ MaxIncarnation \in Nat
    /\ MaxTokens \in Nat
    /\ SpecOf \in [Reconcilers -> Nat \ {0}]
    /\ GenOf \in [Reconcilers -> Nat \ {0}]

Incarnation == 0 .. MaxIncarnation

NoHost  == -1
NoFence == -1
NoSpec  == 0
NoGen   == 0            \* a null host_spec_generation is read as 0
NoToken == <<-1, 0>>

Tokens == (Incarnation \cup {-1}) \X Nat

OrbState == {"creating", "starting", "running", "stopping", "stopped", "failed"}

DiscardReason == {"none", "failed", "host_spec_changed"}

(* The columns of the orb row that compute depends on. *)
OrbRow == [state: OrbState,
           hostRef: Incarnation \cup {NoHost},     \* hosts are named by incarnation
           incarnation: Incarnation,
           spec: Nat, gen: Nat,
           discardThrough: Incarnation \cup {NoFence},
           reason: DiscardReason,
           token: Tokens,
           stopReason: {"idle", "other"},          \* null, manual, sleep: other
           everReady: BOOLEAN]                     \* last_ready_at is set

(* A host that is up serves a ready runtime, or one that is booting: it      *)
(* initializes, reports a failure, or does not answer at all.                *)
HostStatus == {"absent", "stopped", "booting", "ready"}

(* A provider resource.  `token` counts the tokens minted for the            *)
(* incarnation and names the one its current host carries.                   *)
Host == [status: HostStatus, spec: Nat, token: Nat]

Up == {"booting", "ready"}

PC == {"idle", "discard", "finalize", "admit", "reread", "provision", "commit",
       "superseded", "cleanup", "observe", "decide", "enter", "restart",
       "rebound", "quiesced", "fail"}

VARIABLES
    orb,        \* the durable row
    hosts,      \* the provider's resources, by incarnation
    pc,         \* where each reconciler's pass is
    seen,       \* the row each pass works from
    current,    \* reconcilers whose `seen` names the row's state_version
    obs,        \* the last observation of each pass
    minted      \* the token the last provision of each pass returned

vars == <<orb, hosts, pc, seen, current, obs, minted>>

local == <<seen, obs, minted>>

-----------------------------------------------------------------------------

NewRow == [state |-> "creating", hostRef |-> NoHost, incarnation |-> 0,
           spec |-> NoSpec, gen |-> NoGen, discardThrough |-> NoFence,
           reason |-> "none", token |-> NoToken, stopReason |-> "other",
           everReady |-> FALSE]

NoHostYet == [status |-> "absent", spec |-> NoSpec, token |-> 0]
NoObservation == [status |-> "absent", spec |-> NoSpec]

Init ==
    /\ orb = NewRow
    /\ hosts = [i \in Incarnation |-> NoHostYet]
    /\ pc = [r \in Reconcilers |-> "idle"]
    /\ seen = [r \in Reconcilers |-> NewRow]
    /\ current = {}
    /\ obs = [r \in Reconcilers |-> NoObservation]
    /\ minted = [r \in Reconcilers |-> NoToken]

-----------------------------------------------------------------------------
(* Steps of a pass *)

Goto(r, label) == pc' = [pc EXCEPT ![r] = label]

(* The pass is over; the next one starts from a new read. *)
EndPass(r) ==
    /\ Goto(r, "idle")
    /\ seen' = [seen EXCEPT ![r] = NewRow]
    /\ obs' = [obs EXCEPT ![r] = NoObservation]
    /\ minted' = [minted EXCEPT ![r] = NoToken]

(* A compare-and-set that advances state_version invalidates every copy. *)
CommitAndEnd(r, row) == orb' = row /\ current' = {} /\ EndPass(r)

(* The caller goes on with the updated row the transaction returned. *)
CommitAndGo(r, row, label) ==
    /\ orb' = row
    /\ current' = current \cap {r}
    /\ seen' = [seen EXCEPT ![r] = row]
    /\ Goto(r, label)
    /\ UNCHANGED <<obs, minted>>

(* The compare-and-set found another version: the pass reports a conflict. *)
Conflict(r) == EndPass(r) /\ current' = current \ {r} /\ UNCHANGED <<orb, hosts>>

Drop(r) == EndPass(r) /\ current' = current \ {r} /\ UNCHANGED orb

(* A stopped or failed orb without compute leaves a pass nothing to do. *)
Settled(row) == /\ row.state \in {"stopped", "failed"}
                /\ row.hostRef = NoHost /\ row.discardThrough = NoFence

(* A pass starts by reading the row; an outstanding discard comes first. *)
Read(r) ==
    /\ pc[r] = "idle" /\ ~Settled(orb)
    /\ seen' = [seen EXCEPT ![r] = orb]
    /\ current' = current \cup {r}
    /\ Goto(r, IF orb.discardThrough # NoFence THEN "discard"
               ELSE IF orb.state \in {"creating", "starting"} THEN "admit"
               ELSE IF orb.hostRef # NoHost THEN "observe"
               ELSE "quiesced")
    /\ UNCHANGED <<orb, hosts, obs, minted>>

(* A retryable provider or store error, a wait, or the death of the process: *)
(* the pass ends where it stands, whatever its last call did.                *)
Abandon(r) ==
    /\ pc[r] # "idle"
    /\ Drop(r)
    /\ UNCHANGED hosts

-----------------------------------------------------------------------------
(* Disposal *)

Absent(h) == [h EXCEPT !.status = "absent", !.spec = NoSpec]

(* discardCompute removes every host at or below the fence, and no other. *)
DiscardedThrough(n) ==
    [i \in Incarnation |-> IF i <= n THEN Absent(hosts[i]) ELSE hosts[i]]

DiscardCompute(r) ==
    /\ pc[r] = "discard"
    /\ hosts' = DiscardedThrough(seen[r].discardThrough)
    /\ Goto(r, "finalize")
    /\ UNCHANGED <<orb, current, local>>

(* Mutant: the incarnation must lie strictly below the fence. *)
StrictlyBelowFence(r) ==
    r \in current /\ orb.discardThrough = seen[r].discardThrough
        /\ orb.incarnation < seen[r].discardThrough

(* The discard a pass works from is still the outstanding one. *)
StillOutstanding(r) ==
    /\ r \in current
    /\ orb.discardThrough = seen[r].discardThrough
    /\ orb.incarnation <= seen[r].discardThrough

(* The columns that describe compute are cleared, and the next incarnation   *)
(* begins.  Only a replacement keeps the specification it was requested for. *)
Retired(row) ==
    LET replaced == row.reason = "host_spec_changed"
    IN  [row EXCEPT !.hostRef = NoHost, !.token = NoToken,
            !.spec = IF replaced THEN @ ELSE NoSpec,
            !.gen = IF replaced THEN @ ELSE NoGen,
            !.discardThrough = NoFence, !.reason = "none",
            !.incarnation = row.discardThrough + 1]

(* A `failed` discard keeps state_version, so the one-shot wake intent of    *)
(* the failed orb still matches; a spec replacement advances it.             *)
FinalizeHostDiscard(r) ==
    /\ pc[r] = "finalize"
    /\ IF StillOutstanding(r)
       THEN /\ orb.discardThrough < MaxIncarnation
            /\ orb' = Retired(orb)
            /\ current' = IF orb.reason = "failed" THEN current \ {r} ELSE {}
            /\ EndPass(r)
            /\ UNCHANGED hosts
       ELSE Conflict(r)

(* Mutant: the fence is placed one incarnation too far. *)
FailedBeyond(row) ==
    [row EXCEPT !.state = "failed", !.token = NoToken,
                !.discardThrough = row.incarnation + 1, !.reason = "failed"]

Failed(row) ==
    [row EXCEPT !.state = "failed", !.token = NoToken,
                !.discardThrough = row.incarnation, !.reason = "failed"]

(* Every failure path: diagnose, then one transaction that fails the orb,    *)
(* revokes its token and requests the discard of its incarnation.            *)
FailOrb(r) ==
    /\ pc[r] = "fail"
    /\ IF r \in current
       THEN CommitAndEnd(r, Failed(orb)) /\ UNCHANGED hosts
       ELSE Conflict(r)

-----------------------------------------------------------------------------
(* Creating and starting *)

Booting(r) == seen[r].state \in {"creating", "starting"}

(* Mutant: any revision provisions whatever the row names. *)
NeverOlder(r) == r \notin Reconcilers

(* A draining revision leaves a newer specification's replacement alone. *)
OlderThanCommitted(r) ==
    /\ seen[r].hostRef = NoHost
    /\ seen[r].spec \notin {NoSpec, SpecOf[r]}
    /\ GenOf[r] < seen[r].gen

SpecDiffers(r) ==
    \/ pc[r] = "admit" /\ seen[r].hostRef # NoHost /\ seen[r].spec # SpecOf[r]
    \/ /\ pc[r] = "decide" /\ Booting(r)
       /\ obs[r].status # "absent" /\ obs[r].spec # SpecOf[r]

(* Mutant: the token of the compute to be discarded keeps its authority. *)
ReplacedKeepingToken(row, r) ==
    [row EXCEPT !.spec = SpecOf[r], !.gen = GenOf[r],
                !.discardThrough = row.incarnation, !.reason = "host_spec_changed"]

Replaced(row, r) ==
    [row EXCEPT !.token = NoToken, !.spec = SpecOf[r], !.gen = GenOf[r],
                !.discardThrough = row.incarnation, !.reason = "host_spec_changed"]

(* Replacement is requested durably before any other host work, and only     *)
(* forwards: a lower generation than the committed one is declined.          *)
RequestHostSpecReplacement(r) ==
    /\ SpecDiffers(r)
    /\ IF r \in current /\ GenOf[r] >= orb.gen
       THEN CommitAndEnd(r, Replaced(orb, r)) /\ UNCHANGED hosts
       ELSE Conflict(r)

DeclineProvision(r) ==
    /\ pc[r] = "admit" /\ OlderThanCommitted(r)
    /\ Drop(r) /\ UNCHANGED hosts

Admissible(r) == pc[r] = "admit" /\ ~OlderThanCommitted(r) /\ ~SpecDiffers(r)

HostWork(r) == IF seen[r].hostRef = NoHost THEN "reread" ELSE "observe"

(* Authorization is resolved, within the boot deadline. *)
Admit(r) ==
    /\ Admissible(r)
    /\ Goto(r, HostWork(r))
    /\ UNCHANGED <<orb, hosts, current, local>>

(* A login completed since this process last looked: the orb re-enters its   *)
(* state, so that the login does not consume the boot deadline.              *)
ReEnterState(r) ==
    /\ Admissible(r)
    /\ IF r \in current THEN CommitAndGo(r, orb, HostWork(r)) /\ UNCHANGED hosts
       ELSE Conflict(r)

(* Mutant: the deadline is checked only while there is no host. *)
DeadlineWithoutHost(r) ==
    /\ Admissible(r) /\ seen[r].hostRef = NoHost
    /\ Goto(r, "fail")
    /\ UNCHANGED <<orb, hosts, current, local>>

(* The boot deadline passed, or the login failed. *)
Deadline(r) ==
    /\ Admissible(r)
    /\ Goto(r, "fail")
    /\ UNCHANGED <<orb, hosts, current, local>>

(* Provisioning from a stale row would resurrect retired compute, so the row *)
(* is read again immediately before.                                         *)
SameCompute(r) ==
    /\ r \in current
    /\ orb.incarnation = seen[r].incarnation
    /\ orb.discardThrough = NoFence
    /\ orb.hostRef = seen[r].hostRef

ReRead(r) ==
    /\ pc[r] = "reread"
    /\ IF SameCompute(r)
       THEN /\ seen' = [seen EXCEPT ![r] = orb]
            /\ Goto(r, "provision")
            /\ UNCHANGED <<orb, hosts, current, obs, minted>>
       ELSE Conflict(r)

(* The provider creates the named host with a fresh token, or adopts (and    *)
(* starts) the one that exists and returns the token it carries.  It refuses *)
(* a host launched from another specification.                               *)
Created(h, spec) == [status |-> "booting", spec |-> spec, token |-> h.token + 1]
Started(h) == [h EXCEPT !.status = IF @ = "stopped" THEN "booting" ELSE @]

Provision(r) ==
    /\ pc[r] = "provision"
    /\ LET i == seen[r].incarnation
           host == IF hosts[i].status = "absent" THEN Created(hosts[i], SpecOf[r])
                   ELSE Started(hosts[i])
           token == <<i, host.token>>
       IN  IF host.spec # SpecOf[r]
           THEN Conflict(r)
           ELSE /\ hosts' = [hosts EXCEPT ![i] = host]
                /\ IF seen[r].hostRef = i /\ seen[r].token = token
                   THEN Drop(r)
                   ELSE /\ minted' = [minted EXCEPT ![r] = token]
                        /\ Goto(r, "commit")
                        /\ UNCHANGED <<orb, seen, current, obs>>

(* A provider error that a retry cannot cure; a conflict is not one. *)
ProviderFails(r) ==
    /\ pc[r] \in {"provision", "observe"}
    /\ seen[r].state \in {"creating", "starting", "running", "stopping"}
    /\ Goto(r, "fail")
    /\ UNCHANGED <<orb, hosts, current, local>>

(* Mutant: only the incarnation is compared. *)
SameIncarnation(r) == orb.incarnation = seen[r].incarnation

(* Mutant: the version is not compared. *)
UnfencedIncarnation(r) ==
    orb.incarnation = seen[r].incarnation /\ orb.discardThrough = NoFence

(* The commit names the incarnation it provisioned and requires that no      *)
(* discard is outstanding.                                                   *)
StillUncondemned(r) ==
    /\ r \in current
    /\ orb.incarnation = seen[r].incarnation
    /\ orb.discardThrough = NoFence

CommitProvision(r) ==
    /\ pc[r] = "commit"
    /\ IF StillUncondemned(r)
       THEN LET row == [orb EXCEPT !.hostRef = seen[r].incarnation,
                                   !.token = minted[r],
                                   !.spec = SpecOf[r], !.gen = GenOf[r]]
            IN  /\ IF seen[r].hostRef = NoHost THEN CommitAndGo(r, row, "observe")
                   ELSE CommitAndEnd(r, row)
                /\ UNCHANGED hosts
       ELSE Goto(r, "superseded") /\ UNCHANGED <<orb, hosts, current, local>>

(* Compute whose commit lost is removed when its incarnation is retired or   *)
(* condemned, and left to its owner otherwise.                               *)
Superseded(r) ==
    /\ pc[r] = "superseded"
    /\ IF orb.incarnation > seen[r].incarnation \/ orb.discardThrough >= seen[r].incarnation
       THEN Goto(r, "cleanup") /\ UNCHANGED <<orb, hosts, current, local>>
       ELSE Conflict(r)

DiscardSupersededProvision(r) ==
    /\ pc[r] = "cleanup"
    /\ hosts' = DiscardedThrough(seen[r].incarnation)
    /\ Drop(r)

Observe(r) ==
    /\ pc[r] = "observe"
    /\ LET h == hosts[seen[r].hostRef]
       IN  obs' = [obs EXCEPT ![r] = [status |-> h.status, spec |-> h.spec]]
    /\ Goto(r, "decide")
    /\ UNCHANGED <<orb, hosts, seen, current, minted>>

(* A definitively absent host is provisioned again. *)
Restore(r) ==
    /\ pc[r] = "decide" /\ Booting(r)
    /\ obs[r].status = "absent"
    /\ Goto(r, "reread")
    /\ UNCHANGED <<orb, hosts, current, local>>

(* start() conflicts unless the host is the one expected. *)
StartTo(r, spec, label) ==
    LET i == seen[r].hostRef
    IN  IF hosts[i].status # "absent" /\ hosts[i].spec = spec
        THEN /\ hosts' = [hosts EXCEPT ![i] = Started(@)]
             /\ IF label = "idle" THEN Drop(r)
                ELSE Goto(r, label) /\ UNCHANGED <<orb, current, local>>
        ELSE Goto(r, "fail") /\ UNCHANGED <<orb, hosts, current, local>>

StartHost(r) ==
    /\ pc[r] = "decide" /\ Booting(r) /\ ~SpecDiffers(r)
    /\ obs[r].status = "stopped"
    /\ StartTo(r, SpecOf[r], "idle")

(* The ready identity is committed before the orb becomes running. *)
CommitReady(r) ==
    /\ pc[r] = "decide" /\ Booting(r) /\ ~SpecDiffers(r)
    /\ obs[r].status = "ready"
    /\ IF r \in current
       THEN /\ CommitAndGo(r, [orb EXCEPT !.everReady = TRUE, !.hostRef = seen[r].hostRef],
                           "enter")
            /\ UNCHANGED hosts
       ELSE Conflict(r)

EnterRunning(r) ==
    /\ pc[r] = "enter"
    /\ IF r \in current
       THEN CommitAndEnd(r, [orb EXCEPT !.state = "running"]) /\ UNCHANGED hosts
       ELSE Conflict(r)

(* The runtime reported a failure, or never answered within its deadline. *)
BootFailed(r) ==
    /\ pc[r] = "decide" /\ Booting(r) /\ ~SpecDiffers(r)
    /\ obs[r].status = "booting"
    /\ Goto(r, "fail")
    /\ UNCHANGED <<orb, hosts, current, local>>

-----------------------------------------------------------------------------
(* Running *)

(* An absent or stopped host takes the orb back to starting, while the       *)
(* restart budget lasts; a spent budget fails it (RuntimeFailed).            *)
AutoRestart(r) ==
    /\ \/ /\ pc[r] = "decide" /\ seen[r].state = "running"
          /\ obs[r].status \in {"absent", "stopped"}
       \/ pc[r] = "restart"
    /\ IF r \in current
       THEN CommitAndEnd(r, [orb EXCEPT !.state = "starting"]) /\ UNCHANGED hosts
       ELSE Conflict(r)

(* A spent restart budget, a failed runtime, an integrity violation in the   *)
(* history, or a drain that cannot complete.                                 *)
RuntimeFailed(r) ==
    /\ pc[r] = "decide"
    /\ \/ seen[r].state = "running"
       \/ seen[r].state = "stopping" /\ seen[r].everReady /\ obs[r].status \in Up
    /\ Goto(r, "fail")
    /\ UNCHANGED <<orb, hosts, current, local>>

(* An idle orb, or one that asked to sleep, is stopped. *)
QuietStop(r) ==
    /\ pc[r] = "decide" /\ seen[r].state = "running" /\ obs[r].status = "ready"
    /\ IF r \in current
       THEN /\ \E why \in {"idle", "other"} :
                 CommitAndEnd(r, [orb EXCEPT !.state = "stopping", !.stopReason = why])
            /\ UNCHANGED hosts
       ELSE Conflict(r)

StopTo(r, label) ==
    /\ hosts' = [hosts EXCEPT ![seen[r].hostRef].status =
                    IF @ = "absent" THEN "absent" ELSE "stopped"]
    /\ IF label = "idle" THEN Drop(r)
       ELSE Goto(r, label) /\ UNCHANGED <<orb, current, local>>

(* A silent runtime, corroborated by a health probe, is stopped and started. *)
Bounce(r) ==
    /\ pc[r] = "decide" /\ seen[r].state \in {"running", "stopping"} /\ seen[r].everReady
    /\ obs[r].status = "booting"
    /\ StopTo(r, "rebound")

Rebound(r) ==
    /\ pc[r] = "rebound"
    /\ StartTo(r, seen[r].spec, IF seen[r].state = "running" THEN "restart" ELSE "idle")

-----------------------------------------------------------------------------
(* Stopping, and the backstop behind stopped and failed orbs *)

(* The runtime drained (or was never ready): stop the host. *)
StopDrained(r) ==
    /\ pc[r] = "decide" /\ seen[r].state = "stopping"
    /\ obs[r].status = "ready" \/ (obs[r].status \in Up /\ ~seen[r].everReady)
    /\ StopTo(r, "quiesced")

(* A host this process stopped as half of a restart is started again. *)
CompleteRestart(r) ==
    /\ pc[r] = "decide" /\ seen[r].state = "stopping" /\ obs[r].status = "stopped"
    /\ StartTo(r, seen[r].spec, "idle")

EnterStopped(r) ==
    /\ seen[r].state = "stopping"
    /\ pc[r] = "quiesced" \/ (pc[r] = "decide" /\ obs[r].status \in {"absent", "stopped"})
    /\ IF r \in current
       THEN CommitAndEnd(r, [orb EXCEPT !.state = "stopped"]) /\ UNCHANGED hosts
       ELSE Conflict(r)

(* Work was admitted after the idle decision: the runtime declines. *)
DeclineIdleStop(r) ==
    /\ pc[r] = "decide" /\ seen[r].state = "stopping" /\ seen[r].stopReason = "idle"
    /\ obs[r].status = "ready"
    /\ IF r \in current
       THEN /\ CommitAndEnd(r, [orb EXCEPT !.state = "running", !.stopReason = "other"])
            /\ UNCHANGED hosts
       ELSE Conflict(r)

(* Mutant: only a host whose runtime answers is taken for running. *)
StopReadyStray(r) ==
    /\ pc[r] = "decide" /\ seen[r].state \in {"stopped", "failed"}
    /\ obs[r].status = "ready"
    /\ StopTo(r, "idle")

(* A host that a racing start brought up behind a terminal orb is stopped. *)
StopStray(r) ==
    /\ pc[r] = "decide" /\ seen[r].state \in {"stopped", "failed"}
    /\ obs[r].status \in Up
    /\ StopTo(r, "idle")

-----------------------------------------------------------------------------
(* Commands.  Each retries its compare-and-set on the row it reads, so it    *)
(* takes effect atomically.                                                  *)

(* requestOrbStart, and the queued message that wakes a stopped or failed    *)
(* orb.                                                                      *)
Start ==
    /\ orb.state \in {"stopped", "failed"}
    /\ orb' = [orb EXCEPT !.state = "starting", !.stopReason = "other"]
    /\ current' = {}
    /\ UNCHANGED <<hosts, pc, local>>

(* A stopped or failed orb whose agent asked to sleep without its host, and   *)
(* has no disposal outstanding, goes to sleep where it is.                   *)
SleepOffVm ==
    /\ orb.state \in {"stopped", "failed"} /\ orb.discardThrough = NoFence
    /\ orb' = [orb EXCEPT !.state = "stopped", !.stopReason = "other"]
    /\ current' = {}
    /\ UNCHANGED <<hosts, pc, local>>

Stop ==
    /\ orb' = [orb EXCEPT !.state = IF @ \in {"stopping", "stopped"} THEN @ ELSE "stopping",
                          !.stopReason = "other"]
    /\ current' = {}
    /\ UNCHANGED <<hosts, pc, local>>

-----------------------------------------------------------------------------
(* The hosts themselves, and the sweep over them *)

(* Mutant: any token minted for the orb is answered. *)
AuthorisedOrb(i) ==
    /\ i \in Incarnation
    /\ orb.state \in {"creating", "starting", "running", "stopping"}

(* A runtime that boots fetches its project's secrets with the token it      *)
(* carries; the control plane answers only the token the row names, while    *)
(* the orb's host should be up.  A restarted one does so again.              *)
Authorised(i) ==
    /\ orb.token = <<i, hosts[i].token>>
    /\ orb.state \in {"creating", "starting", "running", "stopping"}

HostReady(i) ==
    /\ hosts[i].status = "booting" /\ Authorised(i)
    /\ hosts' = [hosts EXCEPT ![i].status = "ready"]
    /\ UNCHANGED <<orb, pc, current, local>>

(* The runtime fails, falls silent or restarts; its machine stops. *)
HostFails(i) ==
    /\ \/ /\ hosts[i].status = "ready"
          /\ hosts' = [hosts EXCEPT ![i].status = "booting"]
       \/ /\ hosts[i].status \in Up
          /\ hosts' = [hosts EXCEPT ![i].status = "stopped"]
    /\ UNCHANGED <<orb, pc, current, local>>

(* The machine is deleted behind the control plane's back. *)
HostVanishes(i) ==
    /\ hosts[i].status # "absent" /\ hosts[i].token < MaxTokens
    /\ hosts' = [hosts EXCEPT ![i] = Absent(@)]
    /\ UNCHANGED <<orb, pc, current, local>>

(* Mutant: the sweep only looks for running hosts. *)
SweepRunning(i) ==
    /\ hosts[i].status \in Up /\ i >= orb.incarnation
    /\ orb.state \in {"stopped", "failed"} /\ orb.hostRef # i
    /\ hosts' = [hosts EXCEPT ![i].status = "stopped"]
    /\ UNCHANGED <<orb, pc, current, local>>

(* The sweep discards a host of a retired incarnation, and stops a running   *)
(* host that a stopped or failed orb does not name.                          *)
OrphanSweep(i) ==
    /\ \/ /\ hosts[i].status # "absent" /\ i < orb.incarnation
          /\ hosts' = DiscardedThrough(i)
       \/ /\ hosts[i].status \in Up /\ i >= orb.incarnation
          /\ orb.state \in {"stopped", "failed"} /\ orb.hostRef # i
          /\ hosts' = [hosts EXCEPT ![i].status = "stopped"]
    /\ UNCHANGED <<orb, pc, current, local>>

-----------------------------------------------------------------------------

Pass(r) ==
    \/ DiscardCompute(r) \/ FinalizeHostDiscard(r) \/ FailOrb(r)
    \/ RequestHostSpecReplacement(r) \/ DeclineProvision(r) \/ Admit(r) \/ ReEnterState(r)
    \/ Deadline(r)
    \/ ReRead(r) \/ Provision(r) \/ ProviderFails(r) \/ CommitProvision(r)
    \/ Superseded(r) \/ DiscardSupersededProvision(r)
    \/ Observe(r) \/ Restore(r) \/ StartHost(r) \/ CommitReady(r) \/ EnterRunning(r)
    \/ BootFailed(r)
    \/ AutoRestart(r) \/ RuntimeFailed(r) \/ QuietStop(r) \/ Bounce(r) \/ Rebound(r)
    \/ StopDrained(r) \/ CompleteRestart(r) \/ EnterStopped(r) \/ DeclineIdleStop(r)
    \/ StopStray(r)

Environment(i) == HostReady(i) \/ HostFails(i) \/ HostVanishes(i)

Next ==
    \/ \E r \in Reconcilers : Read(r) \/ Pass(r) \/ Abandon(r)
    \/ Start \/ Stop \/ SleepOffVm
    \/ \E i \in Incarnation : Environment(i) \/ OrphanSweep(i)

Spec == Init /\ [][Next]_vars

(* Processes keep running their passes, and no step fails every time it is    *)
(* tried: the dispatcher retries, and deadlines pass.                        *)
Driving(r) == WF_vars(Read(r)) /\ WF_vars(Pass(r) \/ Abandon(r))

Backstop(r) == SF_vars(Observe(r)) /\ SF_vars(StopStray(r))

Progress(r) ==
    /\ Driving(r) /\ Backstop(r)
    /\ SF_vars(DiscardCompute(r)) /\ SF_vars(FinalizeHostDiscard(r))
    /\ SF_vars(Deadline(r)) /\ SF_vars(FailOrb(r))
    /\ SF_vars(EnterRunning(r))

Sweeping == \A i \in Incarnation : WF_vars(OrphanSweep(i))

SweptSpec == Spec /\ Sweeping

BackstopSpec == Spec /\ \A r \in Reconcilers : Driving(r) /\ Backstop(r)

FairSpec == Spec /\ Sweeping /\ \A r \in Reconcilers : Progress(r)

-----------------------------------------------------------------------------

(* The row, the provider's answers and the copies have their types. *)
TypeOK ==
    /\ orb \in OrbRow
    /\ hosts \in [Incarnation -> Host]
    /\ pc \in [Reconcilers -> PC]
    /\ seen \in [Reconcilers -> OrbRow]
    /\ current \subseteq Reconcilers
    /\ obs \in [Reconcilers -> [status: HostStatus, spec: Nat]]
    /\ minted \in [Reconcilers -> Tokens]

-----------------------------------------------------------------------------
(* Safety *)

(* The row never names compute of an incarnation other than its own, however *)
(* late a pass commits what it provisioned (docs/compute-replacement.md,     *)
(* "Goal and invariant"; lifecycle.ts, casUpdateFields after provision).     *)
HostRefNamesIncarnation == orb.hostRef \in {NoHost, orb.incarnation}

(* A failed orb either has no compute or has asked for the disposal of all   *)
(* of it: failure and discard request are one transaction, and nothing that  *)
(* happens to a failed orb separates them (store.ts,                         *)
(* failOrbAndRequestComputeDiscard).                                         *)
FailedRetainsNoCompute ==
    orb.state = "failed" =>
        orb.hostRef = NoHost \/ orb.discardThrough = orb.incarnation

(* From the moment a discard is requested until it is finalized no token is  *)
(* valid and the incarnation is the condemned one: no commit of a pass that  *)
(* began earlier revives it (store.ts, requestHostSpecReplacement and        *)
(* casUpdateFields).                                                         *)
CondemnedIsUnauthorised ==
    orb.discardThrough # NoFence =>
        orb.token = NoToken /\ orb.discardThrough = orb.incarnation

(* No interleaving of ready commits, idle declines and discards makes an orb *)
(* running without compute (lifecycle.ts, transitionTo "running").           *)
RunningHasHost == orb.state = "running" => orb.hostRef # NoHost

(* The row stays consistent however many passes work on stale copies of it:  *)
(* the four together, as the conditional updates are meant to keep them      *)
(* (store.ts, casUpdateFields and the discards).                             *)
RowConsistent ==
    /\ HostRefNamesIncarnation
    /\ FailedRetainsNoCompute
    /\ CondemnedIsUnauthorised
    /\ RunningHasHost

(* The row of a running orb authenticates the very host that serves it, also *)
(* when hosts of one incarnation vanish and are provisioned again by several *)
(* passes (docs/credentials.md, runtime token read-back).                    *)
ReadyIsAuthorised ==
    (orb.state = "running" /\ hosts[orb.incarnation].status = "ready") =>
        orb.token = <<orb.incarnation, hosts[orb.incarnation].token>>

(* A runtime becomes ready only on the live incarnation and never while its  *)
(* discard is outstanding: retired compute that a late provision brought     *)
(* back cannot serve (docs/compute-replacement.md; the boot-time secrets     *)
(* fetch).                                                                   *)
OnlyLiveIncarnationBoots ==
    [][\A i \in Incarnation :
          (hosts[i].status # "ready" /\ hosts'[i].status = "ready") =>
              i = orb.incarnation /\ orb.discardThrough = NoFence]_vars

(* The committed specification changes only towards a generation at least as *)
(* high, so a draining revision and its successor do not replace each        *)
(* other's compute for ever (store.ts, requestHostSpecReplacement;           *)
(* lifecycle.ts, the declined provision).                                    *)
SpecOnlyForward ==
    [][(orb'.spec # orb.spec /\ orb.spec # NoSpec /\ orb'.spec # NoSpec) =>
          orb'.gen >= orb.gen]_vars

(* What disposable compute promises its users. *)
Fence == INSTANCE ComputeFence WITH
    incarnation <- orb.incarnation,
    owner <- orb.hostRef,
    condemned <- orb.discardThrough # NoFence,
    authorised <- orb.token[1],
    serving <- {i \in Incarnation : hosts[i].status = "ready"}

(* The row and the hosts implement that promise: compute is adopted,         *)
(* condemned, retired and brought into service in no other order.            *)
ImplementsFence == Fence!Spec

-----------------------------------------------------------------------------
(* Liveness *)

(* Someone stops pressing Stop and Start. *)
CommandsCease == <>[][~Stop /\ ~Start]_vars

(* A requested discard is eventually finalized, whatever conflicts and       *)
(* retries intervene (lifecycle.ts, reconcileHostDiscard).                   *)
DiscardCompletes ==
    CommandsCease =>
        ((orb.discardThrough # NoFence /\ orb.discardThrough < MaxIncarnation)
            ~> orb.discardThrough = NoFence)

(* Compute of a retired incarnation eventually disappears, also when a late  *)
(* provision recreated it after its discard (loops.ts, orphanSweepOnce).  The *)
(* last incarnation explored is never retired.                               *)
RetiredComputeGone ==
    \A i \in Incarnation \ {MaxIncarnation} : i < orb.incarnation ~> hosts[i].status = "absent"

(* A boot ends: the orb runs, fails or is stopped, unless logins keep        *)
(* restarting its deadline for ever (lifecycle.ts, the create/start          *)
(* deadline), up to the last incarnation explored.                           *)
StartResolves ==
    <>[][~\E r \in Reconcilers : ReEnterState(r)]_vars =>
        (orb.state \in {"creating", "starting"} ~>
            \/ orb.state \notin {"creating", "starting"}
            \/ orb.discardThrough = MaxIncarnation)

(* The host of a stopped orb that a racing pass brought up again is          *)
(* eventually stopped (lifecycle.ts, reconcileTerminalBackstop).             *)
StrayHostStops ==
    CommandsCease =>
        \A i \in Incarnation :
            (orb.state = "stopped" /\ orb.hostRef = i /\ hosts[i].status \in Up) ~>
                (orb.state # "stopped" \/ hosts[i].status \notin Up)

=============================================================================
