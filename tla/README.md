# Verification of the pi-orb control plane

pi-orb runs coding agents in *orbs*. An orb is a durable row in PostgreSQL, an
agent session, and one disposable host (a container or a VM) that the control
plane creates, stops, discards and replaces as the row demands. Control-plane
processes come and go: during a rollout a draining revision and its successor
serve the same orbs, and everything either of them knows may be out of date by
the time it acts on it. What keeps that correct is a handful of protocols over
shared rows: compare-and-set on version columns, fences, leases, frozen
batches. This directory models those protocols in TLA+, checks them with TLC on
small instances and proves their main safety properties with TLAPS.

Paths below are relative to `src/apps/control-plane/src/` unless they begin
with `src/` or `docs/`. `PROJECT.json` holds the machine-readable side: every
definition's source lines (`map`), the runs, the theorems, the hazards, and for
each property a mutation of the model that the property must detect.

- [What is in the system](#what-is-in-the-system)
- [Modules](#modules)
- [OrbCompute](#orbcompute-disposable-compute-of-one-orb)
- [OrbInbox](#orbinbox-messages-wakes-sleep-and-dispatch)
- [CredentialBroker](#credentialbroker-subscription-credentials)
- [AgentAuthority](#agentauthority-ownership-of-the-durable-agent)
- [SigningKeys](#signingkeys-the-keys-of-the-issuer)
- [Findings](#findings)
- [Observations](#observations)
- [Runs](#runs)
- [Proofs](#proofs)
- [What is not modelled, and the plan](#what-is-not-modelled-and-the-plan)
- [Running it](#running-it)

## What is in the system

| Component | State it keeps | Operations | Hard behaviour | What makes it correct |
| --- | --- | --- | --- | --- |
| Orb compute lifecycle (`domain/lifecycle.ts`, `adapters/pg/store.ts`, `adapters/docker`) | the orb row: `state`, `state_version`, `host_ref`, `compute_incarnation`, `discard_through`, host specification, token hash; the provider's hosts | reconcile create/start, running, stopping; request/finalize discard; replace a host specification; start, stop, fail; terminal backstop; orphan sweep | passes of several processes and revisions interleave at every `await`; hosts vanish; provider calls land late | the row names only its own incarnation; nothing condemned or retired comes back into service; discards, boots and strays end |
| Durable inbox and wakes (`domain/lifecycle.ts`, `adapters/pg/store.ts`, `adapters/durable/agent.ts`) | inbox rows, batches, wake intents, `sleep_id`, `stop_reason`, admission version | send, cancel, start, stop, sleep, due sleep, wake, claim, freeze, submit, note, retire | claim, re-read, native commit and note are four transactions; cancel and stop race them; passes die between any two | no message twice, none after cancel or stop, in order, and every one in the end |
| Credential broker (`domain/broker.ts`, `adapters/pg/credential-pointers.ts`) | a pointer row (generation, secret version, row version, lease), secret versions, the provider's rotating tokens | getToken, refresh under lease, publish and reread, clear, login | single-use refresh tokens, ambiguous compare-and-set answers, lease expiry, late `invalid_grant` | never name a destroyed version, never overwrite or clear a newer credential, coalesce refreshes |
| Deletion and archiving (`domain/lifecycle.ts` 2067–2435) | orb row, durable agent, transcript seal | quarantine, discard, delete; pull, seal, discard | a provision in flight while the row goes; an owner elsewhere that still writes; the host lost before the seal | nothing survives deletion; a sealed history never grows; a disposal ends |
| Restart budget and clocks (`domain/lifecycle.ts` 440–512, 1301, 1367–1617; `domain/control-state.ts`) | windows of restarts, idle and silence clocks, activity leases | charge, restart, idle stop | clocks in one process's memory, decisions on reads of several tables | restarts are bounded; work admitted is not stopped |
| Loops (`domain/loops.ts`) | parked attempts, nudges, backoff | PollDispatcher, ReconcileDispatcher, orphan sweep | lost nudges, overlapping attempts | every orb is attempted again |
| Durable agent ownership (`adapters/durable-pg/index.ts`, `adapters/durable/manager.ts`, `adapters/durable/agent.ts`) | the owner row (owner, fence, admission, lease, archived); per process a line of operations, the agent and its lease | ensure, suspend, unload, dispose, shutdown; acquire, guard, renew, drain, release, seal | leases lapse under owners that still write; stops overtake openings; a drain outlives its admission; closes fail | one writer per term; no commit after the seal; the agent of a live orb comes back |
| Durable agent storage (`adapters/durable-pg/storage.ts`, `adapters/durable/agent.ts`) | session tree, lanes, grouped commits | append, checkpoint, resume | a commit whose answer is lost | the tree grows by whole commits |
| Claude recovery (`domain/runtime-recovery.ts`, `domain/queued-turn-cancellation.ts`) | recovery episodes, turn settlements | claim, settle, give up | two failures of one episode | one restart per episode |
| Claude subscription ceremony, GitHub and Codex logins | in-memory flows, drained in the end into the broker's row | start, submit, cancel, expire | cancel against completion | a completed login is committed once |
| Issuer signing keys (`domain/signing-keys.ts`) | key rows (pending, active, retired), material in the secret store; per instance a candidate it has not got into a row | bootstrap, publish, activate, rotate, converge | boots and rotations at once; inserts whose answer is lost; a rotation cut off between its two writes | a key that signs has its material; there is always a key or a successor; no private half is left behind |
| History replication (`domain/replication.ts`) | cursors, replicated entries | poll, verify, integrity failure | duplicate and reordered pages | prefix of the source, no gap |
| MCP connections and OAuth (`domain/mcp.ts`, `domain/mcp-oauth.ts`) | connection rows, flows, tokens | connect, callback, refresh, disconnect | callback against disconnect | as for the broker, per connection |
| File hosting, workspace uploads | rows with upload and cleanup claims, exact object generations | upload, publish, clean up | cleanup against a retry | no live object is deleted |
| Release activation (`domain/release-activation.ts`) | active revision, retirement acknowledgements | activate, drain, retire | two revisions at once | one activates; the old one is drained |
| Workload identity, previews, orb messaging/spawning/alerts/files, naming, headlines, usage, projects, secrets, skills, HTTP and auth | rows with one writer per request; proxies | | little of several steps | |
| Orb runtime (`src/apps/orb-runtime`), web (`src/apps/web`), packages, infrastructure, the simulation kit | inside the host, or in the browser, or none | | seen by the control plane as hosts and requests | |

How they interact: HTTP routes and the agent's tools write rows and nudge the
loops. The reconcile loop drives the lifecycle: it calls the host provider,
asks the broker for what a boot needs, wakes orbs for their inbox, and hands
the inbox to the durable agent, whose published history retires the messages.
The orphan sweep compares the provider's hosts with the rows. The row is the
only shared state; nothing but version columns orders its writers.

## Modules

| Module | What it is |
| --- | --- |
| `OrbCompute` | the orb row, the hosts, and the passes that reconcile one with the other |
| `ComputeFence` | the abstract specification: what disposable compute promises |
| `OrbComputeInv` | the inductive invariant of `OrbCompute` |
| `OrbComputeProofs`, `OrbComputeRefinement`, `ComputeFenceProofs` | proofs: the invariant and its consequences; action properties and the refinement; the fence itself |
| `OrbInbox` | messages, wake intents, sleep, and the dispatch passes |
| `Mailbox` | the abstract specification: messages in order, given once, withdrawn or retired for good |
| `OrbInboxInv`, `OrbInboxProofs` | the inductive invariant, and proofs of the invariants, the refinement and its consequences |
| `CredentialBroker` | the pointer row, the secret store, callers, logins and the provider |
| `CredentialCell` | the abstract specification: a cell that names one credential after another |
| `CredentialBrokerInv`, `CredentialBrokerProofs` | the inductive invariant, and proofs of the invariants, the refinement and its consequences |
| `AgentAuthority` | the owner row of one orb's durable agent, the managers of the processes, their agents, archive and deletion |
| `AgentTerms` | the abstract specification: one log, written in numbered terms |
| `AgentAuthorityInv`, `AgentAuthorityProofs` | the inductive invariant, and proofs of the invariants, the refinement and its consequences |
| `SigningKeys` | the issuer's key rows and material, booting instances, publication and rotation |
| `KeyRing` | the abstract specification: keys that are published, sign and are retired, with their material |
| `SigningKeysInv`, `SigningKeysProofs` | the inductive invariants, and proofs of the invariants, the refinement and its consequences |
| `MCOrbCompute`, `MCOrbInbox`, `MCCredentialBroker`, `MCAgentAuthority`, `MCSigningKeys` | instances for TLC |

Three conventions hold in all of them. One action is one store transaction, one
provider call or one native commit, together with everything the code does
before the next `await` that others can observe. Versions that the code only
compares with the row's own become *sets of copies that are still current*;
this keeps every comparison and makes the state space finite without a bound on
the version. A process that dies and a call that fails retryably are the same
action (`Abandon` in three of them), possible at every step of a pass; what the
step did to the store or the provider stays done. Definitions with a comment that begins
"Mutant:" are plausible mistakes in that code; they are used by `PROJECT.json`
only and no specification reaches them.

## OrbCompute: disposable compute of one orb

**State.** `orb` is the row (`state`, `host_ref`, `compute_incarnation`, the
committed host specification and its deploy generation, `discard_through` and
its reason, the token, `stop_reason`, whether it ever was ready). `hosts` is the
provider's inventory, by incarnation, since hosts are named after it. Each
reconciler has a program counter `pc`, the row it `seen`, an observation `obs`,
and the token it `minted`; `current` holds those whose copy still bears the
row's `state_version`.

**A pass** begins with `Read` (`reconcileComputeOnce`, 2670–2786). An
outstanding discard comes first: `DiscardCompute`, then `FinalizeHostDiscard`
(512–613), which keeps `state_version` for a failed orb and advances it for a
replacement. A creating or starting orb (656–1252) is admitted (`Admit`,
`ReEnterState` when a login restarts the deadline, `Deadline`), declined when
the process is of an older revision (`DeclineProvision`), replaced when the
specification differs (`RequestHostSpecReplacement`), read again
(`ReRead`), provisioned (`Provision`) and committed (`CommitProvision`); a
commit that lost decides what becomes of the host it made (`Superseded`,
`DiscardSupersededProvision`, 340–440). It is then observed, restored, started,
authenticated (`CommitReady`) and made running (`EnterRunning`). A running orb
(1367–1617) is restarted, bounced, stopped or failed (`AutoRestart`, `Bounce`,
`Rebound`, `QuietStop`, `RuntimeFailed`); a stopping one (1745–2065) is drained
and stopped; the terminal backstop (2437–2497) stops a host that runs behind a
stopped orb (`StopStray`). Users act by `Start`, `Stop` and `SleepOffVm`; hosts
by `HostReady`, `HostFails` and `HostVanishes`; and the sweep (`loops.ts`
562–667) by `OrphanSweep`.

**Properties.** `RowConsistent` (its parts: `HostRefNamesIncarnation`,
`FailedRetainsNoCompute`, `CondemnedIsUnauthorised`, `RunningHasHost`),
`ReadyIsAuthorised`, `OnlyLiveIncarnationBoots`, `SpecOnlyForward`; `ImplementsFence`, the refinement
of `ComputeFence`; and the liveness properties `DiscardCompletes`,
`StartResolves`, `RetiredComputeGone` and `StrayHostStops`.

**Abstractions.**
- The authorization gate, the boot deadline, the restart budget, grace periods
  and idle clocks are nondeterministic: `Admit`, `Deadline` or `ReEnterState`,
  `RuntimeFailed` or `AutoRestart`, `QuietStop` are possible whenever the code
  could reach them at some time of day.
- The in-memory note that a restart is pending is left out, and with it the
  certainty that a pass finishes one: `CompleteRestart` and `Bounce` are
  possible on any copy the code could hold with or without the note.
- `sleep`'s stop reason is one of "other"; the branches that distinguish it
  are in `OrbInbox`. A wake for a message has the effect of `Start` on compute.
- Hosts are named by incarnation, so the branch of an adopted host with another
  identity cannot be reached and is left out.
- `discardCompute` is atomic, and so is the sweep's read of a row with its stop
  of that row's host. The provider is modelled after the docker adapter:
  creation is atomic by name, a collision reads the existing host back.
- Deletion and archiving are in `AgentAuthority` as far as the durable agent goes;
  what they do to the compute, and Claude recovery, is not modelled.

**Bounds.** `MaxIncarnation` bounds discards that finalize, `MaxTokens` how
often the host of an incarnation may vanish and be made again. Every hazard
listed for this module needs one retired and one live incarnation and, for
competing tokens, two tokens: `MaxIncarnation = 1`, `MaxTokens` 1 or 2. Two
reconcilers suffice because a race is between the winner of a compare-and-set
and one loser; losers do not affect each other's copies.

**Fairness.** The code retries a reconcile attempt with backoff for ever
(`ReconcileDispatcher`, backstop interval), so a process keeps reading and its
pass keeps moving: `Driving`, weak fairness. Calls fail at times but not for
ever, hence strong fairness of the few steps whose success the property needs
(`Backstop`, `Progress`). The sweep is a timer of its own: `Sweeping`, weak
fairness. `revisions` assumes only `Sweeping`; `stray` two driven reconcilers;
`live` one reconciler and the sweep. Where a user who presses Stop and Start in
turn for ever would defeat the property, it is stated under `CommandsCease`;
`StartResolves` excludes logins that complete for ever.

## OrbInbox: messages, wakes, sleep and dispatch

**State.** `orb` has the lifecycle columns that matter to the inbox (`state`,
`stop_reason`, whether `sleep_id` is set). `msgs` is the inbox: per ordinal the
status, the batch it is frozen in (a batch id is a hash of its members, so it
*is* the set of its members), the wake intent `auto_start`, whether the delivery
was noted, and whether it was cancelled. `admitted` holds the batches the agent
has accepted natively, `open` those of them still being worked on. `fresh`
stands for `wake_state_version = state_version`, `authorised` for the admission
version a pass began with.

**Actions.** Commands (`store.ts` 1300–1800): `EnqueueOrbMessage`,
`CancelPendingOrbMessage`, `ScheduleOrbSleep`, `RequestOrbStart`,
`RequestOrbStop`. Lifecycle, as far as the inbox sees it: `EnterRunning`,
`AutoRestart`, `FailOrb`, `FailRestartBudget`, `QuietStop`, `EnterStopped`,
`SleepOffVm`, `ProcessDueOrbSleep`, `CasStartOrbForQueuedMessage`,
`WakeForAgentWork`. A dispatch pass (`lifecycle.ts` 2518–2660, 1636–1743):
`Reconcile` (wakes a failed orb first), `ClaimOrbMessageBacklog` (freezes),
`ReRead`, the native commit (`adapters/durable/agent.ts` 1186 ff.: all batches
that the agent does not have, or a refusal), the note of delivery, and the
handling of a refusal. The agent publishes or gives up what is open, and
published history retires messages.

**Properties.** `CancelledIsNeverAdmitted`, `AdmittedOnce`, `StopCancelsWakes`,
`NothingAdmittedWhileStopped`; `ImplementsMailbox`, the refinement of `Mailbox`, whose
guard of `Give` is the order in which the agent is given messages; liveness `InboxDrains`,
`IntentWakes`, `SleepEnds`. `AdmittedInOrder`, the same order as a state of the rows, is proved. `WakeBeforeRetirement` states what the documents say and does not hold (see
[Findings](#findings)). `DeliveredIsFinal`, that history's retirement of a message is
never undone, is proved and no longer needs a run.

**Abstractions.**
- `creating` is `starting`; a stop reason that is null or `idle` is `none`.
- Only centrally placed agents; `claimNext` of the guest path is not modelled.
- A scheduled sleep falls due at any time.
- Ownership of the durable agent is `authorised` here and a module of its own,
  `AgentAuthority`. The renewal of
  admission on the retry of a failed resource is nondeterministic.
- The wake of a failed orb at the start of a pass and the read after it are one
  action; the compare-and-set on `state_version` makes that exact.
- `hasAgentWork` is `open # {}`. The look at the inbox in `SleepOffVm` is
  atomic with its transaction.
- Prompts typed in a browser, checks on the sender, idempotent repetition of a
  send, and the freeze of restored boot context are left out.

**Bounds.** `MaxMessage = 2`: order, batch mates, a batch that a cancellation
dissolves and a message behind it all need two messages and no more. Safety
runs have two processes (symmetric), which is what a stale claim against a
fresh one needs. The liveness runs have one.

**Fairness.** `Answering`: the agent publishes or gives up what it accepted
(its own loop resumes after restarts). `Delivering(p)`: the dispatcher starts
passes again and again and each takes its next step or dies (WF), and none is
always interrupted at the same step (SF on claim, re-read and submission).
`Cycling` (for wakes and sleep): compute comes up or fails, stops and wakes (WF),
and the timer of a sleep, which polls, finds the orb in a state it acts in if
there are such states again and again (SF).

## CredentialBroker: subscription credentials

**State.** `ptr` is the pointer row's credential generation and secret version
(generation 0 names nothing: the row is absent), `lease` whether a refresh lease
stands. A credential and the secret version that stores it are one number in
order of issue. `stored` are the versions in the secret store, `live` the refresh
tokens the provider still accepts, `parent` what each was rotated from. Actors
are callers (`getToken`, `broker.ts` 113–355) and logins
(`commitLoginCredential`, 368–427); each has `pc`, its `copy` of the row and
what it `got`. `named` and `grants` are history variables: what the row has held
and what callers were served.

**Actions.** A caller reads the row and the secret, is served, waits, or leases
the row; refreshes upstream, which consumes the token it submits; stores the
rotated credential; publishes it, and on an uncertain answer rereads the row and
decides (`RereadPublished`, `RereadConsumed`, `RereadSuperseded`); retires the
old version; on `invalid_grant` clears the generation it submitted. A login
stores a version, publishes it over whatever the row names, and gives up after
repeated conflicts. Leases expire, users revoke, anyone may die at any step, and
every compare-and-set may take effect although its answer is lost.

**Properties.** `PointerNamesStored`, `OneCredentialPerGeneration`,
`ClearsOnlyDead`, `RefreshesCoalesce`; `ImplementsCell`, the refinement of
`CredentialCell`; liveness `DeadIsReplaced`. `NoStaleOverwrite` is the guard of the cell's
`Publish` and is proved besides. `LeaseRaceLosesNothing` states a sentence of the documents that
does not hold.

**Abstractions.**
- Whether a token is expired, near expiry or reported as rejected, the refresh
  rate limit, callers' deadlines and cancellation are open: `Serve`, `Wait` and
  `Abandon` are possible wherever some time of day makes them so.
- A lease expires at any time. The code sets it to 30 s and the upstream timeout
  to 20 s (`domain/constants.ts`), so that a lease should outlive a refresh, but
  nothing enforces that against a stalled process. A caller whose lease runs out
  while it is upstream is marked `overdue`, which has no effect on what it does;
  `RefreshesCoalesce` speaks of the others, and no other property looks at it.
- The insertion of an absent row is a compare-and-set on generation 0.
- A secret write that fails leaves no version anyone refers to. Destroying a
  version may fail silently.
- `Revoke` covers a user's revocation and a refresh that the provider accepts
  after its caller timed out.

**Bounds.** `MaxCred = 3` credentials: one current, its rotation, and a login or
second rotation. Two callers and one login for safety, one of each for
liveness. Issued credentials are bounded, so a run may stop; the configurations
say `CHECK_DEADLOCK FALSE` for that reason alone.

**Fairness.** `Persistent(a)`: one caller keeps asking for a token it reports as
rejected, as an orb's agent does on every request; each kind of call succeeds
some of the time; leases expire by the clock.

## AgentAuthority: ownership of the durable agent

**State.** `orb` is the orb's row as far as the agent is concerned: its state, the
admission version that stops, starts and deletions advance, and whether the
archive is sealed. `row` is the row of `durable_pg_owners` (owner, fence,
admission, lease, `archived`; fence 0 is no row), `work` an unfinished turn in
the private tables, `last` what the last commit was made under. Each process
has a `manager` (`OrbAgentManager`: the line of operations for the orb, the last
known admission, `closing`, `disposed`), an `agent` with the lease it runs under
and the stage of its life, and a reconcile `pass`.

**Actions.** Transactions over the owner row (`adapters/durable-pg/index.ts`):
`Acquire` with its conditions `MayAcquire`, the `Guard` of every commit and
renewal, `BeginDrain`, `Release`, the `Sealed` row of an archive. The manager
(`adapters/durable/manager.ts`, `agent.ts`): `RequestEnsure` and `RequestSuspend` do
at once what the code does before its first `await` (revoke the agent, supersede
what waits), and `StartEnsure`, `StartSuspend`, `StartUnload`, `RetirementEnds`,
`Publish` and `OpenFails` work the line. The agent commits by `StartTurn`, `FinishTurn` and
`Settle`, and closes by itself when its heartbeat fails. Passes (`lifecycle.ts`):
`ReconcileAgent` ensures or suspends, `PrepareArchive`, `SuspendArchived` and
`SealArchive` archive, `DisposeAgent` and `FinalizeDisposal` end a deletion or an
archive. The environment stops, starts, archives, deletes and consults the orb, shuts a
process down or ends it, and lets leases lapse.

**Properties.** `TermsApart`, `AcceptsOnlyWanted`, `CommitsInOrder`, `ClosedForEver`,
`SealsWithoutAgent`; `ImplementsTerms`, the refinement of `AgentTerms`; liveness
`AgentReturns` and `DisposalEnds`.

**Abstractions.**
- "live" is every state that is not stopped by hand or by sleep, since the
  plane keeps the agent of an orb whose compute is down. That such an agent may be
  unloaded when it is idle is `UnloadIdle`.
- The lease's duration is left out: it may lapse at any time. A lapse under a holder
  that still renews it (a stalled process) is an event; a lapse that nobody
  prevents is free.
- A close is a suspend without a limit. The two suspends of an archive, before and after
  the history is pulled, are one; what is pulled and the validation of a history at
  opening are left out.
- The deadline of a call to the runtime is `PassGivesUp`: the operation goes on.
- Turns are one bit: an unfinished turn exists or not. What a closing agent commits while it
  settles is `Settle`, which leaves the turn for the next owner.
- A process shuts down or ends only while another one survives, as in a rollout; a
  restarted process is another member of `Plane`, for owner ids are fresh.
- Compute, inbox and the guest's side are in the other modules.

**Bounds.** `MaxEvents` bounds what could go on for ever: stops (each with its start),
failed calls and lost answers, late holders, unloads, turns and consultations. One of
them at any point of two processes' openings, closings, shutdowns and crashes is
what the hazards need; `MaxQueue = 1` lets one operation run while requests are refused
or superseded. Two events, or two queued operations, were explored for the safety
properties and the inductive invariant without an error (the latter with
symmetry, 958,771 states); the run checks everything with one, in 569,541 states.

**Fairness.** Each living process works the operation at the head of its line, moves
the close of its agent along and passes over the orb again (`ReconcileDispatcher`, the
heartbeat and the manager's promise chain); turns finish; a lease that nobody renews
lapses by the clock. The steps that count an event are never forced. Two conditions
are the code's own: `Blocked`, since the manager keeps an agent whose close failed
and opens no other, and `Stranded` (see [Observations](#observations)).

## SigningKeys: the keys of the issuer

**State.** `keys` gives each key's row: none, pending, active or retired (`kid`s are
numbers in order of `created_at`; since rows only move forward, a row version is the
state it was read in). `stored` are the keys whose private half is in the secret store,
`maker` says whose candidate a key is, `flight` holds inserts whose caller has given
them up and that may still land. `boot` is the bootstrap state of an instance with the
step it is at (`SigningKeyBootstrapState`: the candidate, whether its secret version is
acknowledged, whether a cleanup bars it), `rotation` an operator's request with the key
it pinned as the one it replaces and its target.

**Actions.** `ensureActiveSigningKey` (`domain/signing-keys.ts` 143–306): `List` decides
between settling at the active key, adopting the newest pending one and making a new
one; `Adopt`, `Make`, `Insert`, `LastRead`, `Drop` (the destruction of a candidate that
lost) and `Restart`. Requests (318–584): `RequestPublish`, `RequestActivate`,
`RequestRotate`; `Publish`, `WriteAndInsert`, `Confirm`; `Converge`, `Retire`,
`Activate`, and `Break`, the end of a request at any step. `Land` is an insert that
takes effect after its answer was given up. Every write may be refused, fail, or take effect
while its answer is lost.

**Properties.** `MaterialKept`, `OrphansAreKnown`; `ImplementsRing`, the refinement of
`KeyRing`; liveness `IssuerSigns`. `SuccessorReady` is what the ring's guard of `Retire`
keeps up, and `PublishedMaterialStays` needs no proviso; both are proved.

**Abstractions.**
- The soak time is open: `RequestActivate` may find the key old enough at any time, as
  `force` makes it anyway.
- How many attempts a loop has left is open: a refused write may be the last.
- Publication writes the material and the row in one step, because nobody sees the one
  without the other; a request that dies in between leaves an unreferenced
  version, which the code accepts.
- Material that no row names, that is not on its way into one and that nobody remembers is inert,
  and its key becomes unused again. This keeps the number of keys finite and no
  property looks at such material.
- The check of `settle` that the key's material can be read (198) changes no state. The
  cache of material in the minting path and the assembly of the public key set are
  left out.

**Bounds.** Two instances, one staged and one unstaged request, three keys (one that signs, its
successor, and the candidate or second successor that races them) and one fault at any
step. The inductive invariants were checked on the same instance, and `RowInv`,
`PendingHeld` and `PublishedMaterialStays` also with late inserts of every actor
(1,146,729 states).

**Fairness.** Some instance boots again and again, as each rollout has one do, and its
calls are answered, the bounded faults apart. Nothing is assumed of operators, who need
not repeat a request that was cut off, nor of inserts in flight.

**Late inserts.** `Late` says whose inserts may land after their answer was given up. The
run, `MaterialSurvives` and the refinement of the ring allow it to requests, which leave
material in place for that reason (373–378), and not to boots; see
[Observations](#observations). What operators publish is safe from either:
`PublishedIsKept` has no such condition.

## Findings

Two runs end in a violation on purpose. Each states what a document or comment
of the repository says, and TLC shows a behaviour of the code that departs from it.

- **A send to a failed orb can be delivered without waking it** (`inbox_failed_send`,
  `WakeBeforeRetirement`). A pass tries to wake the failed orb only at its start. A
  message sent after that is claimed by the same pass; the re-read before delivery
  (`lifecycle.ts` 1650–1662) does not compare the state, so the message is
  submitted and its note clears the intent that named this failure. The orb stays
  failed. `docs/lifecycle.md` 49 and 54 say that the wake comes before any retirement
  and that a send buys one further attempt.
- **A lease-only race can lose a credential** (`broker_lease_race`,
  `LeaseRaceLosesNothing`). Caller 1 refreshed and stored the rotated credential when
  its lease expires; caller 2 leases the row, is refused upstream because the token
  was consumed, and clears the row; caller 1 then finds a newer generation and
  destroys the only credential the provider accepts. `docs/credentials.md` 139 says
  that the design avoids credential loss through "a lease-only race".

## Observations

Met while modelling, and kept out of the runs because they concern what the code
does between two processes or after a failure that the documents do not discuss.

- **A seal can cut a turn of another process.** Before the seal a pass asks its own
  manager whether the agent is idle; `prepareIdleStop` (`adapters/durable/manager.ts`
  515–519) answers yes where no agent is loaded, and nobody asks the process that
  holds the lease. `docs/orb-archival.md` 84 says that archival waits for idle and
  the current turn may finish. `SealsWithoutAgent` is therefore stated of the sealing
  process's own agent. A turn that agent accepts between its answer and the suspend
  is settled, and then cut likewise.
- **An agent that closed by itself holds an archive up.** After a failed heartbeat the
  closed agent stays in the manager's map; asked to prepare, it refuses because its
  admissions are closed (`adapters/durable/agent.ts` 1152), on every pass until a reader's
  request, a deletion or the end of the process. `DisposalEnds` is stated with this
  reservation, `Stranded`.

- **A sleep that falls due overrides a spent restart budget.** That failure sets a manual
  stop "as Stop does" (`docs/lifecycle.md` 218) but, unlike Stop, leaves `sleep_id`
  (`adapters/pg/store.ts` 2146). When the sleep falls due its notice carries a fresh
  intent, the backstop starts the orb and lifts the manual stop, with no human intent
  (`lifecycle.ts` 452). `OrbInbox` has this behaviour (`FailRestartBudget`, then
  `ProcessDueOrbSleep`).
- **A boot's late insert can name destroyed material.** `dropOrphanedMaterial`
  (`domain/signing-keys.ts` 154–163) destroys the candidate once another key is active,
  because the index "can no longer admit the insert we asked for — even if the write
  whose answer we lost is still in flight". It can, while a rotation is between
  retiring that key and activating its successor: with boots in `Late`, TLC finds the
  insert landing there, and the issuer with an active key that has no material.
- **A boot can make a key sign that was never published.** In that same window the stale
  insert of a boot that had read an empty table is admitted as active.
- `rotateSigningKey` has no caller but tests; operators use the two stages. A boot gives
  up after three attempts (`main.ts` 1091), so the recovery from a rotation that was cut
  off may wait for the next boot or another request.

## Runs

| Run | Instance | Shows |
| --- | --- | --- |
| `revisions` | old and new revision, specifications 1 and 2, 2 incarnations, 1 token, only the sweep fair | type invariant, `RowConsistent`, `SpecOnlyForward`; retired compute disappears |
| `lost_hosts` | two processes of one revision, 2 incarnations, 2 tokens, symmetric | the row of a running orb authenticates its host; only the live incarnation boots; refinement of `ComputeFence` |
| `live` | one process, 2 incarnations, 2 tokens, fair | discards and boots end |
| `stray` | two processes, 1 incarnation, fair | a host that a racing start brought up behind a stopped orb is stopped |
| `inbox_safety` | two processes, 2 messages, symmetric | no delivery after cancel or stop, none twice; refinement of `Mailbox` (in order, nothing comes back) |
| `inbox_live` | one process, 2 messages, fair | the inbox drains, intents wake, sleeps end |
| `inbox_failed_send` | one process, 2 messages | violation, see Findings |
| `broker_safety` | two callers, one login, 3 credentials, symmetric | nothing is destroyed or cleared that should not be; one refresh per credential at a time; refinement of `CredentialCell` |
| `broker_live` | one caller, one login, fair | a refused credential is replaced or cleared |
| `broker_lease_race` | as `broker_safety` | violation, see Findings |
| `agent` | two processes, 1 event, queues of 1, fair | one writer per term, nothing after the seal, refinement of `AgentTerms`; the agent returns, disposals end |
| `keys` | two instances, a staged and an unstaged request, 3 keys, 1 fault, fair | keys have their material, no orphan is lost; refinement of `KeyRing` (a successor waits); the issuer signs again |

Symmetry is used in safety runs only, over identical processes (or callers).
Every run with deadlock checking on also shows that the modelled protocol never
leaves everyone waiting. The passing runs together take every action of the
five specifications. For each property `PROJECT.json` names a mutation of a
definition of the model under which the same run finds that property violated:
dropped versions in comparisons, fences off by one, omitted resets, checks that
look at the wrong column.

## Proofs

Proved by TLAPS for any number of processes, messages, callers, logins,
credentials, incarnations, instances and keys; the only assumptions are the typing
assumptions on constants (`ConstantsAssumption`, `InboxAssumption`, `AgentAssumption`,
`KeysAssumption`, and the broker's, which also says that no caller is a login).

- **OrbCompute.** `TypeCorrect`, `CommitsAreFenced` (`RowConsistent`) and
  `RunningIsAuthorised` follow from the inductive invariant `IInv`. The row's invariants are not inductive because
  they depend on what passes hold: the heart of `IInv` is that a `current` copy
  *is* the row (`CurrentCopies`; a failed orb's finalization, which keeps the
  version, disturbs only copies of other disposing passes), that no copy runs
  ahead of the incarnation (`NoCopyAhead`), and that tokens are ordered:
  row ≤ minted ≤ host (`MintedIsOrdered`, `TokenNamesHost`, `ReadyHoldsToken`).
  From it `OrbComputeRefinement` proves the action properties `OnlyLiveBoots` and
  `SpecsGoForward` (with `AdmittedForward`: a pass that may provision is not behind
  the committed specification) and `Implements`, that every step maps to a step
  or stutter of `ComputeFence`. `ComputeFenceProofs!FenceIsExclusive` proves what
  the fence itself is worth.
- **OrbInbox.** `CancellationHolds`, `AtMostOnce`, `StopIsFinal`, `StopFences`,
  `FirstInFirstOut`, `RetirementIsFinal`, `TypeCorrect`. What makes the invariant
  inductive is `AdmittedAsFrozen` (an outstanding message that the agent has is
  still frozen in the very batch it was given in, since a cancellation dissolves
  only batches the agent does not have), `HeldIsPrefix` (a pass about to submit
  holds everything outstanding that precedes something it holds) and
  `ManualRevokes` (a manual stop leaves no pass its admission).
  `Implements` maps the rows and the agent's batches to `Mailbox`: what a pass submits is
  one `Give`, because what it holds is a prefix of what waits and its admission still
  stands. Two consequences are proved of the mailbox and carried over: `BacklogKept` (what
  was withdrawn was never given, history shows only what was given, the older of two due
  messages was given first) and `SettledStays` (what is no longer due never is again,
  although batches are dissolved and passes repeated).
- **CredentialBroker.** `NamedIsStored`, `GenerationsIdentify`, `RefreshesFollow`,
  `ClearsAreFenced`, `Coalescing`, `TypeCorrect`. `CredentialBrokerInv` relates every
  actor's copy and credential to the history of the row: copies were the row's
  once, current ones still are, nobody else can publish what an actor got, and
  what is unpublished has never been named; `Exclusive` is the argument for
  coalescing. `Implements` maps the row, the store and the grants to `CredentialCell`;
  callers, leases, copies and lost answers disappear, and what is left are credentials that
  enter the cell once, in the place of their predecessor or from a login. From the cell
  alone follow `ReplacedStaysOut` (a credential that was replaced or cleared is never
  named again) and `DestroyedStaysSo` (its material, once destroyed, is never stored
  again), which the row's compare-and-set does not show by itself: callers publish and
  reread long after they read.
- **AgentAuthority.** `TermsNeverShared`, `AcceptedIsWanted`, `OneWriter`, `ClosingHolds`,
  `Implements`, `SealWaitsForAgent`, `TypeCorrect`. A guard compares the agent's lease with the row, but
  by the time it runs the row may have been granted twice over. `Holders` closes that: an agent
  whose fence is the row's fence is the row's owner under the row's admission, so two agents
  share no fence; `LogBehindRow` puts the log behind the row, `RowShape` says what
  a free and an archived row look like, and `OpeningIsRunning` that an agent being opened belongs to
  the operation at the head of its line, whose version it bears. The many actions of
  a process fall into a few kinds of step that the invariant needs to know
  (`QuietStep`, `TermStep`, `SealStep`, `CommandStep`, and the steps of a manager's line):
  every action is first shown to be of its kind, and each conjunct is
  then proved once per kind. `Implements` follows from the same kinds.
  `SealWaitsForAgent` needs an invariant of its own, `SealInv` (`SealGuarded`), because the
  pass that seals learnt of the end of its agent in an earlier step, while readers, newer
  admissions and late answers go on filling the line: what the pass waits for is the last
  suspend in its manager's line, of the admission it archives under
  (`AwaitsItsSuspend`), and from its answer on nothing can open an agent while the orb is
  archiving (`SuspendedWithoutAgent`).
- **SigningKeys.** `SuccessorWaits`, `NoOrphans`, `TypeCorrect`, `MaterialSurvives`,
  `PublishedIsKept`, `Implements`, `MaterialStays`, `RetiredStays`. That a successor
  waits is not inductive: a rotation retires the key it pinned several steps after it read
  that its target was pending. `TargetWaits` bridges them (while the pinned key signs, the
  target can only wait, for nothing can become active beside it), which needs `PinWasActive`
  and `OneActive`; `FreshKeys`, `CandidateOwned` and `ConfirmOwned` say that nobody else
  inserts, destroys or forgets the key an actor holds. All these are `RowInv`, whoever's inserts land
  late. `MaterialInv` adds what a boot knows of its candidate (`CandidateUnnamed`,
  `CandidateStored`) and is inductive only if the inserts of boots land in time, so
  `MaterialSurvives` is stated under `BootsLandInTime`. Steps are first shown to be of a kind
  (a boot reads, makes, drops or forgets; a request goes on; an insert lands) and each
  conjunct is then proved once per kind. `PublishedIsKept` is free of the proviso: a key that is
  published, or whose publication is on its way, belongs to nobody who would destroy it
  (`PendingHeld`), and stays so when its row moves on (`Held`). `Implements` (under the
  proviso) maps rows and material to `KeyRing`: a rotation's two writes are its `Retire`, whose
  guard asks for a published successor, and its `Activate`. `MaterialStays` and
  `RetiredStays` are the ring's promises for ever, the second one without proviso.

Each invariant was checked by TLC on the instances above before it was proved.
Left to TLC: the eleven liveness properties (fairness and ENABLED are out of the prover's
reach) and the confirmation that mutants are caught; every invariant, action property and
refinement that a passing run checks is also a theorem. No module defines a RECURSIVE
operator.

## What is not modelled, and the plan

`PROJECT.json` lists every component with its status and reason. In order of
what the system stands to lose:

1. **OrbDisposal**: the compute side of deletion and archiving (`lifecycle.ts` 2067–2435),
   composed with the fence of `ComputeFence`: the row goes only after its compute.
2. The composition of `AgentAuthority` with `OrbInbox`, whose set `authorised` it refines.
3. **RestartClocks**: the restart budget, idle and silence clocks and the
   dispatcher's timetable, which `OrbCompute` leaves to nondeterminism and fairness.
4. **ClaudeRecovery**: episodes and turn settlements; refines `FailOrb`.
5. **HistoryPull**: cursors, empty-session verification, integrity failures.
6. **HostingCleanup** and **McpConnections**: claims with epochs; a second
   credential protocol.
7. Pure algorithms worth a reference definition: batch rendering, range
   parsing of hosted files, the restart window.

Planned with `OrbDisposal`: the theorem that a removed row leaves no authorised compute.

Not planned: generated code, schemas, infrastructure, the browser and the text of
anything. The processes inside a host are seen as the control plane sees them, a
host that boots, serves, falls silent or vanishes.

## Running it

    tlc -workers 2 -config OrbComputeRevisions.cfg MCOrbCompute
    tlapm OrbComputeProofs.tla

Each run finishes within a few minutes on two cores (the longest, `revisions`, in
about four); the proofs in a few minutes each.
