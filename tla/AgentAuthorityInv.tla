--------------------------- MODULE AgentAuthorityInv ---------------------------
(***************************************************************************)
(* What every reachable state of AgentAuthority has in common: the         *)
(* inductive invariant behind the theorems of AgentAuthorityProofs.        *)
(***************************************************************************)
EXTENDS AgentAuthority

\* The types of TypeOK with the admissions so far, which no copy can exceed.
OpUpTo(a) ==
    [kind : {"ensure", "read", "suspend", "close", "unload"}, version : 0 .. a,
     step : {"queued", "retire", "open", "abandon"}, superseded : BOOLEAN]

Line(a) == Seq(OpUpTo(a))

ManagerUpTo(a) ==
    [alive : BOOLEAN, closing : BOOLEAN, disposed : BOOLEAN, known : 0 .. a,
     queue : Line(a)]

AgentUpTo(a) ==
    [stage : Stage, fence : Nat, admission : 0 .. a, accepting : BOOLEAN,
     retiring : BOOLEAN, draining : BOOLEAN, broken : BOOLEAN, paused : BOOLEAN]

PassUpTo(a) ==
    [step : {"idle", "seen", "prepared", "suspending", "suspended", "disposing", "disposed"},
     state : OrbState, admission : 0 .. a]

TypedOrb ==
    /\ orb \in [state : OrbState, admission : Nat, sealed : BOOLEAN]
    /\ work \in BOOLEAN
    /\ events \in 0 .. MaxEvents

TypedLog ==
    /\ row \in [owner : Plane \cup {NoPlane}, fence : Nat, admission : 0 .. orb.admission,
                lease : {"held", "over"}, archived : BOOLEAN]
    /\ last \in [fence : Nat, admission : 0 .. orb.admission, owner : Plane \cup {NoPlane},
                 closed : BOOLEAN]

TypedPlanes ==
    /\ manager \in [Plane -> ManagerUpTo(orb.admission)]
    /\ agent \in [Plane -> AgentUpTo(orb.admission)]
    /\ pass \in [Plane -> PassUpTo(orb.admission)]

\* Each event leaves room for a stop and its start, then an archive and a deletion follow.
Ceiling ==
    /\ orb.admission <= 2 * events + 2
    /\ orb.state \in {"live", "archiving"} => orb.admission <= 2 * events
    /\ orb.state = "stopped" => orb.admission < 2 * events
    /\ orb.state = "archived" => orb.admission <= 2 * events + 1

\* The owner row: a term belongs to its owner, and a closed row has no lease.
RowShape ==
    /\ row.fence = 0 => row.owner = NoPlane /\ row.lease = "over" /\ ~row.archived
    /\ row.archived => orb.sealed /\ row.lease = "over"
    /\ orb.sealed => /\ orb.state \in {"archiving", "archived", "deleting", "gone"}
                     /\ row.archived \/ row.fence = 0

\* Who has an agent was granted its term; the latest term is the row's.
Holders ==
    /\ \A p \in Plane : agent[p].stage = "none" => agent[p].fence = 0
    /\ \A p \in Plane : agent[p].stage # "none" => agent[p].fence > 0
    /\ \A p \in Plane : agent[p].fence > 0 /\ agent[p].fence = row.fence
                          => row.owner = p /\ row.admission = agent[p].admission

\* The log is not ahead of the row, nor written by another than the owner of its term.
LogBehindRow ==
    /\ last.fence <= row.fence /\ last.admission <= row.admission /\ ~last.closed
    /\ last.fence = row.fence /\ row.fence > 0
         => last.owner = row.owner /\ last.admission = row.admission

\* An agent that is being opened belongs to the operation at the head of the line.
OpeningIsRunning ==
    \A p \in Plane : agent[p].stage = "opening" =>
        /\ manager[p].queue # <<>>
        /\ Running(p).kind \in Opens /\ Running(p).step = "open"
        /\ Running(p).version = agent[p].admission /\ ~agent[p].retiring

IInv ==
    /\ TypedOrb /\ TypedLog /\ TypedPlanes /\ Ceiling /\ RowShape /\ Holders /\ TermsApart
    /\ LogBehindRow /\ OpeningIsRunning /\ AcceptsOnlyWanted

(* What the seal of an archive rests on. *)

\* A pass over an archive knows the admission the archive has to its end.
ArchivePass ==
    \A p \in Plane :
        /\ pass[p].step \in {"prepared", "suspending", "suspended"} => pass[p].state = "archiving"
        /\ pass[p].state = "archiving" =>
              /\ orb.state \notin {"live", "stopped"}
              /\ orb.state = "archiving" => pass[p].admission = orb.admission

\* The last operation of q that ends an agent, if there is one, is the suspend of v.
LastSuspendIs(q, v) ==
    \A i \in 1 .. Len(q) :
        /\ q[i].kind \in Suspends
        /\ \A j \in 2 .. Len(q) : i < j => q[j].kind \notin Suspends
        => q[i].kind = "suspend" /\ q[i].version = v

\* What a pass waits for is the suspend it asked for.
AwaitsItsSuspend ==
    \A p \in Plane :
        pass[p].step = "suspending" => LastSuspendIs(manager[p].queue, pass[p].admission)

\* Once it was answered there is no agent, and while the orb is archiving none opens.
SuspendedWithoutAgent ==
    \A p \in Plane :
        orb.state = "archiving" /\ pass[p].step = "suspended" => agent[p].stage = "none"

SealInv == ArchivePass /\ AwaitsItsSuspend /\ SuspendedWithoutAgent

(* A step, as the row and the log see it. *)

\* No agent is granted a term: each keeps its own or is gone.
TermsKept ==
    \A p \in Plane :
        \/ agent'[p] = NoAgent
        \/ /\ agent'[p].fence = agent[p].fence /\ agent'[p].admission = agent[p].admission
           /\ agent'[p].stage = "none" <=> agent[p].stage = "none"

QuietStep == UNCHANGED <<orb, row, last>> /\ TermsKept

LapseStep == row' = [row EXCEPT !.lease = "over"] /\ UNCHANGED <<orb, last>> /\ TermsKept

\* The grant reaches the agent that asked for it, or its answer is lost.
GrantStep(p, version) ==
    /\ MayAcquire(p, version) /\ row' = Granted(p, version) /\ UNCHANGED <<orb, last>>
    /\ \/ TermsKept
       \/ /\ agent'[p].fence = row.fence + 1 /\ agent'[p].admission = version
          /\ agent'[p].stage # "none"
          /\ \A q \in Plane \ {p} : agent'[q] = agent[q]

WriteStep(p) ==
    /\ agent[p].stage # "none" /\ Guard(p, TRUE) /\ Commit(p)
    /\ UNCHANGED <<orb, row>> /\ TermsKept

ReleaseStep(p) == row' = Released(p) /\ UNCHANGED <<orb, last>> /\ TermsKept

CommandStep ==
    /\ orb'.sealed = orb.sealed /\ orb.admission <= orb'.admission
    /\ \/ orb.state \in {"live", "stopped"} /\ orb'.state \in {"live", "stopped", "archiving"}
       \/ orb.state \in OrbState \ {"gone"} /\ orb'.state = "deleting"
       \/ orb.state = "deleting" /\ orb'.state = "gone"
       \/ orb.state = "archiving" /\ orb'.state = "archived"
    /\ UNCHANGED <<row, last, agent>>

SealStep ==
    /\ orb.state = "archiving" /\ orb' = [orb EXCEPT !.sealed = TRUE] /\ row' = Sealed
    /\ UNCHANGED <<last, agent>>

TermStep ==
    \/ QuietStep \/ LapseStep \/ CommandStep \/ SealStep
    \/ \E p \in Plane : WriteStep(p) \/ ReleaseStep(p)
    \/ \E p \in Plane, version \in 0 .. orb.admission : GrantStep(p, version)

(* A step, as the managers and their agents see it. *)

\* The operation at the head of r is the one at the head of q.
SameHead(q, r) ==
    q # <<>> => /\ r # <<>> /\ Head(r).kind = Head(q).kind /\ Head(r).step = Head(q).step
                /\ Head(r).version = Head(q).version

SameWish(p) ==
    /\ manager'[p].known = manager[p].known /\ manager'[p].closing = manager[p].closing
    /\ manager'[p].disposed = manager[p].disposed

\* A request goes behind the others; an agent it makes unwanted is revoked.
RequestStep(p) ==
    /\ SameHead(manager[p].queue, manager'[p].queue)
    /\ agent'[p].stage = agent[p].stage /\ agent'[p].admission = agent[p].admission
    /\ agent'[p].retiring = agent[p].retiring
    /\ ~agent'[p].accepting \/ (agent'[p] = agent[p] /\ SameWish(p))

\* An operation starts or ends beside an agent that is not being opened.
BesideStep(p) == agent[p].stage # "opening" /\ agent'[p] = agent[p] /\ SameWish(p)

\* The agent closes, or is gone.
EndStep(p) == ~agent'[p].accepting /\ agent'[p].stage # "opening"

OpenStep(p) ==
    /\ agent'[p].stage = "opening" /\ ~agent'[p].accepting /\ ~agent'[p].retiring
    /\ Opening(p) /\ agent'[p].admission = Running(p).version
    /\ manager'[p] = manager[p]

PublishStep(p) ==
    /\ agent[p].stage = "opening" /\ Opening(p) /\ Admitted(p) /\ SameWish(p)
    /\ agent'[p].stage = "owned" /\ agent'[p].admission = agent[p].admission
    /\ agent'[p].retiring = agent[p].retiring

PlaneStep(p) ==
    /\ \A q \in Plane \ {p} : agent'[q] = agent[q] /\ manager'[q] = manager[q]
    /\ \/ RequestStep(p) \/ BesideStep(p) \/ EndStep(p) \/ OpenStep(p) \/ PublishStep(p)

(* A step, as a pass and the line it waits for see it. *)

\* Whatever suspend was the last of the line still is, or has run.
LineKept(p) ==
    \A v \in Nat : LastSuspendIs(manager[p].queue, v) => LastSuspendIs(manager'[p].queue, v)

PassAt(p, step) == [pass[p] EXCEPT !.step = step]

\* The pass that asks for a suspend puts it behind every other operation.
AskStep(p) ==
    /\ pass[p].state = "archiving" /\ pass'[p] = PassAt(p, "suspending")
    /\ LastSuspendIs(manager'[p].queue, pass[p].admission)

\* The suspend ended well: the agent is gone or was opened under a newer admission.
AnswerStep(p) ==
    /\ pass[p].step = "suspending" /\ pass'[p] = PassAt(p, "suspended")
    /\ agent'[p].stage = "none" \/ agent[p].admission > pass[p].admission

\* The pass came too late to ask: its manager knows a newer admission.
LateStep(p) ==
    /\ pass[p].state = "archiving" /\ pass'[p] = PassAt(p, "suspended")
    /\ manager[p].known > pass[p].admission

PassingStep(p) ==
    \/ pass'[p] = pass[p] /\ LineKept(p)
    \/ pass'[p] = NoPass
    \/ pass'[p] = [step |-> "seen", state |-> orb.state, admission |-> orb.admission]
    \/ pass'[p] \in {PassAt(p, "disposing"), PassAt(p, "disposed")}
    \/ pass[p].state = "archiving" /\ pass'[p] = PassAt(p, "prepared")
    \/ AskStep(p) \/ AnswerStep(p) \/ LateStep(p)
=============================================================================
