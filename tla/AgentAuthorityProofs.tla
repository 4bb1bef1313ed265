-------------------------- MODULE AgentAuthorityProofs --------------------------
EXTENDS AgentAuthorityInv, SequenceTheorems, TLAPS

--------------------------------------------------------------------------------
(* The line of operations of a manager. *)

(* An operation that is there can be run, and taken off the line.           *)
LEMMA HeadOfLine ==
    ASSUME NEW a \in Nat, NEW q \in Line(a), q # <<>>
    PROVE  /\ Head(q) = q[1] /\ Head(q) \in OpUpTo(a) /\ Len(q) \in Nat /\ Len(q) > 0
           /\ Tail(q) \in Line(a)
  BY HeadTailProperties, EmptySeq, LenProperties DEF Line

(* An operation, and its line, when it reaches a step.                      *)
At(o, s) == [o EXCEPT !.step = s]
HeadAt(q, s) == [q EXCEPT ![1] = At(Head(q), s)]

(* A step of the running operation changes its step only.                   *)
LEMMA StepInLine ==
    ASSUME NEW a \in Nat, NEW q \in Line(a), q # <<>>,
           NEW s \in {"queued", "retire", "open", "abandon"}
    PROVE  HeadAt(q, s) \in Line(a) /\ HeadAt(q, s) # <<>> /\ Head(HeadAt(q, s)) = At(Head(q), s)
<1>1. 1 \in 1 .. Len(q) /\ q[1] \in OpUpTo(a) /\ Head(q) = q[1]
  BY HeadOfLine
<1>2. PICK e \in OpUpTo(a) : e = At(Head(q), s)
  BY <1>1 DEF OpUpTo, At
<1>5. PICK r : r = HeadAt(q, s)
  OBVIOUS
<1>3. r \in Seq(OpUpTo(a)) /\ Len(r) = Len(q) /\ r[1] = e
  BY <1>1, <1>2, <1>5, ExceptSeq DEF Line, HeadAt
<1>4. r # <<>> /\ Head(r) = r[1]
  BY <1>3, <1>1, HeadOfLine, EmptySeq DEF Line
<1> QED BY <1>1, <1>2, <1>3, <1>4, <1>5 DEF Line

(* A new operation goes behind the others.                                  *)
LEMMA AppendToLine ==
    ASSUME NEW a \in Nat, NEW q \in Line(a), NEW o \in OpUpTo(a)
    PROVE  Append(q, o) \in Line(a) /\ SameHead(q, Append(q, o))
  BY AppendProperties, EmptySeq, LenProperties DEF Line, SameHead

(* Superseding changes nothing else.                                        *)
LEMMA SupersedeLine ==
    ASSUME NEW a \in Nat, NEW q \in Line(a),
           NEW r, r = [i \in 1 .. Len(q) |-> [q[i] EXCEPT !.superseded = @ \/ q[i].kind \in Opens]]
    PROVE  r \in Line(a) /\ SameHead(q, r)
<1>1. Len(q) \in Nat /\ \A i \in 1 .. Len(q) : q[i] \in OpUpTo(a)
  BY LenProperties, ElementOfSeq DEF Line
<1>2. \A i \in 1 .. Len(q) : /\ r[i] = [q[i] EXCEPT !.superseded = @ \/ q[i].kind \in Opens]
  BY <1>1
<1>3. \A i \in 1 .. Len(q) : r[i] \in OpUpTo(a)
  BY <1>1, <1>2 DEF OpUpTo
<1>4. r \in [1 .. Len(q) -> OpUpTo(a)]
  BY <1>3
<1>5. r \in Line(a) /\ Len(r) = Len(q)
  BY <1>1, <1>4 DEF Line
<1>6. ASSUME q # <<>> PROVE r # <<>> /\ Head(r) = r[1] /\ 1 \in 1 .. Len(q) /\ Head(q) = q[1]
  <2>1. Len(q) > 0 /\ Head(q) = q[1]
    BY <1>6, HeadOfLine
  <2>2. r # <<>>
    BY <2>1, <1>5, EmptySeq
  <2> QED BY <2>1, <2>2, <1>5, <1>1, HeadOfLine
<1>7. ASSUME q # <<>>
      PROVE  Head(r).kind = Head(q).kind /\ Head(r).step = Head(q).step /\ Head(r).version = Head(q).version
  BY <1>7, <1>6, <1>2, <1>1 DEF OpUpTo
<1> QED BY <1>5, <1>6, <1>7 DEF SameHead

(* What was an admission so far remains one.                                *)
LEMMA UpToGrows ==
    ASSUME NEW a \in Nat, NEW b \in Nat, a <= b
    PROVE  /\ ManagerUpTo(a) \subseteq ManagerUpTo(b)
           /\ AgentUpTo(a) \subseteq AgentUpTo(b)
           /\ PassUpTo(a) \subseteq PassUpTo(b)
<1>1. OpUpTo(a) \subseteq OpUpTo(b)
  BY DEF OpUpTo
<1>2. Line(a) \subseteq Line(b)
  BY <1>1, SeqMonotonic DEF Line
<1>3. ManagerUpTo(a) \subseteq ManagerUpTo(b)
  BY <1>2 DEF ManagerUpTo
<1> QED BY <1>3 DEF AgentUpTo, PassUpTo

--------------------------------------------------------------------------------
(* What the operators that several actions share do to a typed state. *)

(* Nothing but the line of a manager changes.                               *)
OnlyLine(p) ==
    /\ \A q \in Plane : /\ manager'[q].known = manager[q].known
                        /\ manager'[q].closing = manager[q].closing
                        /\ manager'[q].disposed = manager[q].disposed
    /\ \A q \in Plane : q # p => manager'[q] = manager[q]

(* The line of p with another queue.                                        *)
LEMMA NewLine ==
    ASSUME NEW a \in Nat, manager \in [Plane -> ManagerUpTo(a)], NEW p \in Plane,
           NEW r \in Line(a), manager' = [manager EXCEPT ![p].queue = r]
    PROVE  /\ manager' \in [Plane -> ManagerUpTo(a)] /\ OnlyLine(p)
           /\ manager'[p].queue = r
  BY DEF ManagerUpTo, OnlyLine

(* A typed process has a typed line and head.                               *)
LEMMA LineTyped ==
    ASSUME NEW a \in Nat, manager \in [Plane -> ManagerUpTo(a)], NEW p \in Plane
    PROVE  /\ manager[p].queue \in Line(a)
           /\ Pending(p) => manager[p].queue # <<>> /\ Running(p) \in OpUpTo(a)
<1>1. manager[p].queue \in Line(a)
  BY DEF ManagerUpTo
<1> QED BY <1>1, HeadOfLine DEF Pending, Running

(* The end of an operation takes it off the line; the pass learns of it.    *)
LEMMA EndOpEffect ==
    ASSUME NEW a \in Nat, manager \in [Plane -> ManagerUpTo(a)],
           pass \in [Plane -> PassUpTo(a)], NEW p \in Plane, Pending(p), NEW b, EndOp(p, b)
    PROVE  /\ manager' \in [Plane -> ManagerUpTo(a)] /\ OnlyLine(p)
           /\ pass' \in [Plane -> PassUpTo(a)]
<1>1. Tail(manager[p].queue) \in Line(a)
  BY LineTyped, HeadOfLine
<1>2. manager' = [manager EXCEPT ![p].queue = Tail(manager[p].queue)]
  BY DEF EndOp
<1>3. manager' \in [Plane -> ManagerUpTo(a)] /\ OnlyLine(p)
  BY <1>1, <1>2, NewLine
<1>4. /\ [pass[p] EXCEPT !.step = "suspended"] \in PassUpTo(a)
      /\ [pass[p] EXCEPT !.step = "disposed"] \in PassUpTo(a)
      /\ NoPass \in PassUpTo(a)
  BY DEF PassUpTo, NoPass, OrbState
<1>5. pass' \in [Plane -> PassUpTo(a)]
  <2>1. CASE pass' = pass
    BY <2>1
  <2>2. ASSUME NEW x \in PassUpTo(a), pass' = [pass EXCEPT ![p] = x] PROVE pass' \in [Plane -> PassUpTo(a)]
    BY <2>2
  <2> QED BY <1>4, <2>1, <2>2 DEF EndOp
<1> QED BY <1>3, <1>5

(* A step of the running operation.                                         *)
LEMMA StepToEffect ==
    ASSUME NEW a \in Nat, manager \in [Plane -> ManagerUpTo(a)], NEW p \in Plane, Pending(p),
           NEW s \in {"queued", "retire", "open", "abandon"}, StepTo(p, s)
    PROVE  /\ manager' \in [Plane -> ManagerUpTo(a)] /\ OnlyLine(p)
           /\ manager'[p].queue # <<>> /\ Running(p)' = At(Running(p), s)
<1>1. PICK q \in Line(a) : q = manager[p].queue /\ q # <<>>
  BY LineTyped
<1>2. PICK r : r = HeadAt(q, s)
  OBVIOUS
<1>6. r = [q EXCEPT ![1].step = s]
  BY <1>1, <1>2, HeadOfLine DEF HeadAt, At
<1>3. r \in Line(a) /\ r # <<>> /\ Head(r) = At(Head(q), s)
  BY <1>1, <1>2, StepInLine
<1>5. manager' = [manager EXCEPT ![p].queue = r]
  BY <1>1, <1>6 DEF StepTo
<1>4. manager' \in [Plane -> ManagerUpTo(a)] /\ OnlyLine(p) /\ manager'[p].queue = r
  BY <1>3, <1>5, NewLine
<1> QED BY <1>1, <1>3, <1>4 DEF Running

(* A suspend goes behind the others.                                        *)
LEMMA WithSuspendEffect ==
    ASSUME NEW a \in Nat, manager \in [Plane -> ManagerUpTo(a)], NEW p \in Plane,
           NEW kind \in Suspends, NEW version \in 0 .. a
    PROVE  /\ WithSuspend(p, kind, version) \in Line(a)
           /\ SameHead(manager[p].queue, WithSuspend(p, kind, version))
<1> DEFINE q == manager[p].queue
           r == [i \in 1 .. Len(q) |-> [q[i] EXCEPT !.superseded = @ \/ q[i].kind \in Opens]]
           o == Operation(kind, version)
<1>1. q \in Line(a)
  BY LineTyped
<1>2. o \in OpUpTo(a)
  BY DEF Operation, OpUpTo, Suspends
<1>3. r \in Line(a) /\ SameHead(q, r)
  BY <1>1, SupersedeLine
<1>4. WithSuspend(p, kind, version) = Append(r, o)
  BY DEF WithSuspend
<1> HIDE DEF r, o, q
<1>5. Append(r, o) \in Line(a) /\ SameHead(r, Append(r, o))
  BY <1>2, <1>3, AppendToLine
<1> QED BY <1>3, <1>4, <1>5 DEF SameHead, q

(* Revoking and retiring keep the types and the term of an agent.           *)
LEMMA RetiredTyped ==
    ASSUME NEW a \in Nat, NEW x \in AgentUpTo(a)
    PROVE  /\ Revoked(x) \in AgentUpTo(a) /\ Closing(x) \in AgentUpTo(a)
           /\ Retired(x) \in AgentUpTo(a)
  BY DEF AgentUpTo, Revoked, Closing, Retired, Stage

(* So do the agents when one of them is revoked.                            *)
LEMMA RevokeAgentTyped ==
    ASSUME NEW a \in Nat, agent \in [Plane -> AgentUpTo(a)], NEW p \in Plane, RevokeAgent(p)
    PROVE  agent' \in [Plane -> AgentUpTo(a)]
  BY RetiredTyped DEF RevokeAgent

(* An ensure that is admitted goes behind the others.                       *)
LEMMA EnsureEffect ==
    ASSUME NEW a \in Nat, manager \in [Plane -> ManagerUpTo(a)],
           agent \in [Plane -> AgentUpTo(a)], NEW p \in Plane, NEW kind \in Opens,
           NEW version \in 0 .. a, RequestEnsure(p, kind, version)
    PROVE  /\ manager' \in [Plane -> ManagerUpTo(a)]
           /\ agent' \in [Plane -> AgentUpTo(a)]
           /\ SameHead(manager[p].queue, manager'[p].queue)
<1>1. CASE UNCHANGED <<manager, agent>>
  BY <1>1 DEF SameHead
<1>2. CASE /\ manager' = [manager EXCEPT ![p].known = version,
                                         ![p].queue = Append(@, Operation(kind, version))]
           /\ IF agent[p].admission < version THEN RevokeAgent(p) ELSE UNCHANGED agent
  <2> DEFINE r == Append(manager[p].queue, Operation(kind, version))
  <2>1. Operation(kind, version) \in OpUpTo(a)
    BY DEF Operation, OpUpTo, Opens
  <2>2. r \in Line(a) /\ SameHead(manager[p].queue, r)
    BY <2>1, LineTyped, AppendToLine
  <2>3. manager' = [manager EXCEPT ![p].known = version, ![p].queue = r]
    BY <1>2
  <2> HIDE DEF r
  <2>4. manager' \in [Plane -> ManagerUpTo(a)]
    BY <2>2, <2>3 DEF ManagerUpTo
  <2>5. SameHead(manager[p].queue, manager'[p].queue)
    BY <2>2, <2>3 DEF SameHead, ManagerUpTo
  <2> QED BY <1>2, <2>4, <2>5, RevokeAgentTyped
<1> QED BY <1>1, <1>2 DEF RequestEnsure

(* A suspend is known from then on, and goes behind the others.             *)
LEMMA SuspendEffect ==
    ASSUME NEW a \in Nat, manager \in [Plane -> ManagerUpTo(a)],
           agent \in [Plane -> AgentUpTo(a)], NEW p \in Plane,
           NEW version \in 0 .. a, RequestSuspend(p, version)
    PROVE  /\ manager' \in [Plane -> ManagerUpTo(a)]
           /\ agent' \in [Plane -> AgentUpTo(a)]
           /\ SameHead(manager[p].queue, manager'[p].queue)
<1>1. PICK r \in Line(a) : r = WithSuspend(p, "suspend", version) /\ SameHead(manager[p].queue, r)
  BY WithSuspendEffect DEF Suspends
<1>2. manager' = [manager EXCEPT ![p].queue = r, ![p].known = version]
  BY <1>1 DEF RequestSuspend
<1>3. manager' \in [Plane -> ManagerUpTo(a)]
  BY <1>1, <1>2 DEF ManagerUpTo
<1>4. SameHead(manager[p].queue, manager'[p].queue)
  BY <1>1, <1>2 DEF SameHead, ManagerUpTo
<1> QED BY <1>3, <1>4, RevokeAgentTyped DEF RequestSuspend

(* A pass that moves on keeps what it read.                                 *)
LEMMA PassToTyped ==
    ASSUME NEW a \in Nat, pass \in [Plane -> PassUpTo(a)], NEW p \in Plane,
           NEW s \in {"idle", "seen", "prepared", "suspending", "suspended", "disposing", "disposed"},
           PassTo(p, s)
    PROVE  pass' \in [Plane -> PassUpTo(a)]
<1>1. NoPass \in PassUpTo(a)
  BY DEF NoPass, PassUpTo, OrbState
<1>2. pass[p] \in PassUpTo(a)
  OBVIOUS
<1>3. [pass[p] EXCEPT !.step = s] \in PassUpTo(a)
  BY <1>2 DEF PassUpTo
<1> QED BY <1>1, <1>3 DEF PassTo

(* A newer admission of the orb leaves every copy typed.                    *)
LEMMA Grows ==
    ASSUME TypedPlanes, orb.admission \in Nat, orb'.admission \in Nat,
           orb.admission <= orb'.admission, UNCHANGED <<manager, agent>>,
           pass' \in [Plane -> PassUpTo(orb.admission)] \/ UNCHANGED pass
    PROVE  TypedPlanes'
  BY UpToGrows DEF TypedPlanes

(* The orb in another state, under an admission not before its own.         *)
LEMMA OrbMoves ==
    ASSUME TypedOrb, NEW s \in OrbState, NEW n \in Nat,
           orb' = [orb EXCEPT !.state = s, !.admission = n]
    PROVE  /\ orb'.state = s /\ orb'.admission = n /\ orb'.sealed = orb.sealed
           /\ orb' \in [state : OrbState, admission : Nat, sealed : BOOLEAN]
<1>1. orb \in [state : OrbState, admission : Nat, sealed : BOOLEAN]
  BY DEF TypedOrb
<1>2. orb' = [state |-> s, admission |-> n, sealed |-> orb.sealed]
  BY <1>1
<1> QED BY <1>1, <1>2

(* Every step keeps the types of the processes.                             *)
LEMMA TypedPlanesStep ==
    ASSUME TypedOrb, TypedLog, TypedPlanes, Next
    PROVE  TypedPlanes'
<1>0. DEFINE a == orb.admission
<1>a. a \in Nat /\ manager \in [Plane -> ManagerUpTo(a)] /\ agent \in [Plane -> AgentUpTo(a)]
        /\ pass \in [Plane -> PassUpTo(a)]
  BY DEF TypedOrb, TypedLog, TypedPlanes
<1>b. ASSUME orb'.admission = a, manager' \in [Plane -> ManagerUpTo(a)],
             agent' \in [Plane -> AgentUpTo(a)], pass' \in [Plane -> PassUpTo(a)]
      PROVE  TypedPlanes'
  BY <1>b DEF TypedPlanes
<1>1. CASE LeaseLapses
  BY <1>1, <1>a, <1>b DEF LeaseLapses
<1>2. CASE Stop
  BY <1>2, Grows DEF Stop, TypedOrb, TypedLog
<1>3. CASE Start
  BY <1>3, Grows DEF Start, TypedOrb, TypedLog
<1>4. CASE RequestArchive
  BY <1>4, Grows DEF RequestArchive, TypedOrb, TypedLog
<1>5. CASE RequestDeletion
  BY <1>5, Grows DEF RequestDeletion, TypedOrb, TypedLog
<1>6. ASSUME NEW p \in Plane, StartEnsure(p) PROVE TypedPlanes'
  <2>1. Pending(p) /\ UNCHANGED stored
    BY <1>6 DEF StartEnsure
  <2>2. ASSUME NEW b, EndOp(p, b), UNCHANGED agent PROVE TypedPlanes'
    BY <2>1, <2>2, <1>a, <1>b, EndOpEffect DEF stored
  <2>3. ASSUME agent' = [agent EXCEPT ![p] = Retired(@)], StepTo(p, "retire"), UNCHANGED pass PROVE TypedPlanes'
    BY <2>1, <2>3, <1>a, <1>b, StepToEffect, RetiredTyped DEF stored
  <2>4. ASSUME StepTo(p, "open"), UNCHANGED <<agent, pass>> PROVE TypedPlanes'
    BY <2>1, <2>4, <1>a, <1>b, StepToEffect DEF stored
  <2> QED BY <1>6, <2>2, <2>3, <2>4 DEF StartEnsure
<1>7. ASSUME NEW p \in Plane, StartSuspend(p) PROVE TypedPlanes'
  <2>1. Pending(p) /\ UNCHANGED stored
    BY <1>7 DEF StartSuspend
  <2>2. ASSUME NEW b, EndOp(p, b), UNCHANGED agent PROVE TypedPlanes'
    BY <2>1, <2>2, <1>a, <1>b, EndOpEffect DEF stored
  <2>3. ASSUME agent' = [agent EXCEPT ![p] = Retired(@)], StepTo(p, "abandon"), UNCHANGED pass PROVE TypedPlanes'
    BY <2>1, <2>3, <1>a, <1>b, StepToEffect, RetiredTyped DEF stored
  <2> QED BY <1>7, <2>2, <2>3 DEF StartSuspend
<1>8. ASSUME NEW p \in Plane, StartUnload(p) PROVE TypedPlanes'
  <2>1. Pending(p) /\ UNCHANGED stored
    BY <1>8 DEF StartUnload
  <2>2. ASSUME NEW b, EndOp(p, b), UNCHANGED agent PROVE TypedPlanes'
    BY <2>1, <2>2, <1>a, <1>b, EndOpEffect DEF stored
  <2>3. ASSUME agent' = [agent EXCEPT ![p] = Retired(@)], StepTo(p, "abandon"), UNCHANGED pass PROVE TypedPlanes'
    BY <2>1, <2>3, <1>a, <1>b, StepToEffect, RetiredTyped DEF stored
  <2> QED BY <1>8, <2>2, <2>3 DEF StartUnload
<1>9. ASSUME NEW p \in Plane, RetirementEnds(p) PROVE TypedPlanes'
  <2>1. Pending(p) /\ UNCHANGED stored /\ NoAgent \in AgentUpTo(a)
    BY <1>9, <1>a DEF RetirementEnds, AgentUpTo, NoAgent, Stage
  <2>2. agent' \in [Plane -> AgentUpTo(a)]
    BY <1>9, <2>1, <1>a DEF RetirementEnds
  <2>3. CASE StepTo(p, "open") /\ UNCHANGED pass
    BY <2>1, <2>2, <2>3, <1>a, <1>b, StepToEffect DEF stored
  <2>4. ASSUME NEW b, EndOp(p, b) PROVE TypedPlanes'
    BY <2>1, <2>2, <2>4, <1>a, <1>b, EndOpEffect DEF stored
  <2> QED BY <1>9, <2>3, <2>4 DEF RetirementEnds
<1>10. ASSUME NEW p \in Plane, Acquire(p) PROVE TypedPlanes'
  <2>1. Pending(p) /\ UNCHANGED orb /\ Running(p) \in OpUpTo(a)
    BY <1>10, <1>a, LineTyped DEF Acquire, Opening
  <2>2. ASSUME row' = Granted(p, Running(p).version), UNCHANGED <<manager, pass>>,
               agent' = [agent EXCEPT ![p] = [NoAgent EXCEPT !.stage = "opening",
                           !.fence = row'.fence, !.admission = Running(p).version,
                           !.paused = Running(p).kind = "read"]]
        PROVE  TypedPlanes'
    <3>1. row'.fence \in Nat /\ Running(p).version \in 0 .. a
      BY <2>1, <2>2 DEF Granted, TypedOrb, TypedLog, OpUpTo
    <3>2. [NoAgent EXCEPT !.stage = "opening", !.fence = row'.fence,
                          !.admission = Running(p).version,
                          !.paused = Running(p).kind = "read"] \in AgentUpTo(a)
      BY <3>1 DEF AgentUpTo, NoAgent, Stage
    <3> QED BY <2>1, <2>2, <3>2, <1>a, <1>b
  <2>3. ASSUME EndOp(p, FALSE), UNCHANGED agent PROVE TypedPlanes'
    BY <2>1, <2>3, <1>a, <1>b, EndOpEffect
  <2> QED BY <1>10, <2>2, <2>3 DEF Acquire
<1>11. ASSUME NEW p \in Plane, Publish(p) PROVE TypedPlanes'
  <2>1. Pending(p) /\ UNCHANGED orb
    BY <1>11 DEF Publish, Opening
  <2>2. PICK x \in AgentUpTo(a) : x = [agent[p] EXCEPT !.stage = "owned", !.accepting = TRUE]
    BY <1>a DEF AgentUpTo, Stage
  <2>3. CASE agent' = [agent EXCEPT ![p] = x] /\ EndOp(p, TRUE)
    BY <2>1, <2>2, <2>3, <1>a, <1>b, EndOpEffect
  <2>4. CASE agent' = [agent EXCEPT ![p] = Retired(x)] /\ StepTo(p, "abandon") /\ UNCHANGED pass
    BY <2>1, <2>2, <2>4, <1>a, <1>b, StepToEffect, RetiredTyped
  <2> QED BY <1>11, <2>2, <2>3, <2>4 DEF Publish
<1>12. ASSUME NEW p \in Plane, OpenFails(p) PROVE TypedPlanes'
  <2>1. Pending(p) /\ UNCHANGED orb /\ EndOp(p, FALSE) /\ agent' = [agent EXCEPT ![p] = NoAgent]
    BY <1>12 DEF OpenFails, Opening
  <2>2. NoAgent \in AgentUpTo(a)
    BY <1>a DEF AgentUpTo, NoAgent, Stage
  <2> QED BY <2>1, <2>2, <1>a, <1>b, EndOpEffect
<1>13. ASSUME NEW p \in Plane, HeartbeatFails(p) PROVE TypedPlanes'
  BY <1>13, <1>a, <1>b, RetiredTyped DEF HeartbeatFails, stored
<1>14. ASSUME NEW p \in Plane, BeginDrain(p) PROVE TypedPlanes'
  <2>1. agent[p] \in AgentUpTo(a) /\ UNCHANGED <<orb, manager, pass>>
    BY <1>14, <1>a DEF BeginDrain, stored
  <2>2. ASSUME NEW g \in BOOLEAN, NEW e \in BOOLEAN,
               agent' = [agent EXCEPT ![p].stage = "draining", ![p].draining = g, ![p].broken = e]
        PROVE  agent' \in [Plane -> AgentUpTo(a)]
    BY <2>1, <2>2, <1>a DEF AgentUpTo, Stage
  <2>3. ASSUME agent' = [agent EXCEPT ![p].stage = "draining", ![p].broken = TRUE]
        PROVE  agent' \in [Plane -> AgentUpTo(a)]
    BY <2>1, <2>3, <1>a DEF AgentUpTo, Stage
  <2>4. Guard(p, TRUE) \in BOOLEAN /\ (orb.state = "gone") \in BOOLEAN
    BY DEF Guard
  <2>5. agent' \in [Plane -> AgentUpTo(a)]
    BY <1>14, <2>2, <2>3, <2>4 DEF BeginDrain
  <2> QED BY <2>1, <2>5, <1>a, <1>b
<1>15. ASSUME NEW p \in Plane, Release(p) PROVE TypedPlanes'
  <2>1. agent[p] \in AgentUpTo(a) /\ UNCHANGED <<orb, manager, pass>>
    BY <1>15, <1>a DEF Release
  <2>2. Ended(agent[p], TRUE) \in AgentUpTo(a) /\ Ended(agent[p], FALSE) \in AgentUpTo(a)
    BY <2>1 DEF AgentUpTo, Stage, Ended
  <2>3. \E b \in BOOLEAN : agent' = [agent EXCEPT ![p] = Ended(agent[p], b)]
    BY <1>15, <2>1 DEF Release, AgentUpTo
  <2> QED BY <2>1, <2>2, <2>3, <1>a, <1>b
<1>16. ASSUME NEW p \in Plane, StartTurn(p) PROVE TypedPlanes'
  BY <1>16, <1>a, <1>b DEF StartTurn
<1>17. ASSUME NEW p \in Plane, FinishTurn(p) PROVE TypedPlanes'
  BY <1>17, <1>a, <1>b DEF FinishTurn
<1>18. ASSUME NEW p \in Plane, Settle(p) PROVE TypedPlanes'
  BY <1>18, <1>a, <1>b DEF Settle
<1>19. ASSUME NEW p \in Plane, ReadOrb(p) PROVE TypedPlanes'
  <2>1. [step |-> "seen", state |-> orb.state, admission |-> orb.admission] \in PassUpTo(a)
    BY <1>a DEF PassUpTo, TypedOrb, TypedLog
  <2> QED BY <1>19, <2>1, <1>a, <1>b DEF ReadOrb, stored
<1>20. ASSUME NEW p \in Plane, ReconcileAgent(p) PROVE TypedPlanes'
  <2>1. /\ pass[p].admission \in 0 .. a /\ UNCHANGED stored /\ pass' \in [Plane -> PassUpTo(a)]
    BY <1>20, <1>a, PassToTyped DEF ReconcileAgent, PassUpTo
  <2>2. ASSUME RequestEnsure(p, "ensure", pass[p].admission) PROVE TypedPlanes'
    BY <2>1, <2>2, <1>a, <1>b, EnsureEffect DEF stored, Opens
  <2>3. ASSUME UNCHANGED <<manager, agent>> PROVE TypedPlanes'
    BY <2>1, <2>3, <1>a, <1>b DEF stored
  <2>4. ASSUME RequestSuspend(p, pass[p].admission) PROVE TypedPlanes'
    BY <2>1, <2>4, <1>a, <1>b, SuspendEffect DEF stored
  <2> QED BY <1>20, <2>2, <2>3, <2>4 DEF ReconcileAgent
<1>21. ASSUME NEW p \in Plane, UnloadIdle(p) PROVE TypedPlanes'
  <2>1. /\ pass[p].admission \in 0 .. a /\ UNCHANGED <<stored, agent>> /\ pass' \in [Plane -> PassUpTo(a)]
    BY <1>21, <1>a, PassToTyped DEF UnloadIdle, PassUpTo
  <2>2. PICK r \in Line(a) : r = Append(manager[p].queue, Operation("unload", pass[p].admission))
    <3>1. Operation("unload", pass[p].admission) \in OpUpTo(a)
      BY <2>1 DEF Operation, OpUpTo
    <3> QED BY <3>1, <1>a, LineTyped, AppendToLine
  <2>3. manager' = [manager EXCEPT ![p].queue = r]
    BY <1>21, <2>2 DEF UnloadIdle
  <2>4. manager' \in [Plane -> ManagerUpTo(a)]
    BY <2>2, <2>3, <1>a DEF ManagerUpTo
  <2> QED BY <2>1, <2>4, <1>a, <1>b DEF stored
<1>22. ASSUME NEW p \in Plane, PrepareArchive(p) PROVE TypedPlanes'
  <2>1. /\ pass[p].admission \in 0 .. a /\ UNCHANGED stored /\ pass' \in [Plane -> PassUpTo(a)]
    BY <1>22, <1>a, PassToTyped DEF PrepareArchive, SuspendForArchive, PassUpTo
  <2>3. ASSUME UNCHANGED <<manager, agent>> PROVE TypedPlanes'
    BY <2>1, <2>3, <1>a, <1>b DEF stored
  <2>4. ASSUME RequestSuspend(p, pass[p].admission) PROVE TypedPlanes'
    BY <2>1, <2>4, <1>a, <1>b, SuspendEffect DEF stored
  <2> QED BY <1>22, <2>3, <2>4 DEF PrepareArchive, SuspendForArchive
<1>23. ASSUME NEW p \in Plane, SuspendArchived(p) PROVE TypedPlanes'
  <2>1. /\ pass[p].admission \in 0 .. a /\ UNCHANGED stored /\ pass' \in [Plane -> PassUpTo(a)]
    BY <1>23, <1>a, PassToTyped DEF SuspendArchived, SuspendForArchive, PassUpTo
  <2>3. ASSUME UNCHANGED <<manager, agent>> PROVE TypedPlanes'
    BY <2>1, <2>3, <1>a, <1>b DEF stored
  <2>4. ASSUME RequestSuspend(p, pass[p].admission) PROVE TypedPlanes'
    BY <2>1, <2>4, <1>a, <1>b, SuspendEffect DEF stored
  <2> QED BY <1>23, <2>3, <2>4 DEF SuspendArchived, SuspendForArchive
<1>24. ASSUME NEW p \in Plane, SealArchive(p) PROVE TypedPlanes'
  <2>1. orb'.admission = a /\ UNCHANGED <<manager, agent>> /\ PassTo(p, "idle")
    BY <1>24 DEF SealArchive, TypedOrb, TypedLog
  <2> QED BY <2>1, <1>a, <1>b, PassToTyped
<1>25. ASSUME NEW p \in Plane, DisposeAgent(p) PROVE TypedPlanes'
  <2>1. UNCHANGED stored /\ pass' \in [Plane -> PassUpTo(a)]
    BY <1>25, <1>a, PassToTyped DEF DisposeAgent
  <2>2. PICK r \in Line(a) : r = WithSuspend(p, "close", 0)
    BY <1>a, WithSuspendEffect DEF Suspends
  <2>3. manager' = [manager EXCEPT ![p].disposed = TRUE, ![p].queue = r]
    BY <1>25, <2>2 DEF DisposeAgent
  <2>4. manager' \in [Plane -> ManagerUpTo(a)]
    BY <2>2, <2>3, <1>a DEF ManagerUpTo
  <2>5. agent' \in [Plane -> AgentUpTo(a)]
    BY <1>25, <1>a, RevokeAgentTyped DEF DisposeAgent
  <2> QED BY <2>1, <2>4, <2>5, <1>a, <1>b DEF stored
<1>26. ASSUME NEW p \in Plane, FinalizeDisposal(p) PROVE TypedPlanes'
  <2>1. /\ orb'.admission \in Nat /\ a <= orb'.admission /\ UNCHANGED <<manager, agent>>
        /\ PassTo(p, "idle")
    <3>1. \/ orb' = [orb EXCEPT !.state = "gone"]
          \/ orb' = [orb EXCEPT !.state = "archived", !.admission = @ + 1]
          \/ orb' = orb
      BY <1>26 DEF FinalizeDisposal
    <3>2. orb'.admission \in Nat /\ a <= orb'.admission
      <4>1. CASE orb' = [orb EXCEPT !.state = "gone"]
        BY <4>1 DEF TypedOrb, TypedLog
      <4>2. CASE orb' = [orb EXCEPT !.state = "archived", !.admission = @ + 1]
        BY <4>2 DEF TypedOrb, TypedLog
      <4> QED BY <3>1, <4>1, <4>2 DEF TypedOrb, TypedLog
    <3>3. UNCHANGED <<manager, agent>> /\ PassTo(p, "idle")
      BY <1>26 DEF FinalizeDisposal
    <3> QED BY <3>2, <3>3
  <2>2. pass' \in [Plane -> PassUpTo(a)]
    BY <2>1, <1>a, PassToTyped
  <2> QED BY <2>1, <2>2, <1>a, Grows
<1>27. ASSUME NEW p \in Plane, PassGivesUp(p) PROVE TypedPlanes'
  BY <1>27, <1>a, <1>b, PassToTyped DEF PassGivesUp, stored
<1>28. ASSUME NEW p \in Plane, Shutdown(p) PROVE TypedPlanes'
  <2>1. UNCHANGED stored /\ pass' = [pass EXCEPT ![p] = NoPass] /\ NoPass \in PassUpTo(a)
    BY <1>28, <1>a DEF Shutdown, NoPass, PassUpTo, OrbState
  <2>2. PICK r \in Line(a) : r = WithSuspend(p, "close", 0)
    BY <1>a, WithSuspendEffect DEF Suspends
  <2>3. manager' = [manager EXCEPT ![p].closing = TRUE, ![p].queue = r]
    BY <1>28, <2>2 DEF Shutdown
  <2>4. manager' \in [Plane -> ManagerUpTo(a)]
    BY <2>2, <2>3, <1>a DEF ManagerUpTo
  <2>5. agent' \in [Plane -> AgentUpTo(a)]
    BY <1>28, <1>a, RevokeAgentTyped DEF Shutdown
  <2> QED BY <2>1, <2>4, <2>5, <1>a, <1>b DEF stored
<1>29. ASSUME NEW p \in Plane, Exit(p) PROVE TypedPlanes'
  <2>1. NoManager \in ManagerUpTo(a) /\ NoAgent \in AgentUpTo(a) /\ NoPass \in PassUpTo(a)
    BY <1>a, EmptySeq DEF NoManager, ManagerUpTo, Line, NoAgent, AgentUpTo, Stage, NoPass, PassUpTo, OrbState
  <2> QED BY <1>29, <2>1, <1>a, <1>b DEF Exit
<1>30. ASSUME NEW p \in Plane, Consult(p) PROVE TypedPlanes'
  <2>1. UNCHANGED <<stored, pass>> /\ \E k \in Opens : RequestEnsure(p, k, orb.admission)
    BY <1>30 DEF Consult, Opens
  <2> QED BY <2>1, <1>a, <1>b, EnsureEffect DEF stored
<1> QED BY <1>1, <1>2, <1>3, <1>4, <1>5, <1>6, <1>7, <1>8, <1>9, <1>10, <1>11, <1>12, <1>13, <1>14, <1>15, <1>16, <1>17, <1>18, <1>19, <1>20, <1>21, <1>22, <1>23, <1>24, <1>25, <1>26, <1>27, <1>28, <1>29, <1>30 DEF Next, Environment, ManagerStep, AgentStep, TurnStep, PassStep

(* The orb's state moves on under the ceiling of its admissions.            *)
LEMMA OrbSteps ==
    ASSUME TypedOrb, Ceiling, Next
    PROVE  TypedOrb' /\ Ceiling' /\ orb.admission <= orb'.admission
<1>a. MaxEvents \in Nat
  BY AgentAssumption
<1>b. ASSUME UNCHANGED orb, work' \in BOOLEAN, UNCHANGED events \/ Event
      PROVE  TypedOrb' /\ Ceiling' /\ orb.admission <= orb'.admission
  BY <1>a, <1>b DEF TypedOrb, Ceiling, Event
<1>1. CASE LeaseLapses
  BY <1>1, <1>b DEF LeaseLapses, TypedOrb
<1>2. CASE Stop
  <2>1. orb' = [orb EXCEPT !.state = "stopped", !.admission = orb.admission + 1] /\ work' = work
    BY <1>2 DEF Stop, TypedOrb
  <2>2. orb.admission \in Nat /\ orb.admission + 1 \in Nat /\ "stopped" \in OrbState
    BY DEF TypedOrb, OrbState
  <2>3. /\ orb'.state = "stopped" /\ orb'.admission = orb.admission + 1
        /\ orb' \in [state : OrbState, admission : Nat, sealed : BOOLEAN]
    BY <2>1, <2>2, OrbMoves
  <2> QED BY <1>2, <1>a, <2>1, <2>2, <2>3 DEF Stop, TypedOrb, Ceiling, OrbState, Event
<1>3. CASE Start
  <2>1. orb' = [orb EXCEPT !.state = "live", !.admission = orb.admission + 1] /\ work' = work
    BY <1>3 DEF Start, TypedOrb
  <2>2. orb.admission \in Nat /\ orb.admission + 1 \in Nat /\ "live" \in OrbState
    BY DEF TypedOrb, OrbState
  <2>3. /\ orb'.state = "live" /\ orb'.admission = orb.admission + 1
        /\ orb' \in [state : OrbState, admission : Nat, sealed : BOOLEAN]
    BY <2>1, <2>2, OrbMoves
  <2> QED BY <1>3, <1>a, <2>1, <2>2, <2>3 DEF Start, TypedOrb, Ceiling, OrbState
<1>4. CASE RequestArchive
  <2>1. orb' = [orb EXCEPT !.state = "archiving", !.admission = orb.admission] /\ work' = work
    BY <1>4 DEF RequestArchive, TypedOrb
  <2>2. orb.admission \in Nat /\ orb.admission \in Nat /\ "archiving" \in OrbState
    BY DEF TypedOrb, OrbState
  <2>3. /\ orb'.state = "archiving" /\ orb'.admission = orb.admission
        /\ orb' \in [state : OrbState, admission : Nat, sealed : BOOLEAN]
    BY <2>1, <2>2, OrbMoves
  <2> QED BY <1>4, <1>a, <2>1, <2>2, <2>3 DEF RequestArchive, TypedOrb, Ceiling, OrbState
<1>5. CASE RequestDeletion
  <2>1. orb' = [orb EXCEPT !.state = "deleting", !.admission = orb.admission + 1] /\ work' = work
    BY <1>5 DEF RequestDeletion, TypedOrb
  <2>2. orb.admission \in Nat /\ orb.admission + 1 \in Nat /\ "deleting" \in OrbState
    BY DEF TypedOrb, OrbState
  <2>3. /\ orb'.state = "deleting" /\ orb'.admission = orb.admission + 1
        /\ orb' \in [state : OrbState, admission : Nat, sealed : BOOLEAN]
    BY <2>1, <2>2, OrbMoves
  <2> QED BY <1>5, <1>a, <2>1, <2>2, <2>3 DEF RequestDeletion, TypedOrb, Ceiling, OrbState
<1>6. ASSUME NEW p \in Plane, StartEnsure(p) PROVE TypedOrb' /\ Ceiling' /\ orb.admission <= orb'.admission
  BY <1>6, <1>b DEF StartEnsure, TypedOrb, stored
<1>7. ASSUME NEW p \in Plane, StartSuspend(p) PROVE TypedOrb' /\ Ceiling' /\ orb.admission <= orb'.admission
  BY <1>7, <1>b DEF StartSuspend, TypedOrb, stored
<1>8. ASSUME NEW p \in Plane, StartUnload(p) PROVE TypedOrb' /\ Ceiling' /\ orb.admission <= orb'.admission
  BY <1>8, <1>b DEF StartUnload, TypedOrb, stored
<1>9. ASSUME NEW p \in Plane, RetirementEnds(p) PROVE TypedOrb' /\ Ceiling' /\ orb.admission <= orb'.admission
  BY <1>9, <1>b DEF RetirementEnds, TypedOrb, stored
<1>10. ASSUME NEW p \in Plane, Acquire(p) PROVE TypedOrb' /\ Ceiling' /\ orb.admission <= orb'.admission
  BY <1>10, <1>b DEF Acquire, TypedOrb
<1>11. ASSUME NEW p \in Plane, Publish(p) PROVE TypedOrb' /\ Ceiling' /\ orb.admission <= orb'.admission
  BY <1>11, <1>b DEF Publish, TypedOrb
<1>12. ASSUME NEW p \in Plane, OpenFails(p) PROVE TypedOrb' /\ Ceiling' /\ orb.admission <= orb'.admission
  BY <1>12, <1>b DEF OpenFails, TypedOrb
<1>13. ASSUME NEW p \in Plane, HeartbeatFails(p) PROVE TypedOrb' /\ Ceiling' /\ orb.admission <= orb'.admission
  BY <1>13, <1>b DEF HeartbeatFails, TypedOrb, stored
<1>14. ASSUME NEW p \in Plane, BeginDrain(p) PROVE TypedOrb' /\ Ceiling' /\ orb.admission <= orb'.admission
  BY <1>14, <1>b DEF BeginDrain, TypedOrb, stored
<1>15. ASSUME NEW p \in Plane, Release(p) PROVE TypedOrb' /\ Ceiling' /\ orb.admission <= orb'.admission
  BY <1>15, <1>b DEF Release, TypedOrb
<1>16. ASSUME NEW p \in Plane, StartTurn(p) PROVE TypedOrb' /\ Ceiling' /\ orb.admission <= orb'.admission
  BY <1>16, <1>b DEF StartTurn, TypedOrb
<1>17. ASSUME NEW p \in Plane, FinishTurn(p) PROVE TypedOrb' /\ Ceiling' /\ orb.admission <= orb'.admission
  BY <1>17, <1>b DEF FinishTurn, TypedOrb
<1>18. ASSUME NEW p \in Plane, Settle(p) PROVE TypedOrb' /\ Ceiling' /\ orb.admission <= orb'.admission
  BY <1>18, <1>b DEF Settle, TypedOrb
<1>19. ASSUME NEW p \in Plane, ReadOrb(p) PROVE TypedOrb' /\ Ceiling' /\ orb.admission <= orb'.admission
  BY <1>19, <1>b DEF ReadOrb, TypedOrb, stored
<1>20. ASSUME NEW p \in Plane, ReconcileAgent(p) PROVE TypedOrb' /\ Ceiling' /\ orb.admission <= orb'.admission
  BY <1>20, <1>b DEF ReconcileAgent, TypedOrb, stored
<1>21. ASSUME NEW p \in Plane, UnloadIdle(p) PROVE TypedOrb' /\ Ceiling' /\ orb.admission <= orb'.admission
  BY <1>21, <1>b DEF UnloadIdle, TypedOrb, stored
<1>22. ASSUME NEW p \in Plane, PrepareArchive(p) PROVE TypedOrb' /\ Ceiling' /\ orb.admission <= orb'.admission
  BY <1>22, <1>b DEF PrepareArchive, TypedOrb, stored
<1>23. ASSUME NEW p \in Plane, SuspendArchived(p) PROVE TypedOrb' /\ Ceiling' /\ orb.admission <= orb'.admission
  BY <1>23, <1>b DEF SuspendArchived, TypedOrb, stored
<1>24. ASSUME NEW p \in Plane, SealArchive(p) PROVE TypedOrb' /\ Ceiling' /\ orb.admission <= orb'.admission
  <2>1. work' \in BOOLEAN /\ UNCHANGED events
    BY <1>24 DEF SealArchive, TypedOrb
  <2>2. orb' = orb \/ orb' = [orb EXCEPT !.sealed = TRUE]
    BY <1>24 DEF SealArchive
  <2>3. /\ orb'.state = orb.state /\ orb'.admission = orb.admission
        /\ orb' \in [state : OrbState, admission : Nat, sealed : BOOLEAN]
    BY <2>2 DEF TypedOrb
  <2> QED BY <2>1, <2>3 DEF TypedOrb, Ceiling
<1>25. ASSUME NEW p \in Plane, DisposeAgent(p) PROVE TypedOrb' /\ Ceiling' /\ orb.admission <= orb'.admission
  BY <1>25, <1>b DEF DisposeAgent, TypedOrb, stored
<1>26. ASSUME NEW p \in Plane, FinalizeDisposal(p) PROVE TypedOrb' /\ Ceiling' /\ orb.admission <= orb'.admission
  <2>1. UNCHANGED events /\ work' \in BOOLEAN
    BY <1>26 DEF FinalizeDisposal, TypedOrb
  <2>2. orb.admission \in Nat /\ orb.admission + 1 \in Nat /\ {"gone", "archived"} \subseteq OrbState
    BY DEF TypedOrb, OrbState
  <2>3. CASE orb' = orb
    BY <2>1, <2>3, <1>b
  <2>4. CASE orb.state = "deleting" /\ orb' = [orb EXCEPT !.state = "gone", !.admission = orb.admission]
    <3>1. /\ orb'.state = "gone" /\ orb'.admission = orb.admission
          /\ orb' \in [state : OrbState, admission : Nat, sealed : BOOLEAN]
      BY <2>2, <2>4, OrbMoves
    <3> QED BY <2>1, <2>2, <2>4, <3>1 DEF TypedOrb, Ceiling
  <2>5. CASE orb.state = "archiving" /\ orb' = [orb EXCEPT !.state = "archived", !.admission = orb.admission + 1]
    <3>1. /\ orb'.state = "archived" /\ orb'.admission = orb.admission + 1
          /\ orb' \in [state : OrbState, admission : Nat, sealed : BOOLEAN]
      BY <2>2, <2>5, OrbMoves
    <3> QED BY <2>1, <2>2, <2>5, <3>1 DEF TypedOrb, Ceiling
  <2>6. \/ orb' = orb
        \/ orb.state = "deleting" /\ orb' = [orb EXCEPT !.state = "gone", !.admission = orb.admission]
        \/ orb.state = "archiving" /\ orb' = [orb EXCEPT !.state = "archived", !.admission = orb.admission + 1]
    BY <1>26 DEF FinalizeDisposal, TypedOrb
  <2> QED BY <2>6, <2>3, <2>4, <2>5
<1>27. ASSUME NEW p \in Plane, PassGivesUp(p) PROVE TypedOrb' /\ Ceiling' /\ orb.admission <= orb'.admission
  BY <1>27, <1>b DEF PassGivesUp, TypedOrb, stored
<1>28. ASSUME NEW p \in Plane, Shutdown(p) PROVE TypedOrb' /\ Ceiling' /\ orb.admission <= orb'.admission
  BY <1>28, <1>b DEF Shutdown, TypedOrb, stored
<1>29. ASSUME NEW p \in Plane, Exit(p) PROVE TypedOrb' /\ Ceiling' /\ orb.admission <= orb'.admission
  BY <1>29, <1>b DEF Exit, TypedOrb
<1>30. ASSUME NEW p \in Plane, Consult(p) PROVE TypedOrb' /\ Ceiling' /\ orb.admission <= orb'.admission
  BY <1>30, <1>b DEF Consult, TypedOrb, stored
<1> QED BY <1>1, <1>2, <1>3, <1>4, <1>5, <1>6, <1>7, <1>8, <1>9, <1>10, <1>11, <1>12, <1>13, <1>14, <1>15, <1>16, <1>17, <1>18, <1>19, <1>20, <1>21, <1>22, <1>23, <1>24, <1>25, <1>26, <1>27, <1>28, <1>29, <1>30 DEF Next, Environment, ManagerStep, AgentStep, TurnStep, PassStep

--------------------------------------------------------------------------------
(* Every step, as the row and the log see it. *)

(* One agent that keeps its term, or goes, disturbs no other.               *)
LEMMA OneKept ==
    ASSUME TypedPlanes, NEW p \in Plane, NEW x, agent' = [agent EXCEPT ![p] = x],
           \/ x = NoAgent
           \/ /\ x.fence = agent[p].fence /\ x.admission = agent[p].admission
              /\ x.stage = "none" <=> agent[p].stage = "none"
    PROVE  TermsKept
  BY DEF TypedPlanes, TermsKept

(* Revoking and retiring keep the term.                                     *)
LEMMA RetiredKept ==
    ASSUME NEW a \in Nat, NEW x \in AgentUpTo(a)
    PROVE  /\ Revoked(x).fence = x.fence /\ Revoked(x).admission = x.admission
           /\ Revoked(x).stage = x.stage
           /\ Closing(x).fence = x.fence /\ Closing(x).admission = x.admission
           /\ Closing(x).stage = "none" <=> x.stage = "none"
           /\ Retired(x).fence = x.fence /\ Retired(x).admission = x.admission
           /\ Retired(x).stage = "none" <=> x.stage = "none"
  BY DEF AgentUpTo, Revoked, Closing, Retired, Stage

(* Agents that do not change keep their terms.                              *)
LEMMA AllKept == ASSUME UNCHANGED agent PROVE TermsKept
  BY DEF TermsKept

(* The agents keep their terms when one of them is revoked.                 *)
LEMMA RevokeKept ==
    ASSUME TypedOrb, TypedPlanes, NEW p \in Plane, RevokeAgent(p)
    PROVE  TermsKept
<1>1. orb.admission \in Nat /\ agent[p] \in AgentUpTo(orb.admission)
  BY DEF TypedOrb, TypedPlanes
<1>2. CASE agent' = [agent EXCEPT ![p] = Revoked(@)]
  BY <1>1, <1>2, OneKept, RetiredKept
<1> QED BY <1>2, AllKept DEF RevokeAgent

(* Who may write now may also write while it drains.                        *)
LEMMA GuardDrains ==
    ASSUME NEW p \in Plane, NEW d \in BOOLEAN, Guard(p, d)
    PROVE  Guard(p, TRUE)
  BY DEF Guard

(* Every step is one of a few kinds, as the row and the log see it.         *)
LEMMA TermSteps ==
    ASSUME TypedOrb, TypedPlanes, Next
    PROVE  TermStep
<1>a. orb.admission \in Nat /\ \A p \in Plane : agent[p] \in AgentUpTo(orb.admission)
  BY DEF TypedOrb, TypedPlanes
<1>1. CASE LeaseLapses
  BY <1>1, AllKept DEF LeaseLapses, TermStep, LapseStep
<1>2. CASE Stop
  <2>1. orb' = [orb EXCEPT !.state = "stopped", !.admission = orb.admission + 1]
    BY <1>2 DEF Stop, TypedOrb
  <2>2. orb.admission <= orb.admission + 1 /\ orb.admission + 1 \in Nat /\ "stopped" \in OrbState
    BY <1>a DEF OrbState
  <2>3. orb'.state = "stopped" /\ orb'.admission = orb.admission + 1 /\ orb'.sealed = orb.sealed
    BY <2>1, <2>2, OrbMoves
  <2>4. orb.state \in OrbState
    BY DEF TypedOrb
  <2> QED BY <1>2, <2>2, <2>3, <2>4 DEF Stop, TermStep, CommandStep
<1>3. CASE Start
  <2>1. orb' = [orb EXCEPT !.state = "live", !.admission = orb.admission + 1]
    BY <1>3 DEF Start, TypedOrb
  <2>2. orb.admission <= orb.admission + 1 /\ orb.admission + 1 \in Nat /\ "live" \in OrbState
    BY <1>a DEF OrbState
  <2>3. orb'.state = "live" /\ orb'.admission = orb.admission + 1 /\ orb'.sealed = orb.sealed
    BY <2>1, <2>2, OrbMoves
  <2>4. orb.state \in OrbState
    BY DEF TypedOrb
  <2> QED BY <1>3, <2>2, <2>3, <2>4 DEF Start, TermStep, CommandStep
<1>4. CASE RequestArchive
  <2>1. orb' = [orb EXCEPT !.state = "archiving", !.admission = orb.admission]
    BY <1>4 DEF RequestArchive, TypedOrb
  <2>2. orb.admission <= orb.admission /\ orb.admission \in Nat /\ "archiving" \in OrbState
    BY <1>a DEF OrbState
  <2>3. orb'.state = "archiving" /\ orb'.admission = orb.admission /\ orb'.sealed = orb.sealed
    BY <2>1, <2>2, OrbMoves
  <2>4. orb.state \in OrbState
    BY DEF TypedOrb
  <2> QED BY <1>4, <2>2, <2>3, <2>4 DEF RequestArchive, TermStep, CommandStep
<1>5. CASE RequestDeletion
  <2>1. orb' = [orb EXCEPT !.state = "deleting", !.admission = orb.admission + 1]
    BY <1>5 DEF RequestDeletion, TypedOrb
  <2>2. orb.admission <= orb.admission + 1 /\ orb.admission + 1 \in Nat /\ "deleting" \in OrbState
    BY <1>a DEF OrbState
  <2>3. orb'.state = "deleting" /\ orb'.admission = orb.admission + 1 /\ orb'.sealed = orb.sealed
    BY <2>1, <2>2, OrbMoves
  <2>4. orb.state \in OrbState
    BY DEF TypedOrb
  <2> QED BY <1>5, <2>2, <2>3, <2>4 DEF RequestDeletion, TermStep, CommandStep
<1>6. ASSUME NEW p \in Plane, StartEnsure(p) PROVE TermStep
  <2>1. UNCHANGED agent \/ agent' = [agent EXCEPT ![p] = Retired(@)]
    BY <1>6 DEF StartEnsure
  <2>2. TermsKept
    BY <1>a, <2>1, OneKept, AllKept, RetiredKept
  <2> QED BY <1>6, <2>2 DEF StartEnsure, stored, TermStep, QuietStep
<1>7. ASSUME NEW p \in Plane, StartSuspend(p) PROVE TermStep
  <2>1. UNCHANGED agent \/ agent' = [agent EXCEPT ![p] = Retired(@)]
    BY <1>7 DEF StartSuspend
  <2>2. TermsKept
    BY <1>a, <2>1, OneKept, AllKept, RetiredKept
  <2> QED BY <1>7, <2>2 DEF StartSuspend, stored, TermStep, QuietStep
<1>8. ASSUME NEW p \in Plane, StartUnload(p) PROVE TermStep
  <2>1. UNCHANGED agent \/ agent' = [agent EXCEPT ![p] = Retired(@)]
    BY <1>8 DEF StartUnload
  <2>2. TermsKept
    BY <1>a, <2>1, OneKept, AllKept, RetiredKept
  <2> QED BY <1>8, <2>2 DEF StartUnload, stored, TermStep, QuietStep
<1>9. ASSUME NEW p \in Plane, RetirementEnds(p) PROVE TermStep
  <2>1. TermsKept
    BY <1>9, OneKept, AllKept DEF RetirementEnds
  <2> QED BY <1>9, <2>1 DEF RetirementEnds, stored, TermStep, QuietStep
<1>10. ASSUME NEW p \in Plane, Acquire(p) PROVE TermStep
  <2>1. UNCHANGED <<orb, last>> /\ Running(p).version \in 0 .. orb.admission
    BY <1>10, <1>a, LineTyped DEF Acquire, Opening, TypedPlanes, OpUpTo
  <2>2. CASE UNCHANGED <<row, agent>>
    BY <2>1, <2>2, AllKept DEF TermStep, QuietStep
  <2>3. CASE /\ MayAcquire(p, Running(p).version) /\ row' = Granted(p, Running(p).version)
             /\ UNCHANGED agent
    BY <2>1, <2>3, AllKept DEF TermStep, GrantStep
  <2>4. CASE /\ MayAcquire(p, Running(p).version) /\ row' = Granted(p, Running(p).version)
             /\ agent' = [agent EXCEPT ![p] = [NoAgent EXCEPT !.stage = "opening",
                           !.fence = row'.fence, !.admission = Running(p).version,
                           !.paused = Running(p).kind = "read"]]
    <3>1. row'.fence = row.fence + 1
      BY <2>4 DEF Granted
    <3>2. /\ agent'[p].fence = row.fence + 1 /\ agent'[p].admission = Running(p).version
          /\ agent'[p].stage # "none" /\ \A q \in Plane \ {p} : agent'[q] = agent[q]
      BY <2>4, <3>1 DEF TypedPlanes, NoAgent
    <3> QED BY <2>1, <2>4, <3>2 DEF TermStep, GrantStep
  <2> QED BY <1>10, <2>2, <2>3, <2>4 DEF Acquire
<1>11. ASSUME NEW p \in Plane, Publish(p) PROVE TermStep
  <2>1. PICK x \in AgentUpTo(orb.admission) : x = [agent[p] EXCEPT !.stage = "owned", !.accepting = TRUE]
    BY <1>a DEF AgentUpTo, Stage
  <2>2. x.fence = agent[p].fence /\ x.admission = agent[p].admission /\ x.stage = "owned"
        /\ agent[p].stage = "opening"
    BY <1>11, <1>a, <2>1 DEF Publish, AgentUpTo
  <2>3. agent' = [agent EXCEPT ![p] = x] \/ agent' = [agent EXCEPT ![p] = Retired(x)]
    BY <1>11, <2>1 DEF Publish
  <2>4. TermsKept
    BY <1>a, <2>2, <2>3, OneKept, RetiredKept
  <2> QED BY <1>11, <2>2, <2>4, GuardDrains DEF Publish, TermStep, WriteStep
<1>12. ASSUME NEW p \in Plane, OpenFails(p) PROVE TermStep
  <2>1. TermsKept
    BY <1>12, OneKept DEF OpenFails
  <2> QED BY <1>12, <2>1 DEF OpenFails, TermStep, ReleaseStep, QuietStep
<1>13. ASSUME NEW p \in Plane, HeartbeatFails(p) PROVE TermStep
  <2>1. TermsKept
    BY <1>13, <1>a, OneKept, RetiredKept DEF HeartbeatFails
  <2> QED BY <1>13, <2>1 DEF HeartbeatFails, stored, TermStep, QuietStep
<1>14. ASSUME NEW p \in Plane, BeginDrain(p) PROVE TermStep
  <2>1. ASSUME NEW g, NEW e, agent[p].stage = "closing",
               \/ agent' = [agent EXCEPT ![p].stage = "draining", ![p].draining = g, ![p].broken = e]
               \/ agent' = [agent EXCEPT ![p].stage = "draining", ![p].broken = e]
        PROVE  TermsKept
    BY <1>a, <2>1 DEF TypedPlanes, TermsKept, AgentUpTo
  <2>2. TermsKept
    BY <1>14, <2>1 DEF BeginDrain
  <2> QED BY <1>14, <2>2 DEF BeginDrain, stored, TermStep, QuietStep
<1>15. ASSUME NEW p \in Plane, Release(p) PROVE TermStep
  <2>1. agent[p].stage = "draining" /\ \E b \in BOOLEAN : agent' = [agent EXCEPT ![p] = Ended(agent[p], b)]
    BY <1>15, <1>a DEF Release, AgentUpTo
  <2>2. \A b \in BOOLEAN : /\ Ended(agent[p], b).fence = agent[p].fence
                          /\ Ended(agent[p], b).admission = agent[p].admission
                          /\ Ended(agent[p], b).stage # "none"
    BY <1>a DEF Ended, AgentUpTo
  <2>3. TermsKept
    BY <2>1, <2>2, OneKept
  <2> QED BY <1>15, <2>3 DEF Release, TermStep, ReleaseStep, QuietStep
<1>16. ASSUME NEW p \in Plane, StartTurn(p) PROVE TermStep
  BY <1>16, AllKept, GuardDrains DEF StartTurn, TermStep, WriteStep
<1>17. ASSUME NEW p \in Plane, FinishTurn(p) PROVE TermStep
  BY <1>17, AllKept, GuardDrains DEF FinishTurn, TermStep, WriteStep
<1>18. ASSUME NEW p \in Plane, Settle(p) PROVE TermStep
  <2>1. Guard(p, TRUE)
    BY <1>18, <1>a, GuardDrains DEF Settle, AgentUpTo
  <2> QED BY <1>18, <2>1, AllKept DEF Settle, TermStep, WriteStep
<1>19. ASSUME NEW p \in Plane, ReadOrb(p) PROVE TermStep
  BY <1>19, AllKept DEF ReadOrb, stored, TermStep, QuietStep
<1>20. ASSUME NEW p \in Plane, ReconcileAgent(p) PROVE TermStep
  <2>1. UNCHANGED agent \/ RevokeAgent(p)
    BY <1>20 DEF ReconcileAgent, SuspendForArchive, RequestSuspend, RequestEnsure
  <2>2. TermsKept
    BY <2>1, AllKept, RevokeKept
  <2> QED BY <1>20, <2>2 DEF ReconcileAgent, stored, TermStep, QuietStep
<1>21. ASSUME NEW p \in Plane, UnloadIdle(p) PROVE TermStep
  BY <1>21, AllKept DEF UnloadIdle, stored, TermStep, QuietStep
<1>22. ASSUME NEW p \in Plane, PrepareArchive(p) PROVE TermStep
  <2>1. UNCHANGED agent \/ RevokeAgent(p)
    BY <1>22 DEF PrepareArchive, SuspendForArchive, RequestSuspend, RequestEnsure
  <2>2. TermsKept
    BY <2>1, AllKept, RevokeKept
  <2> QED BY <1>22, <2>2 DEF PrepareArchive, stored, TermStep, QuietStep
<1>23. ASSUME NEW p \in Plane, SuspendArchived(p) PROVE TermStep
  <2>1. UNCHANGED agent \/ RevokeAgent(p)
    BY <1>23 DEF SuspendArchived, SuspendForArchive, RequestSuspend, RequestEnsure
  <2>2. TermsKept
    BY <2>1, AllKept, RevokeKept
  <2> QED BY <1>23, <2>2 DEF SuspendArchived, stored, TermStep, QuietStep
<1>24. ASSUME NEW p \in Plane, SealArchive(p) PROVE TermStep
  BY <1>24, AllKept DEF SealArchive, TermStep, QuietStep, SealStep
<1>25. ASSUME NEW p \in Plane, DisposeAgent(p) PROVE TermStep
  BY <1>25, RevokeKept DEF DisposeAgent, stored, TermStep, QuietStep
<1>26. ASSUME NEW p \in Plane, FinalizeDisposal(p) PROVE TermStep
  <2>1. UNCHANGED <<row, last, agent>>
    BY <1>26 DEF FinalizeDisposal
  <2>2. {orb.admission, orb.admission + 1} \subseteq Nat /\ {"gone", "archived"} \subseteq OrbState
    BY <1>a DEF OrbState
  <2>3. CASE orb' = orb
    BY <2>1, <2>3, AllKept DEF TermStep, QuietStep
  <2>4. CASE orb.state = "deleting" /\ orb' = [orb EXCEPT !.state = "gone", !.admission = orb.admission]
    <3>1. orb'.state = "gone" /\ orb'.admission = orb.admission /\ orb'.sealed = orb.sealed
      BY <2>2, <2>4, OrbMoves
    <3> QED BY <2>1, <2>2, <2>4, <3>1 DEF TermStep, CommandStep
  <2>5. CASE orb.state = "archiving" /\ orb' = [orb EXCEPT !.state = "archived", !.admission = orb.admission + 1]
    <3>1. orb'.state = "archived" /\ orb'.admission = orb.admission + 1 /\ orb'.sealed = orb.sealed
      BY <2>2, <2>5, OrbMoves
    <3> QED BY <1>a, <2>1, <2>5, <3>1 DEF TermStep, CommandStep
  <2>6. \/ orb' = orb
        \/ orb.state = "deleting" /\ orb' = [orb EXCEPT !.state = "gone", !.admission = orb.admission]
        \/ orb.state = "archiving" /\ orb' = [orb EXCEPT !.state = "archived", !.admission = orb.admission + 1]
    BY <1>26 DEF FinalizeDisposal, TypedOrb
  <2> QED BY <2>6, <2>3, <2>4, <2>5
<1>27. ASSUME NEW p \in Plane, PassGivesUp(p) PROVE TermStep
  BY <1>27, AllKept DEF PassGivesUp, stored, TermStep, QuietStep
<1>28. ASSUME NEW p \in Plane, Shutdown(p) PROVE TermStep
  BY <1>28, RevokeKept DEF Shutdown, stored, TermStep, QuietStep
<1>29. ASSUME NEW p \in Plane, Exit(p) PROVE TermStep
  <2>1. TermsKept
    BY <1>29, OneKept DEF Exit
  <2> QED BY <1>29, <2>1 DEF Exit, TermStep, ReleaseStep, QuietStep
<1>30. ASSUME NEW p \in Plane, Consult(p) PROVE TermStep
  <2>1. UNCHANGED agent \/ RevokeAgent(p)
    BY <1>30 DEF Consult, SuspendForArchive, RequestSuspend, RequestEnsure
  <2>2. TermsKept
    BY <2>1, AllKept, RevokeKept
  <2> QED BY <1>30, <2>2 DEF Consult, stored, TermStep, QuietStep
<1> QED BY <1>1, <1>2, <1>3, <1>4, <1>5, <1>6, <1>7, <1>8, <1>9, <1>10, <1>11, <1>12, <1>13, <1>14, <1>15, <1>16, <1>17, <1>18, <1>19, <1>20, <1>21, <1>22, <1>23, <1>24, <1>25, <1>26, <1>27, <1>28, <1>29, <1>30 DEF Next, Environment, ManagerStep, AgentStep, TurnStep, PassStep

(* Every step keeps the types of the row and of the last commit.            *)
LEMMA LogTypedStep ==
    ASSUME TypedOrb, TypedLog, TypedPlanes, TypedOrb', orb.admission <= orb'.admission, TermStep
    PROVE  TypedLog'
<1>a. /\ orb.admission \in Nat /\ orb'.admission \in Nat /\ 0 .. orb.admission \subseteq 0 .. orb'.admission
      /\ row \in [owner : Plane \cup {NoPlane}, fence : Nat, admission : 0 .. orb.admission,
                  lease : {"held", "over"}, archived : BOOLEAN]
      /\ last \in [fence : Nat, admission : 0 .. orb.admission, owner : Plane \cup {NoPlane},
                   closed : BOOLEAN]
  BY DEF TypedOrb, TypedLog
<1> USE DEF TypedLog
<1>1. CASE QuietStep
  BY <1>1, <1>a DEF QuietStep
<1>2. CASE LapseStep
  BY <1>2, <1>a DEF LapseStep
<1>3. CASE CommandStep
  BY <1>3, <1>a DEF CommandStep
<1>4. CASE SealStep
  <2>1. row' \in [owner : Plane \cup {NoPlane}, fence : Nat, admission : 0 .. orb.admission,
                   lease : {"held", "over"}, archived : BOOLEAN]
    <3>1. \/ row' = row
          \/ row' = [owner |-> row.owner, fence |-> row.fence + 1, admission |-> row.admission,
                     lease |-> "over", archived |-> TRUE]
      BY <1>4, <1>a DEF SealStep, Sealed
    <3>2. row.fence + 1 \in Nat /\ row.owner \in Plane \cup {NoPlane} /\ row.admission \in 0 .. orb.admission
      BY <1>a
    <3>3. CASE row' = [owner |-> row.owner, fence |-> row.fence + 1, admission |-> row.admission,
                       lease |-> "over", archived |-> TRUE]
      BY <3>2, <3>3
    <3> QED BY <3>1, <3>3, <1>a
  <2> QED BY <1>4, <2>1, <1>a DEF SealStep
<1>5. ASSUME NEW p \in Plane, WriteStep(p) PROVE TypedLog'
  <2>1. agent[p] \in AgentUpTo(orb.admission) /\ Closed \in BOOLEAN
    BY DEF TypedPlanes, TypedOrb, Closed
  <2>2. last' \in [fence : Nat, admission : 0 .. orb.admission, owner : Plane \cup {NoPlane},
                   closed : BOOLEAN]
    BY <1>5, <2>1 DEF WriteStep, Commit, AgentUpTo
  <2> QED BY <1>5, <2>2, <1>a DEF WriteStep
<1>6. ASSUME NEW p \in Plane, ReleaseStep(p) PROVE TypedLog'
  <2>1. row' \in [owner : Plane \cup {NoPlane}, fence : Nat, admission : 0 .. orb.admission,
                   lease : {"held", "over"}, archived : BOOLEAN]
    <3>1. \/ row' = row
          \/ row' = [owner |-> row.owner, fence |-> row.fence + 1, admission |-> row.admission,
                     lease |-> "over", archived |-> row.archived]
      BY <1>6, <1>a DEF ReleaseStep, Released
    <3> QED BY <3>1, <1>a
  <2> QED BY <1>6, <2>1, <1>a DEF ReleaseStep
<1>7. ASSUME NEW p \in Plane, NEW version \in 0 .. orb.admission, GrantStep(p, version)
      PROVE  TypedLog'
  <2>1. row' \in [owner : Plane \cup {NoPlane}, fence : Nat, admission : 0 .. orb.admission,
                   lease : {"held", "over"}, archived : BOOLEAN]
    BY <1>7, <1>a DEF GrantStep, Granted
  <2> QED BY <1>7, <2>1, <1>a DEF GrantStep
<1> QED BY <1>1, <1>2, <1>3, <1>4, <1>5, <1>6, <1>7 DEF TermStep

(* Every step keeps a closed row closed, and an unowned row unowned.         *)
LEMMA RowShapeStep ==
    ASSUME TypedOrb, TypedLog, TypedPlanes, RowShape, Holders, TermStep
    PROVE  RowShape'
<1>1. CASE QuietStep
  BY <1>1 DEF RowShape, QuietStep
<1>2. CASE LapseStep
  BY <1>2 DEF RowShape, TypedLog, LapseStep
<1>3. CASE CommandStep
  BY <1>3 DEF RowShape, TypedOrb, OrbState, CommandStep
<1>4. CASE SealStep
  <2>1. /\ orb'.sealed /\ orb'.state = "archiving" /\ row.fence \in Nat /\ row.fence + 1 > 0
    BY <1>4 DEF SealStep, TypedOrb, TypedLog
  <2>2. CASE row.fence > 0 /\ ~row.archived
    <3>1. row' = [row EXCEPT !.archived = TRUE, !.fence = @ + 1, !.lease = "over"]
      BY <1>4, <2>2 DEF SealStep, Sealed
    <3>2. row'.archived /\ row'.fence = row.fence + 1 /\ row'.lease = "over"
      BY <3>1 DEF TypedLog
    <3> QED BY <2>1, <3>2 DEF RowShape
  <2>3. CASE ~(row.fence > 0 /\ ~row.archived)
    BY <1>4, <2>1, <2>3 DEF SealStep, Sealed, RowShape
  <2> QED BY <2>2, <2>3
<1>5. ASSUME NEW p \in Plane, WriteStep(p) PROVE RowShape'
  BY <1>5 DEF RowShape, WriteStep
<1>6. ASSUME NEW p \in Plane, ReleaseStep(p) PROVE RowShape'
  <2>1. CASE row' = row
    BY <1>6, <2>1 DEF ReleaseStep, RowShape
  <2>2. CASE row' = [row EXCEPT !.fence = @ + 1, !.lease = "over"] /\ ~row.archived /\ row.owner = p
    <3>1. row'.fence = row.fence + 1 /\ row'.lease = "over" /\ row'.archived = row.archived
          /\ row.fence \in Nat
      BY <2>2 DEF TypedLog
    <3>2. row.fence > 0
      BY <2>2, <3>1, AgentAssumption DEF RowShape
    <3> QED BY <1>6, <2>2, <3>1, <3>2 DEF ReleaseStep, RowShape
  <2> QED BY <1>6, <2>1, <2>2 DEF ReleaseStep, Released
<1>7. ASSUME NEW p \in Plane, NEW version \in 0 .. orb.admission, GrantStep(p, version)
      PROVE  RowShape'
  <2>1. row'.fence = row.fence + 1 /\ row'.lease = "held" /\ ~row'.archived /\ row.fence \in Nat
    BY <1>7 DEF GrantStep, Granted, TypedLog
  <2>2. ~orb'.sealed
    BY <1>7 DEF GrantStep, MayAcquire, RowShape, TypedOrb, OrbState
  <2> QED BY <1>7, <2>1, <2>2 DEF GrantStep, RowShape
<1> QED BY <1>1, <1>2, <1>3, <1>4, <1>5, <1>6, <1>7 DEF TermStep

(* Agents that keep their terms keep them apart, under a row that goes on.   *)
LEMMA KeptApart ==
    ASSUME TypedLog, TypedPlanes, Holders, TermsApart, TermsKept, row'.fence \in Nat,
           row.fence <= row'.fence,
           row'.fence = row.fence => row'.owner = row.owner /\ row'.admission = row.admission
    PROVE  Holders' /\ TermsApart'
<1>1. row.fence \in Nat /\ \A p \in Plane : agent[p].fence \in Nat
  BY DEF TypedLog, TypedPlanes, AgentUpTo
<1>2. \A p \in Plane :
        /\ agent'[p].fence \in {0, agent[p].fence}
        /\ agent'[p].fence > 0 => agent'[p].admission = agent[p].admission
        /\ agent'[p].stage = "none" => agent'[p].fence = 0
        /\ agent'[p].stage # "none" => agent'[p].fence > 0
  BY <1>1 DEF TermsKept, NoAgent, Holders
<1>3. ASSUME NEW p \in Plane, agent'[p].fence > 0, agent'[p].fence = row'.fence
      PROVE  row'.owner = p /\ row'.admission = agent'[p].admission
  <2>1. agent'[p].fence = agent[p].fence /\ agent[p].fence <= row.fence
        /\ agent'[p].admission = agent[p].admission
    BY <1>1, <1>2, <1>3 DEF TermsApart
  <2>2. row.fence = row'.fence
    BY <1>1, <1>3, <2>1
  <2> QED BY <1>3, <2>1, <2>2 DEF Holders
<1>4. Holders'
  BY <1>2, <1>3 DEF Holders
<1>5. ASSUME NEW p \in Plane, NEW q \in Plane, p # q, agent'[p].fence > 0
      PROVE  agent'[p].fence # agent'[q].fence
  <2>1. agent'[p].fence = agent[p].fence /\ agent'[q].fence \in {0, agent[q].fence}
    BY <1>1, <1>2, <1>5
  <2> QED BY <1>1, <1>5, <2>1 DEF TermsApart
<1>6. \A p \in Plane : agent'[p].fence <= row'.fence
  <2> TAKE p \in Plane
  <2>1. agent[p].fence <= row.fence /\ agent'[p].fence \in {0, agent[p].fence}
    BY <1>2 DEF TermsApart
  <2> QED BY <1>1, <2>1
<1>7. TermsApart'
  BY <1>5, <1>6 DEF TermsApart
<1> QED BY <1>4, <1>7

(* Every step keeps the terms of the agents apart.                          *)
LEMMA HoldersStep ==
    ASSUME TypedOrb, TypedLog, TypedPlanes, RowShape, Holders, TermsApart, TermStep
    PROVE  Holders' /\ TermsApart'
<1>a. row.fence \in Nat /\ \A p \in Plane : agent[p].fence \in Nat
  BY DEF TypedLog, TypedPlanes, AgentUpTo
<1>1. CASE QuietStep
  BY <1>1, <1>a, KeptApart DEF QuietStep
<1>2. CASE LapseStep
  <2>1. row'.fence = row.fence /\ row'.owner = row.owner /\ row'.admission = row.admission
    BY <1>2 DEF LapseStep, TypedLog
  <2> QED BY <1>2, <2>1, <1>a, KeptApart DEF LapseStep
<1>3. CASE CommandStep
  BY <1>3, <1>a, AllKept, KeptApart DEF CommandStep
<1>4. CASE SealStep
  <2>1. row' = row \/ row'.fence = row.fence + 1
    BY <1>4 DEF SealStep, Sealed, TypedLog
  <2> QED BY <1>4, <2>1, <1>a, AllKept, KeptApart DEF SealStep
<1>5. ASSUME NEW p \in Plane, WriteStep(p) PROVE Holders' /\ TermsApart'
  BY <1>5, <1>a, KeptApart DEF WriteStep
<1>6. ASSUME NEW p \in Plane, ReleaseStep(p) PROVE Holders' /\ TermsApart'
  <2>1. row' = row \/ row'.fence = row.fence + 1
    BY <1>6 DEF ReleaseStep, Released, TypedLog
  <2> QED BY <1>6, <2>1, <1>a, KeptApart DEF ReleaseStep
<1>7. ASSUME NEW p \in Plane, NEW version \in 0 .. orb.admission, GrantStep(p, version)
      PROVE  Holders' /\ TermsApart'
  <2>1. row'.fence = row.fence + 1 /\ row'.owner = p /\ row'.admission = version
    BY <1>7 DEF GrantStep, Granted
  <2>2. CASE TermsKept
    BY <2>1, <2>2, <1>a, KeptApart
  <2>3. CASE /\ agent'[p].fence = row.fence + 1 /\ agent'[p].admission = version
             /\ agent'[p].stage # "none"
             /\ \A q \in Plane \ {p} : agent'[q] = agent[q]
    <3>1. Holders'
      BY <2>1, <2>3, <1>a DEF Holders, TermsApart
    <3>2. TermsApart'
      BY <2>1, <2>3, <1>a DEF TermsApart
    <3> QED BY <3>1, <3>2
  <2> QED BY <1>7, <2>2, <2>3 DEF GrantStep
<1> QED BY <1>1, <1>2, <1>3, <1>4, <1>5, <1>6, <1>7 DEF TermStep

(* Every step keeps the log behind the row.                                 *)
LEMMA LogStep ==
    ASSUME TypedOrb, TypedLog, TypedPlanes, RowShape, Holders, TermsApart, LogBehindRow, TermStep
    PROVE  LogBehindRow'
<1>a. /\ row.fence \in Nat /\ last.fence \in Nat /\ orb.admission \in Nat
      /\ row.admission \in 0 .. orb.admission /\ last.admission \in 0 .. orb.admission
  BY DEF TypedOrb, TypedLog
<1>1. CASE QuietStep
  BY <1>1 DEF LogBehindRow, QuietStep
<1>2. CASE LapseStep
  BY <1>2 DEF LogBehindRow, TypedLog, LapseStep
<1>3. CASE CommandStep
  BY <1>3 DEF LogBehindRow, CommandStep
<1>4. CASE SealStep
  <2>1. /\ row'.fence \in {row.fence, row.fence + 1} /\ row'.admission = row.admission
        /\ row'.owner = row.owner /\ UNCHANGED last
    BY <1>4 DEF SealStep, Sealed, TypedLog
  <2> QED BY <2>1, <1>a DEF LogBehindRow
<1>5. ASSUME NEW p \in Plane, WriteStep(p) PROVE LogBehindRow'
  <2>1. /\ last'.fence = row.fence /\ last'.owner = row.owner /\ last'.admission = row.admission
        /\ ~last'.closed /\ row' = row
    BY <1>5 DEF WriteStep, Commit, Guard, Closed, RowShape, Holders
  <2> QED BY <2>1, <1>a DEF LogBehindRow
<1>6. ASSUME NEW p \in Plane, ReleaseStep(p) PROVE LogBehindRow'
  <2>1. /\ row'.fence \in {row.fence, row.fence + 1} /\ row'.admission = row.admission
        /\ row'.owner = row.owner /\ UNCHANGED last
    BY <1>6 DEF ReleaseStep, Released, TypedLog
  <2> QED BY <2>1, <1>a DEF LogBehindRow
<1>7. ASSUME NEW p \in Plane, NEW version \in 0 .. orb.admission, GrantStep(p, version)
      PROVE  LogBehindRow'
  <2>1. row'.fence = row.fence + 1 /\ row'.admission = version /\ UNCHANGED last
    BY <1>7 DEF GrantStep, Granted
  <2>2. version = orb.admission
    BY <1>7 DEF GrantStep, MayAcquire
  <2> QED BY <2>1, <2>2, <1>a DEF LogBehindRow
<1> QED BY <1>1, <1>2, <1>3, <1>4, <1>5, <1>6, <1>7 DEF TermStep

(* A commit that changes the log is of a later term and no earlier admission.*)
LEMMA TermsInOrder ==
    ASSUME TypedOrb, TypedLog, TypedPlanes, RowShape, Holders, TermsApart, LogBehindRow, TermStep
    PROVE  last' # last => last'.fence > last.fence /\ last'.admission >= last.admission
<1>1. CASE QuietStep
  BY <1>1 DEF QuietStep
<1>2. CASE LapseStep
  BY <1>2 DEF LapseStep
<1>3. CASE CommandStep
  BY <1>3 DEF CommandStep
<1>4. CASE SealStep
  BY <1>4 DEF SealStep
<1>5. ASSUME NEW p \in Plane, WriteStep(p) PROVE last' # last => last'.fence > last.fence /\ last'.admission >= last.admission
  <2>1. last' = [fence |-> row.fence, admission |-> row.admission, owner |-> row.owner,
                 closed |-> FALSE]
    BY <1>5 DEF WriteStep, Commit, Guard, Closed, RowShape, TypedLog
  <2>2. row.fence > 0
    BY <1>5, AgentAssumption DEF WriteStep, Guard, RowShape, TypedLog
  <2>3. CASE last.fence = row.fence
    <3>1. last.owner = row.owner /\ last.admission = row.admission /\ last.closed = FALSE
      BY <2>2, <2>3 DEF LogBehindRow, TypedLog
    <3>2. last = [fence |-> row.fence, admission |-> row.admission, owner |-> row.owner, closed |-> FALSE]
      BY <2>3, <3>1 DEF TypedLog
    <3> QED BY <2>1, <3>2
  <2>4. CASE last.fence # row.fence
    BY <2>1, <2>4 DEF LogBehindRow, TypedLog, TypedOrb
  <2> QED BY <2>3, <2>4
<1>6. ASSUME NEW p \in Plane, ReleaseStep(p) PROVE last' # last => last'.fence > last.fence /\ last'.admission >= last.admission
  BY <1>6 DEF ReleaseStep
<1>7. ASSUME NEW p \in Plane, NEW version \in 0 .. orb.admission, GrantStep(p, version)
      PROVE  last' # last => last'.fence > last.fence /\ last'.admission >= last.admission
  BY <1>7 DEF GrantStep
<1> QED BY <1>1, <1>2, <1>3, <1>4, <1>5, <1>6, <1>7 DEF TermStep

(* Nothing is committed, and no lease granted, once the orb is closed.      *)
LEMMA ClosedStays ==
    ASSUME TypedOrb, TypedLog, RowShape, LogBehindRow, Closed, TermStep
    PROVE  ~last'.closed /\ (row'.lease = "held" => row.lease = "held")
<1> USE DEF LogBehindRow
<1>1. CASE QuietStep
  BY <1>1 DEF QuietStep
<1>2. CASE LapseStep
  BY <1>2 DEF TypedLog, LapseStep
<1>3. CASE CommandStep
  BY <1>3 DEF CommandStep
<1>4. CASE SealStep
  BY <1>4 DEF Sealed, TypedLog, SealStep
<1>5. ASSUME NEW p \in Plane, WriteStep(p) PROVE ~last'.closed /\ (row'.lease = "held" => row.lease = "held")
  BY <1>5 DEF Guard, Commit, Closed, RowShape, WriteStep
<1>6. ASSUME NEW p \in Plane, ReleaseStep(p) PROVE ~last'.closed /\ (row'.lease = "held" => row.lease = "held")
  BY <1>6 DEF Released, TypedLog, ReleaseStep
<1>7. ASSUME NEW p \in Plane, NEW version \in 0 .. orb.admission, GrantStep(p, version)
      PROVE  ~last'.closed /\ (row'.lease = "held" => row.lease = "held")
  BY <1>7 DEF MayAcquire, Closed, RowShape, TypedOrb, OrbState, GrantStep
<1> QED BY <1>1, <1>2, <1>3, <1>4, <1>5, <1>6, <1>7 DEF TermStep

(* Every step is a step of the promise, or none.                            *)
LEMMA TermsSimulated ==
    ASSUME TypedOrb, TypedLog, TypedPlanes, RowShape, TermStep
    PROVE  [Terms!Next]_(Terms!vars)
<1>1. CASE QuietStep
  BY <1>1 DEF Terms!vars, Closed, QuietStep
<1>2. CASE LapseStep
  <2>1. row'.lease # "held" /\ row'.fence = row.fence /\ UNCHANGED <<Closed, last>>
    BY <1>2 DEF LapseStep, TypedLog, Closed
  <2> QED BY <2>1 DEF Terms!Next, Terms!Revoke
<1>3. CASE CommandStep
  <2>1. CASE orb'.state = "gone"
    BY <1>3, <2>1 DEF CommandStep, Closed, Terms!Next, Terms!Seal
  <2>2. CASE orb'.state # "gone"
    <3>1. orb.state # "gone"
      BY <1>3, <2>2 DEF CommandStep, TypedOrb, OrbState
    <3> QED BY <1>3, <2>2, <3>1 DEF CommandStep, Closed, Terms!vars, TypedOrb
  <2> QED BY <2>1, <2>2
<1>4. CASE SealStep
  <2>1. orb'.sealed /\ UNCHANGED last
    BY <1>4 DEF SealStep, TypedOrb
  <2>2. row'.fence \in {row.fence, row.fence + 1} /\ (row'.archived \/ row'.lease # "held")
    BY <1>4 DEF SealStep, Sealed, TypedLog, RowShape
  <2> QED BY <2>1, <2>2 DEF Closed, Terms!Next, Terms!Seal
<1>5. ASSUME NEW p \in Plane, WriteStep(p) PROVE [Terms!Next]_(Terms!vars)
  <2>1. /\ row.lease = "held" /\ ~row.archived /\ orb.state # "gone" /\ UNCHANGED <<orb, row>>
        /\ last'.fence = row.fence
    BY <1>5 DEF WriteStep, Guard, Commit
  <2> QED BY <2>1 DEF Terms!Next, Terms!Write, Closed
<1>6. ASSUME NEW p \in Plane, ReleaseStep(p) PROVE [Terms!Next]_(Terms!vars)
  <2>1. CASE row' = row
    BY <1>6, <2>1 DEF ReleaseStep, Terms!vars, Closed
  <2>2. CASE row' = [row EXCEPT !.fence = @ + 1, !.lease = "over"]
    <3>1. row'.fence = row.fence + 1 /\ row'.lease = "over"
      BY <2>2 DEF TypedLog
    <3> QED BY <1>6, <3>1 DEF ReleaseStep, Closed, Terms!Next, Terms!Revoke
  <2> QED BY <1>6, <2>1, <2>2 DEF ReleaseStep, Released
<1>7. ASSUME NEW p \in Plane, NEW version \in 0 .. orb.admission, GrantStep(p, version)
      PROVE  [Terms!Next]_(Terms!vars)
  <2>1. row'.fence = row.fence + 1 /\ row'.lease = "held" /\ ~row'.archived
    BY <1>7 DEF GrantStep, Granted
  <2>2. ~Closed /\ UNCHANGED <<orb, last>>
    BY <1>7 DEF GrantStep, MayAcquire, Closed, RowShape, TypedOrb, OrbState
  <2> QED BY <2>1, <2>2 DEF Terms!Next, Terms!Grant, Closed
<1> QED BY <1>1, <1>2, <1>3, <1>4, <1>5, <1>6, <1>7 DEF TermStep

--------------------------------------------------------------------------------
(* Every step, as the managers and their agents see it. *)

(* Revoking leaves nothing that accepts.                                    *)
LEMMA RevokedAccepts ==
    ASSUME TypedOrb, TypedPlanes, AcceptsOnlyWanted, NEW p \in Plane, RevokeAgent(p)
    PROVE  /\ ~agent'[p].accepting /\ agent'[p].stage = agent[p].stage
           /\ agent'[p].admission = agent[p].admission /\ agent'[p].retiring = agent[p].retiring
           /\ \A q \in Plane \ {p} : agent'[q] = agent[q]
<1>1. agent \in [Plane -> AgentUpTo(orb.admission)] /\ agent[p] \in AgentUpTo(orb.admission)
  BY DEF TypedPlanes
<1>2. CASE Published(p)
  <2>1. agent' = [agent EXCEPT ![p] = Revoked(@)]
    BY <1>2 DEF RevokeAgent
  <2>2. /\ ~Revoked(agent[p]).accepting /\ Revoked(agent[p]).stage = agent[p].stage
        /\ Revoked(agent[p]).admission = agent[p].admission
        /\ Revoked(agent[p]).retiring = agent[p].retiring
    BY <1>1 DEF Revoked, AgentUpTo
  <2> QED BY <1>1, <2>1, <2>2
<1>3. CASE ~Published(p)
  BY <1>3 DEF RevokeAgent, Published, AcceptsOnlyWanted
<1> QED BY <1>2, <1>3

(* To revoke an agent is, for its process, a request.                       *)
LEMMA RevokedIsRequest ==
    ASSUME TypedOrb, TypedPlanes, AcceptsOnlyWanted, NEW p \in Plane, RevokeAgent(p),
           SameHead(manager[p].queue, manager'[p].queue),
           \A q \in Plane \ {p} : manager'[q] = manager[q]
    PROVE  PlaneStep(p)
  BY RevokedAccepts DEF PlaneStep, RequestStep

(* A suspend is a request.                                                  *)
LEMMA SuspendIsRequest ==
    ASSUME TypedOrb, TypedPlanes, AcceptsOnlyWanted, NEW p \in Plane,
           NEW version \in 0 .. orb.admission, RequestSuspend(p, version)
    PROVE  PlaneStep(p)
<1>1. /\ orb.admission \in Nat /\ manager \in [Plane -> ManagerUpTo(orb.admission)]
      /\ agent \in [Plane -> AgentUpTo(orb.admission)]
  BY DEF TypedOrb, TypedPlanes
<1>2. SameHead(manager[p].queue, manager'[p].queue)
  BY <1>1, SuspendEffect
<1>3. \A q \in Plane \ {p} : manager'[q] = manager[q]
  BY <1>1 DEF RequestSuspend
<1> QED BY <1>2, <1>3, RevokedIsRequest DEF RequestSuspend

(* An ensure is a request: an agent that still accepts was wanted by it.    *)
LEMMA EnsureIsRequest ==
    ASSUME TypedOrb, TypedPlanes, AcceptsOnlyWanted, NEW p \in Plane, NEW kind \in Opens,
           NEW version \in 0 .. orb.admission, RequestEnsure(p, kind, version)
    PROVE  UNCHANGED <<manager, agent>> \/ PlaneStep(p)
<1>1. /\ orb.admission \in Nat /\ manager \in [Plane -> ManagerUpTo(orb.admission)]
      /\ agent \in [Plane -> AgentUpTo(orb.admission)]
  BY DEF TypedOrb, TypedPlanes
<1>2. SUFFICES ASSUME version >= manager[p].known,
                      manager' = [manager EXCEPT ![p].known = version,
                                     ![p].queue = Append(@, Operation(kind, version))],
                      IF agent[p].admission < version THEN RevokeAgent(p) ELSE UNCHANGED agent
               PROVE  PlaneStep(p)
  BY <1>1 DEF RequestEnsure, ManagerUpTo
<1>3. SameHead(manager[p].queue, manager'[p].queue)
  BY <1>1, EnsureEffect
<1>4. \A q \in Plane \ {p} : manager'[q] = manager[q]
  BY <1>1, <1>2
<1>5. CASE agent[p].admission < version
  BY <1>2, <1>3, <1>4, <1>5, RevokedIsRequest
<1>6. CASE ~(agent[p].admission < version)
  <2>1. /\ manager'[p].known = version /\ manager'[p].closing = manager[p].closing
        /\ manager'[p].disposed = manager[p].disposed
    BY <1>1, <1>2 DEF ManagerUpTo
  <2>2. manager[p].known \in Nat /\ agent[p].admission \in Nat /\ version \in Nat
    BY <1>1 DEF ManagerUpTo, AgentUpTo
  <2>3. agent[p].accepting => SameWish(p)
    BY <1>2, <1>6, <2>1, <2>2 DEF AcceptsOnlyWanted, SameWish
  <2> QED BY <1>2, <1>3, <1>4, <1>6, <2>3 DEF PlaneStep, RequestStep
<1> QED BY <1>5, <1>6

(* Every step disturbs the manager and the agent of one process at most.    *)
LEMMA PlaneSteps ==
    ASSUME TypedOrb, TypedPlanes, OpeningIsRunning, AcceptsOnlyWanted, Next
    PROVE  UNCHANGED <<manager, agent>> \/ \E p \in Plane : PlaneStep(p)
<1>a. /\ orb.admission \in Nat /\ manager \in [Plane -> ManagerUpTo(orb.admission)]
      /\ agent \in [Plane -> AgentUpTo(orb.admission)]
      /\ pass \in [Plane -> PassUpTo(orb.admission)]
  BY DEF TypedOrb, TypedPlanes
<1> DEFINE G == UNCHANGED <<manager, agent>> \/ \E p \in Plane : PlaneStep(p)
<1>1. CASE LeaseLapses
  BY <1>1 DEF LeaseLapses
<1>2. CASE Stop
  BY <1>2 DEF Stop
<1>3. CASE Start
  BY <1>3 DEF Start
<1>4. CASE RequestArchive
  BY <1>4 DEF RequestArchive
<1>5. CASE RequestDeletion
  BY <1>5 DEF RequestDeletion
<1>6. ASSUME NEW p \in Plane, StartEnsure(p) PROVE G
  <2>1. Pending(p) /\ Running(p).step = "queued"
    BY <1>6 DEF StartEnsure
  <2>2. agent[p].stage # "opening"
    BY <2>1 DEF OpeningIsRunning
  <2>3. ASSUME NEW b, EndOp(p, b), UNCHANGED agent PROVE PlaneStep(p)
    BY <1>a, <2>1, <2>2, <2>3, EndOpEffect DEF PlaneStep, BesideStep, OnlyLine, SameWish
  <2>4. ASSUME NEW s \in {"retire", "abandon"}, StepTo(p, s), agent' = [agent EXCEPT ![p] = Retired(@)]
        PROVE  PlaneStep(p)
    <3>1. agent[p] \in AgentUpTo(orb.admission)
      BY <1>a
    <3>2. ~Retired(agent[p]).accepting /\ Retired(agent[p]).stage # "opening"
      BY <2>2, <3>1 DEF Retired, Closing, Revoked, AgentUpTo, AcceptsOnlyWanted
    <3> QED BY <1>a, <2>1, <2>4, <3>2, StepToEffect DEF PlaneStep, EndStep, OnlyLine
  <2>5. ASSUME StepTo(p, "open"), UNCHANGED agent PROVE PlaneStep(p)
    BY <1>a, <2>1, <2>2, <2>5, StepToEffect DEF PlaneStep, BesideStep, OnlyLine, SameWish
  <2> QED BY <1>6, <2>3, <2>4, <2>5 DEF StartEnsure
<1>7. ASSUME NEW p \in Plane, StartSuspend(p) PROVE G
  <2>1. Pending(p) /\ Running(p).step = "queued"
    BY <1>7 DEF StartSuspend
  <2>2. agent[p].stage # "opening"
    BY <2>1 DEF OpeningIsRunning
  <2>3. ASSUME NEW b, EndOp(p, b), UNCHANGED agent PROVE PlaneStep(p)
    BY <1>a, <2>1, <2>2, <2>3, EndOpEffect DEF PlaneStep, BesideStep, OnlyLine, SameWish
  <2>4. ASSUME NEW s \in {"retire", "abandon"}, StepTo(p, s), agent' = [agent EXCEPT ![p] = Retired(@)]
        PROVE  PlaneStep(p)
    <3>1. agent[p] \in AgentUpTo(orb.admission)
      BY <1>a
    <3>2. ~Retired(agent[p]).accepting /\ Retired(agent[p]).stage # "opening"
      BY <2>2, <3>1 DEF Retired, Closing, Revoked, AgentUpTo, AcceptsOnlyWanted
    <3> QED BY <1>a, <2>1, <2>4, <3>2, StepToEffect DEF PlaneStep, EndStep, OnlyLine
  <2> QED BY <1>7, <2>3, <2>4 DEF StartSuspend
<1>8. ASSUME NEW p \in Plane, StartUnload(p) PROVE G
  <2>1. Pending(p) /\ Running(p).step = "queued"
    BY <1>8 DEF StartUnload
  <2>2. agent[p].stage # "opening"
    BY <2>1 DEF OpeningIsRunning
  <2>3. ASSUME NEW b, EndOp(p, b), UNCHANGED agent PROVE PlaneStep(p)
    BY <1>a, <2>1, <2>2, <2>3, EndOpEffect DEF PlaneStep, BesideStep, OnlyLine, SameWish
  <2>4. ASSUME NEW s \in {"retire", "abandon"}, StepTo(p, s), agent' = [agent EXCEPT ![p] = Retired(@)]
        PROVE  PlaneStep(p)
    <3>1. agent[p] \in AgentUpTo(orb.admission)
      BY <1>a
    <3>2. ~Retired(agent[p]).accepting /\ Retired(agent[p]).stage # "opening"
      BY <2>2, <3>1 DEF Retired, Closing, Revoked, AgentUpTo, AcceptsOnlyWanted
    <3> QED BY <1>a, <2>1, <2>4, <3>2, StepToEffect DEF PlaneStep, EndStep, OnlyLine
  <2> QED BY <1>8, <2>3, <2>4 DEF StartUnload
<1>9. ASSUME NEW p \in Plane, RetirementEnds(p) PROVE G
  <2>1. Pending(p) /\ NoAgent.stage = "none" /\ ~NoAgent.accepting
    BY <1>9 DEF RetirementEnds, NoAgent
  <2>2. \A q \in Plane : q # p => manager'[q] = manager[q]
    <3>1. StepTo(p, "open") \/ EndOp(p, TRUE) \/ EndOp(p, FALSE)
      BY <1>9 DEF RetirementEnds
    <3> QED BY <1>a, <2>1, <3>1, EndOpEffect, StepToEffect DEF OnlyLine
  <2>3. CASE agent' = [agent EXCEPT ![p] = NoAgent]
    BY <1>a, <2>1, <2>2, <2>3 DEF PlaneStep, EndStep
  <2>4. CASE agent[p].stage = "failed" /\ EndOp(p, FALSE) /\ UNCHANGED agent
    BY <1>a, <2>1, <2>4, EndOpEffect DEF PlaneStep, BesideStep, OnlyLine, SameWish
  <2> QED BY <1>9, <2>3, <2>4 DEF RetirementEnds
<1>10. ASSUME NEW p \in Plane, Acquire(p) PROVE G
  <2>1. Pending(p) /\ Opening(p) /\ agent[p].stage = "none"
    BY <1>10 DEF Acquire, Opening
  <2>2. CASE EndOp(p, FALSE) /\ UNCHANGED agent
    BY <1>a, <2>1, <2>2, EndOpEffect DEF PlaneStep, BesideStep, OnlyLine, SameWish
  <2>3. CASE /\ UNCHANGED manager
             /\ agent' = [agent EXCEPT ![p] = [NoAgent EXCEPT !.stage = "opening",
                           !.fence = row'.fence, !.admission = Running(p).version,
                           !.paused = Running(p).kind = "read"]]
    <3>1. /\ agent'[p].stage = "opening" /\ ~agent'[p].accepting /\ ~agent'[p].retiring
          /\ agent'[p].admission = Running(p).version
          /\ \A q \in Plane \ {p} : agent'[q] = agent[q]
      BY <1>a, <2>3 DEF NoAgent
    <3> QED BY <2>1, <2>3, <3>1 DEF PlaneStep, OpenStep
  <2> QED BY <1>10, <2>2, <2>3 DEF Acquire
<1>11. ASSUME NEW p \in Plane, Publish(p) PROVE G
  <2>1. Pending(p) /\ Opening(p) /\ agent[p].stage = "opening"
    BY <1>11 DEF Publish, Opening
  <2>2. PICK x \in AgentUpTo(orb.admission) : x = [agent[p] EXCEPT !.stage = "owned", !.accepting = TRUE]
    BY <1>a DEF AgentUpTo, Stage
  <2>3. x.stage = "owned" /\ x.admission = agent[p].admission /\ x.retiring = agent[p].retiring
    BY <1>a, <2>2 DEF AgentUpTo
  <2>4. CASE Admitted(p) /\ agent' = [agent EXCEPT ![p] = x] /\ EndOp(p, TRUE)
    BY <1>a, <2>1, <2>3, <2>4, EndOpEffect DEF PlaneStep, PublishStep, OnlyLine, SameWish
  <2>5. CASE agent' = [agent EXCEPT ![p] = Retired(x)] /\ StepTo(p, "abandon")
    <3>1. ~Retired(x).accepting /\ Retired(x).stage # "opening"
      BY <2>3 DEF Retired, Closing, Revoked, AgentUpTo
    <3> QED BY <1>a, <2>1, <2>5, <3>1, StepToEffect DEF PlaneStep, EndStep, OnlyLine
  <2> QED BY <1>11, <2>2, <2>4, <2>5 DEF Publish
<1>12. ASSUME NEW p \in Plane, OpenFails(p) PROVE G
  <2>1. Pending(p) /\ EndOp(p, FALSE) /\ agent' = [agent EXCEPT ![p] = NoAgent]
    BY <1>12 DEF OpenFails, Opening
  <2>2. NoAgent.stage = "none" /\ ~NoAgent.accepting
    BY DEF NoAgent
  <2>3. OnlyLine(p)
    BY <1>a, <2>1, EndOpEffect
  <2>4. agent'[p] = NoAgent /\ \A q \in Plane \ {p} : agent'[q] = agent[q] /\ manager'[q] = manager[q]
    BY <1>a, <2>1, <2>3 DEF OnlyLine
  <2>5. PlaneStep(p)
    BY <2>2, <2>4 DEF PlaneStep, EndStep
  <2> QED BY <2>5
<1>13. ASSUME NEW p \in Plane, HeartbeatFails(p) PROVE G
  <2>1. agent[p] \in AgentUpTo(orb.admission) /\ agent[p].stage = "owned"
    BY <1>13, <1>a DEF HeartbeatFails
  <2>2. ~Closing(agent[p]).accepting /\ Closing(agent[p]).stage # "opening"
    BY <2>1 DEF Closing, Revoked, AgentUpTo
  <2> QED BY <1>13, <1>a, <2>2 DEF HeartbeatFails, PlaneStep, EndStep
<1>14. ASSUME NEW p \in Plane, BeginDrain(p) PROVE G
  <2>1. ~agent[p].accepting /\ agent[p].stage = "closing" /\ UNCHANGED manager
    BY <1>14 DEF BeginDrain, AcceptsOnlyWanted
  <2>2. ASSUME NEW g, NEW e,
               \/ agent' = [agent EXCEPT ![p].stage = "draining", ![p].draining = g, ![p].broken = e]
               \/ agent' = [agent EXCEPT ![p].stage = "draining", ![p].broken = e]
        PROVE  /\ ~agent'[p].accepting /\ agent'[p].stage = "draining"
               /\ \A q \in Plane \ {p} : agent'[q] = agent[q]
    BY <1>a, <2>1, <2>2 DEF AgentUpTo
  <2>3. /\ ~agent'[p].accepting /\ agent'[p].stage = "draining"
        /\ \A q \in Plane \ {p} : agent'[q] = agent[q]
    BY <1>14, <2>2 DEF BeginDrain
  <2> QED BY <2>1, <2>3 DEF PlaneStep, EndStep
<1>15. ASSUME NEW p \in Plane, Release(p) PROVE G
  <2>1. ~agent[p].accepting /\ UNCHANGED manager /\ agent[p] \in AgentUpTo(orb.admission)
    BY <1>15, <1>a DEF Release, AcceptsOnlyWanted
  <2>2. \E b \in BOOLEAN : agent' = [agent EXCEPT ![p] = Ended(agent[p], b)]
    BY <1>15, <1>a DEF Release, AgentUpTo
  <2>3. \A b \in BOOLEAN : ~Ended(agent[p], b).accepting /\ Ended(agent[p], b).stage # "opening"
    BY <2>1 DEF Ended, AgentUpTo
  <2> QED BY <1>a, <2>1, <2>2, <2>3 DEF PlaneStep, EndStep
<1>16. ASSUME NEW p \in Plane, StartTurn(p) PROVE G
  BY <1>16 DEF StartTurn
<1>17. ASSUME NEW p \in Plane, FinishTurn(p) PROVE G
  BY <1>17 DEF FinishTurn
<1>18. ASSUME NEW p \in Plane, Settle(p) PROVE G
  BY <1>18 DEF Settle
<1>19. ASSUME NEW p \in Plane, ReadOrb(p) PROVE G
  BY <1>19 DEF ReadOrb, stored
<1>20. ASSUME NEW p \in Plane, ReconcileAgent(p) PROVE G
  <2>1. pass[p].admission \in 0 .. orb.admission
    BY <1>a DEF PassUpTo
  <2> QED BY <1>20, <2>1, EnsureIsRequest, SuspendIsRequest DEF ReconcileAgent, Opens
<1>21. ASSUME NEW p \in Plane, UnloadIdle(p) PROVE G
  <2>1. PICK r \in Line(orb.admission) : /\ r = Append(manager[p].queue, Operation("unload", pass[p].admission))
                                       /\ SameHead(manager[p].queue, r)
    <3>1. Operation("unload", pass[p].admission) \in OpUpTo(orb.admission)
      BY <1>a DEF Operation, OpUpTo, PassUpTo
    <3> QED BY <3>1, <1>a, LineTyped, AppendToLine
  <2>2. manager' = [manager EXCEPT ![p].queue = r] /\ UNCHANGED agent
    BY <1>21, <2>1 DEF UnloadIdle
  <2>3. SameHead(manager[p].queue, manager'[p].queue) /\ \A q \in Plane \ {p} : manager'[q] = manager[q]
    BY <1>a, <2>1, <2>2 DEF ManagerUpTo
  <2>4. SameWish(p)
    BY <1>a, <2>2 DEF ManagerUpTo, SameWish
  <2> QED BY <2>2, <2>3, <2>4 DEF PlaneStep, RequestStep
<1>22. ASSUME NEW p \in Plane, PrepareArchive(p) PROVE G
  <2>1. pass[p].admission \in 0 .. orb.admission
    BY <1>a DEF PassUpTo
  <2> QED BY <1>22, <2>1, SuspendIsRequest DEF PrepareArchive, SuspendForArchive
<1>23. ASSUME NEW p \in Plane, SuspendArchived(p) PROVE G
  <2>1. pass[p].admission \in 0 .. orb.admission
    BY <1>a DEF PassUpTo
  <2> QED BY <1>23, <2>1, SuspendIsRequest DEF SuspendArchived, SuspendForArchive
<1>24. ASSUME NEW p \in Plane, SealArchive(p) PROVE G
  BY <1>24 DEF SealArchive
<1>25. ASSUME NEW p \in Plane, DisposeAgent(p) PROVE G
  <2>1. PICK r \in Line(orb.admission) : r = WithSuspend(p, "close", 0) /\ SameHead(manager[p].queue, r)
    BY <1>a, WithSuspendEffect DEF Suspends
  <2>2. manager' = [manager EXCEPT ![p].disposed = TRUE, ![p].queue = r] /\ RevokeAgent(p)
    BY <1>25, <2>1 DEF DisposeAgent
  <2>3. SameHead(manager[p].queue, manager'[p].queue) /\ \A q \in Plane \ {p} : manager'[q] = manager[q]
    BY <1>a, <2>1, <2>2 DEF ManagerUpTo
  <2> QED BY <2>2, <2>3, RevokedIsRequest
<1>26. ASSUME NEW p \in Plane, FinalizeDisposal(p) PROVE G
  BY <1>26 DEF FinalizeDisposal
<1>27. ASSUME NEW p \in Plane, PassGivesUp(p) PROVE G
  BY <1>27 DEF PassGivesUp, stored
<1>28. ASSUME NEW p \in Plane, Shutdown(p) PROVE G
  <2>1. PICK r \in Line(orb.admission) : r = WithSuspend(p, "close", 0) /\ SameHead(manager[p].queue, r)
    BY <1>a, WithSuspendEffect DEF Suspends
  <2>2. manager' = [manager EXCEPT ![p].closing = TRUE, ![p].queue = r] /\ RevokeAgent(p)
    BY <1>28, <2>1 DEF Shutdown
  <2>3. SameHead(manager[p].queue, manager'[p].queue) /\ \A q \in Plane \ {p} : manager'[q] = manager[q]
    BY <1>a, <2>1, <2>2 DEF ManagerUpTo
  <2> QED BY <2>2, <2>3, RevokedIsRequest
<1>29. ASSUME NEW p \in Plane, Exit(p) PROVE G
  <2>1. NoAgent.stage = "none" /\ ~NoAgent.accepting
    BY DEF NoAgent
  <2> QED BY <1>29, <1>a, <2>1 DEF Exit, PlaneStep, EndStep
<1>30. ASSUME NEW p \in Plane, Consult(p) PROVE G
  BY <1>30, <1>a, EnsureIsRequest DEF Consult, Opens
<1> QED BY <1>1, <1>2, <1>3, <1>4, <1>5, <1>6, <1>7, <1>8, <1>9, <1>10, <1>11, <1>12, <1>13, <1>14, <1>15, <1>16, <1>17, <1>18, <1>19, <1>20, <1>21, <1>22, <1>23, <1>24, <1>25, <1>26, <1>27, <1>28, <1>29, <1>30 DEF Next, Environment, ManagerStep, AgentStep, TurnStep, PassStep

(* A step of one process keeps what is wanted of its agent.                 *)
LEMMA AcceptsStep ==
    ASSUME TypedOrb, TypedPlanes, OpeningIsRunning, AcceptsOnlyWanted,
           UNCHANGED <<manager, agent>> \/ \E p \in Plane : PlaneStep(p)
    PROVE  AcceptsOnlyWanted'
<1>1. CASE UNCHANGED <<manager, agent>>
  BY <1>1 DEF AcceptsOnlyWanted
<1>2. ASSUME NEW p \in Plane, PlaneStep(p) PROVE AcceptsOnlyWanted'
  <2>1. \A q \in Plane \ {p} : agent'[q] = agent[q] /\ manager'[q] = manager[q]
    BY <1>2 DEF PlaneStep
  <2>2. ASSUME agent'[p].accepting
        PROVE  /\ agent'[p].stage = "owned" /\ ~agent'[p].retiring
               /\ agent'[p].admission = manager'[p].known
               /\ ~manager'[p].closing /\ ~manager'[p].disposed
    <3>1. CASE RequestStep(p) \/ BesideStep(p)
      BY <2>2, <3>1 DEF RequestStep, BesideStep, SameWish, AcceptsOnlyWanted
    <3>2. CASE EndStep(p) \/ OpenStep(p)
      BY <2>2, <3>2 DEF EndStep, OpenStep
    <3>3. CASE PublishStep(p)
      BY <3>3 DEF PublishStep, SameWish, Admitted, OpeningIsRunning
    <3> QED BY <1>2, <3>1, <3>2, <3>3 DEF PlaneStep
  <2> QED BY <2>1, <2>2 DEF AcceptsOnlyWanted
<1> QED BY <1>1, <1>2

(* A step of one process keeps an agent that is opened with its operation.  *)
LEMMA OpeningStep ==
    ASSUME TypedOrb, TypedPlanes, OpeningIsRunning,
           UNCHANGED <<manager, agent>> \/ \E p \in Plane : PlaneStep(p)
    PROVE  OpeningIsRunning'
<1>1. CASE UNCHANGED <<manager, agent>>
  BY <1>1 DEF OpeningIsRunning, Running
<1>2. ASSUME NEW p \in Plane, PlaneStep(p) PROVE OpeningIsRunning'
  <2>1. \A q \in Plane \ {p} : agent'[q] = agent[q] /\ manager'[q] = manager[q]
    BY <1>2 DEF PlaneStep
  <2>2. ASSUME agent'[p].stage = "opening"
        PROVE  /\ manager'[p].queue # <<>>
               /\ Head(manager'[p].queue).kind \in Opens /\ Head(manager'[p].queue).step = "open"
               /\ Head(manager'[p].queue).version = agent'[p].admission /\ ~agent'[p].retiring
    <3>1. CASE RequestStep(p)
      BY <2>2, <3>1 DEF RequestStep, OpeningIsRunning, SameHead, Running
    <3>2. CASE BesideStep(p) \/ EndStep(p) \/ PublishStep(p)
      BY <2>2, <3>2 DEF BesideStep, EndStep, PublishStep
    <3>3. CASE OpenStep(p)
      BY <3>3 DEF OpenStep, Opening, Pending, Running
    <3> QED BY <1>2, <3>1, <3>2, <3>3 DEF PlaneStep
  <2> QED BY <2>1, <2>2 DEF OpeningIsRunning, Running
<1> QED BY <1>1, <1>2

--------------------------------------------------------------------------------
(* The inductive invariant. *)

(* It holds at first ...                                                    *)
LEMMA InitIInv == Init => IInv
<1> SUFFICES ASSUME Init PROVE IInv
  OBVIOUS
<1>1. TypedOrb /\ TypedLog /\ Ceiling
  <2>1. MaxEvents \in Nat /\ 0 \in 0 .. MaxEvents
    BY AgentAssumption
  <2>2. TypedOrb
    BY <2>1 DEF Init, TypedOrb, OrbState
  <2>3. TypedLog
    BY DEF Init, TypedLog
  <2>4. Ceiling
    BY DEF Init, Ceiling
  <2> QED BY <2>2, <2>3, <2>4
<1>2. TypedPlanes
  <2>1. NoManager.queue = <<>> /\ <<>> \in Line(0)
    BY EmptySeq DEF NoManager, Line
  <2>2. [NoManager EXCEPT !.alive = TRUE, !.closing = FALSE] \in ManagerUpTo(0)
    <3>1. NoManager \in ManagerUpTo(0)
      BY <2>1 DEF NoManager, ManagerUpTo
    <3>2. ASSUME NEW m \in ManagerUpTo(0)
          PROVE  [m EXCEPT !.alive = TRUE, !.closing = FALSE] \in ManagerUpTo(0)
      BY DEF ManagerUpTo
    <3> QED BY <3>1, <3>2
  <2>3. NoAgent \in AgentUpTo(0) /\ NoPass \in PassUpTo(0)
    BY DEF NoAgent, NoPass, AgentUpTo, PassUpTo, Stage, OrbState
  <2>4. orb.admission = 0
    BY DEF Init
  <2> QED BY <2>2, <2>3, <2>4 DEF Init, TypedPlanes
<1>3. \A p \in Plane : agent[p] = NoAgent
  BY DEF Init
<1>4. Holders /\ TermsApart /\ AcceptsOnlyWanted /\ OpeningIsRunning
  BY <1>3 DEF Init, Holders, TermsApart, AcceptsOnlyWanted, OpeningIsRunning, NoAgent
<1>5. RowShape /\ LogBehindRow
  BY DEF Init, RowShape, LogBehindRow
<1> QED BY <1>1, <1>2, <1>4, <1>5 DEF IInv

(* ... and after every step, that of the row and that of the line together.*)
LEMMA NextIInv == IInv /\ [Next]_vars => IInv'
<1> SUFFICES ASSUME IInv, [Next]_vars PROVE IInv'
  OBVIOUS
<1>1. CASE Next
  <2>1. TypedOrb' /\ Ceiling' /\ orb.admission <= orb'.admission
    BY <1>1, OrbSteps DEF IInv
  <2>2. TermStep
    BY <1>1, TermSteps DEF IInv
  <2>3. TypedPlanes'
    BY <1>1, TypedPlanesStep DEF IInv
  <2>4. TypedLog'
    BY <2>1, <2>2, LogTypedStep DEF IInv
  <2>5. RowShape'
    BY <2>2, RowShapeStep DEF IInv
  <2>6. Holders' /\ TermsApart'
    BY <2>2, HoldersStep DEF IInv
  <2>7. LogBehindRow'
    BY <2>2, LogStep DEF IInv
  <2>8. UNCHANGED <<manager, agent>> \/ \E p \in Plane : PlaneStep(p)
    BY <1>1, PlaneSteps DEF IInv
  <2>9. OpeningIsRunning' /\ AcceptsOnlyWanted'
    BY <2>8, AcceptsStep, OpeningStep DEF IInv
  <2> QED BY <2>1, <2>3, <2>4, <2>5, <2>6, <2>7, <2>9 DEF IInv
<1>2. CASE UNCHANGED vars
  BY <1>2 DEF vars, IInv, TypedOrb, TypedLog, TypedPlanes, Ceiling, RowShape, Holders,
      TermsApart, LogBehindRow, OpeningIsRunning, Running, AcceptsOnlyWanted
<1> QED BY <1>1, <1>2

(* Every reachable state satisfies the inductive invariant.                 *)
THEOREM Inductive == Spec => []IInv
  BY InitIInv, NextIInv, PTL DEF Spec

(* The rows, the managers with their lines, the agents and the passes have  *)
(* their types; no admission exceeds what the bounded events allow.         *)
THEOREM TypeCorrect == Spec => []TypeOK
<1>1. IInv => TypeOK
  <2> SUFFICES ASSUME IInv PROVE TypeOK
    OBVIOUS
  <2>1. orb.admission \in Nat /\ orb.admission <= 2 * MaxEvents + 2 /\ MaxEvents \in Nat
    BY AgentAssumption DEF IInv, TypedOrb, Ceiling
  <2>2. 0 .. orb.admission \subseteq Admission /\ 2 * MaxEvents + 2 \in Nat
    BY <2>1 DEF Admission
  <2>3. OpUpTo(2 * MaxEvents + 2) = Op
    BY DEF OpUpTo, Op, Admission
  <2>4. /\ manager \in [Plane -> ManagerUpTo(2 * MaxEvents + 2)]
        /\ agent \in [Plane -> AgentUpTo(2 * MaxEvents + 2)]
        /\ pass \in [Plane -> PassUpTo(2 * MaxEvents + 2)]
    BY <2>1, <2>2, UpToGrows DEF IInv, TypedPlanes
  <2>5. /\ manager \in [Plane -> [alive : BOOLEAN, closing : BOOLEAN, disposed : BOOLEAN,
                                 known : Admission, queue : Seq(Op)]]
    BY <2>3, <2>4 DEF ManagerUpTo, Line, Admission
  <2>6. /\ agent \in [Plane -> [stage : Stage, fence : Nat, admission : Admission,
                            accepting : BOOLEAN, retiring : BOOLEAN,
                            draining : BOOLEAN, broken : BOOLEAN, paused : BOOLEAN]]
        /\ pass \in [Plane -> [step : {"idle", "seen", "prepared", "suspending",
                                   "suspended", "disposing", "disposed"},
                           state : OrbState, admission : Admission]]
    BY <2>4 DEF AgentUpTo, PassUpTo, Admission
  <2>7. orb \in [state : OrbState, admission : Admission, sealed : BOOLEAN]
    BY <2>1, <2>2 DEF IInv, TypedOrb
  <2>8. /\ row \in [owner : Plane \cup {NoPlane}, fence : Nat, admission : Admission,
                lease : {"held", "over"}, archived : BOOLEAN]
        /\ last \in [fence : Nat, admission : Admission, owner : Plane \cup {NoPlane},
                 closed : BOOLEAN]
    BY <2>2 DEF IInv, TypedLog
  <2> QED BY <2>5, <2>6, <2>7, <2>8 DEF IInv, TypedOrb, TypeOK
<1> QED BY <1>1, Inductive, PTL

(* No two agents ever hold the same term: no process, however late, writes  *)
(* under a term that another was granted.                                   *)
THEOREM TermsNeverShared == Spec => []TermsApart
<1>1. IInv => TermsApart
  BY DEF IInv
<1> QED BY <1>1, Inductive, PTL

(* An agent that accepts is the one its manager wants, through every        *)
(* interleaving of requests, openings, stops and disposals.                 *)
THEOREM AcceptedIsWanted == Spec => []AcceptsOnlyWanted
<1>1. IInv => AcceptsOnlyWanted
  BY DEF IInv
<1> QED BY <1>1, Inductive, PTL

(* The log is written in the order of its terms and admissions, by one      *)
(* owner in each term.                                                      *)
THEOREM OneWriter == Spec => CommitsInOrder
<1> DEFINE InOrder == last' # last => last'.fence > last.fence /\ last'.admission >= last.admission
<1>1. ASSUME IInv, [Next]_vars PROVE InOrder
  <2>1. CASE Next
    BY <1>1, <2>1, TermSteps, TermsInOrder DEF IInv
  <2>2. CASE UNCHANGED vars
    BY <2>2 DEF vars
  <2> QED BY <1>1, <2>1, <2>2
<1>2. IInv /\ [Next]_vars => [InOrder]_vars
  BY <1>1
<1> QED BY <1>2, Inductive, PTL DEF Spec, CommitsInOrder

(* After the seal of the archive or the end of the orb nobody commits and   *)
(* nobody is granted a lease.                                               *)
THEOREM ClosingHolds == Spec => ClosedForEver
<1> DEFINE Stays == Closed => ~last'.closed /\ (row'.lease = "held" => row.lease = "held")
<1>1. ASSUME IInv, [Next]_vars PROVE Stays
  <2>1. CASE Next
    BY <1>1, <2>1, TermSteps, ClosedStays DEF IInv
  <2>2. CASE UNCHANGED vars
    BY <1>1, <2>2 DEF vars, IInv, LogBehindRow
  <2> QED BY <1>1, <2>1, <2>2
<1>2. IInv /\ [Next]_vars => [Stays]_vars
  BY <1>1
<1> QED BY <1>2, Inductive, PTL DEF Spec, ClosedForEver

(* The protocol keeps the promise of AgentTerms: one log, in numbered terms,*)
(* that only the open term writes and nobody after the seal.                *)
THEOREM Implements == Spec => ImplementsTerms
<1>1. Init => Terms!Init
  BY DEF Init, Terms!Init, Closed
<1>2. ASSUME IInv, [Next]_vars PROVE [Terms!Next]_(Terms!vars)
  <2>1. CASE Next
    BY <1>2, <2>1, TermSteps, TermsSimulated DEF IInv
  <2>2. CASE UNCHANGED vars
    BY <2>2 DEF vars, Terms!vars, Closed
  <2> QED BY <1>2, <2>1, <2>2
<1>3. IInv /\ [Next]_vars => [Terms!Next]_(Terms!vars)
  BY <1>2
<1> QED BY <1>1, <1>3, Inductive, PTL DEF Spec, ImplementsTerms, Terms!Spec

--------------------------------------------------------------------------------
(* The seal of an archive: the line of a manager and the pass that waits.   *)

(* An operation that runs off the line leaves the last suspend.             *)
LEMMA TailKeepsSuspend ==
    ASSUME NEW a \in Nat, NEW q \in Line(a), q # <<>>, NEW v, LastSuspendIs(q, v)
    PROVE  LastSuspendIs(Tail(q), v)
<1>1. Len(q) \in Nat /\ Len(q) > 0 /\ Tail(q) \in Seq(OpUpTo(a)) /\ Len(Tail(q)) = Len(q) - 1
      /\ \A i \in 1 .. Len(q) - 1 : Tail(q)[i] = q[i + 1]
  BY HeadTailProperties, EmptySeq, LenProperties DEF Line
<1>2. PICK r : r = Tail(q)
  OBVIOUS
<1>3. ASSUME NEW i \in 1 .. Len(r), r[i].kind \in Suspends,
             \A j \in 2 .. Len(r) : i < j => r[j].kind \notin Suspends
      PROVE  r[i].kind = "suspend" /\ r[i].version = v
  <2>1. i + 1 \in 1 .. Len(q) /\ r[i] = q[i + 1]
    BY <1>1, <1>2, <1>3
  <2>2. ASSUME NEW j \in 2 .. Len(q), i + 1 < j PROVE q[j].kind \notin Suspends
    <3>1. j - 1 \in 2 .. Len(r) /\ i < j - 1 /\ r[j - 1] = q[j - 1 + 1] /\ j - 1 + 1 = j
      BY <1>1, <1>2, <1>3, <2>2
    <3> QED BY <1>3, <3>1
  <2> QED BY <1>3, <2>1, <2>2 DEF LastSuspendIs
<1>4. LastSuspendIs(r, v)
  BY <1>3 DEF LastSuspendIs
<1> QED BY <1>2, <1>4

(* So does an operation that moves on.                                     *)
LEMMA StepKeepsSuspend ==
    ASSUME NEW a \in Nat, NEW q \in Line(a), q # <<>>, NEW v, LastSuspendIs(q, v),
           NEW s \in {"queued", "retire", "open", "abandon"}
    PROVE  LastSuspendIs(HeadAt(q, s), v)
<1>1. 1 \in 1 .. Len(q) /\ q[1] \in OpUpTo(a) /\ Head(q) = q[1] /\ Len(q) \in Nat
  BY HeadOfLine
<1>2. PICK e \in OpUpTo(a) : e = At(Head(q), s)
  BY <1>1 DEF OpUpTo, At
<1>7. e.kind = q[1].kind /\ e.version = q[1].version
  BY <1>1, <1>2 DEF OpUpTo, At
<1>3. PICK r : r = HeadAt(q, s)
  OBVIOUS
<1>4. Len(r) = Len(q) /\ r[1] = e /\ \A i \in 1 .. Len(q) : i # 1 => r[i] = q[i]
  BY <1>1, <1>2, <1>3, ExceptSeq DEF Line, HeadAt
<1>5. \A i \in 1 .. Len(q) : r[i].kind = q[i].kind /\ r[i].version = q[i].version
  BY <1>1, <1>2, <1>4, <1>7
<1>6. LastSuspendIs(r, v)
  BY <1>1, <1>4, <1>5 DEF LastSuspendIs
<1> QED BY <1>3, <1>6

(* A request to open or to unload behind the suspend leaves it the last.    *)
LEMMA AppendKeepsSuspend ==
    ASSUME NEW a \in Nat, NEW q \in Line(a), NEW v, LastSuspendIs(q, v),
           NEW o \in OpUpTo(a), o.kind \notin Suspends
    PROVE  LastSuspendIs(Append(q, o), v)
<1>1. PICK r \in Seq(OpUpTo(a)) : /\ r = Append(q, o) /\ Len(q) \in Nat /\ Len(r) = Len(q) + 1
                                  /\ \A i \in 1 .. Len(q) : r[i] = q[i]
                                  /\ r[Len(q) + 1] = o
  BY AppendProperties, LenProperties DEF Line
<1>2. ASSUME NEW i \in 1 .. Len(r), r[i].kind \in Suspends,
             \A j \in 2 .. Len(r) : i < j => r[j].kind \notin Suspends
      PROVE  r[i].kind = "suspend" /\ r[i].version = v
  <2>1. i \in 1 .. Len(q)
    BY <1>1, <1>2
  <2>2. \A j \in 2 .. Len(q) : i < j => q[j].kind \notin Suspends
    BY <1>1, <1>2
  <2> QED BY <1>1, <1>2, <2>1, <2>2 DEF LastSuspendIs
<1>3. LastSuspendIs(r, v)
  BY <1>2 DEF LastSuspendIs
<1> QED BY <1>1, <1>3

(* A suspend that is asked for is the last of its line.                     *)
LEMMA SuspendIsLast ==
    ASSUME NEW a \in Nat, manager \in [Plane -> ManagerUpTo(a)], NEW p \in Plane,
           NEW version \in 0 .. a
    PROVE  LastSuspendIs(WithSuspend(p, "suspend", version), version)
<1> DEFINE q == manager[p].queue
           r == [i \in 1 .. Len(q) |-> [q[i] EXCEPT !.superseded = @ \/ q[i].kind \in Opens]]
           o == Operation("suspend", version)
<1>1. q \in Line(a) /\ Len(q) \in Nat
  BY LineTyped, LenProperties DEF Line
<1>2. o \in OpUpTo(a) /\ o.kind = "suspend" /\ o.version = version
  BY DEF Operation, OpUpTo
<1>3. r \in Line(a)
  BY <1>1, SupersedeLine
<1>4. WithSuspend(p, "suspend", version) = Append(r, o)
  BY DEF WithSuspend
<1> HIDE DEF r, o, q
<1>5. PICK s \in Seq(OpUpTo(a)) : /\ s = Append(r, o) /\ Len(r) \in Nat /\ Len(s) = Len(r) + 1
                                  /\ s[Len(r) + 1] = o
  BY <1>2, <1>3, AppendProperties, LenProperties DEF Line
<1>6. ASSUME NEW i \in 1 .. Len(s), \A j \in 2 .. Len(s) : i < j => s[j].kind \notin Suspends
      PROVE  s[i].kind = "suspend" /\ s[i].version = version
  <2>1. CASE i = Len(r) + 1
    BY <1>2, <1>5, <2>1
  <2>2. CASE i # Len(r) + 1
    BY <1>2, <1>5, <1>6, <2>2 DEF Suspends
  <2> QED BY <2>1, <2>2
<1>7. LastSuspendIs(s, version)
  BY <1>6 DEF LastSuspendIs
<1> QED BY <1>4, <1>5, <1>7

(* Another process than the one whose line moves sees nothing.              *)
LEMMA OthersRest ==
    ASSUME NEW p \in Plane, manager'[p] = manager[p], pass'[p] = pass[p]
    PROVE  PassingStep(p)
  BY DEF PassingStep, LineKept

(* The end of an operation, as the passes see it.                           *)
LEMMA EndOpPasses ==
    ASSUME NEW a \in Nat, manager \in [Plane -> ManagerUpTo(a)],
           pass \in [Plane -> PassUpTo(a)], NEW p \in Plane, Pending(p), NEW b, EndOp(p, b),
           b /\ Running(p).kind \in Suspends
             /\ (\A i \in 2 .. Len(manager[p].queue) : manager[p].queue[i].kind \notin Suspends)
             /\ pass[p].step = "suspending"
           => agent'[p].stage = "none" \/ agent[p].admission > pass[p].admission
    PROVE  \A q \in Plane : PassingStep(q)
<1> DEFINE r == Tail(manager[p].queue)
<1>1. manager[p].queue \in Line(a) /\ manager[p].queue # <<>> /\ r \in Line(a)
  BY LineTyped, HeadOfLine
<1>2. manager' = [manager EXCEPT ![p].queue = r]
  BY DEF EndOp
<1>3. LineKept(p)
  <2>1. \A v : LastSuspendIs(manager[p].queue, v) => LastSuspendIs(r, v)
    BY <1>1, TailKeepsSuspend
  <2>2. manager'[p].queue = r
    BY <1>1, <1>2, NewLine
  <2> QED BY <2>1, <2>2 DEF LineKept
<1>4. ASSUME NEW q \in Plane, q # p PROVE PassingStep(q)
  <2>1. manager'[q] = manager[q]
    BY <1>1, <1>2, <1>4, NewLine DEF OnlyLine
  <2>2. pass'[q] = pass[q]
    BY <1>4 DEF EndOp
  <2> QED BY <2>1, <2>2, OthersRest
<1>5. PassingStep(p)
  <2>1. CASE pass' = pass
    BY <1>3, <2>1 DEF PassingStep
  <2>2. CASE pass' = [pass EXCEPT ![p] = NoPass]
    BY <2>2 DEF PassingStep
  <2>3. CASE pass' = [pass EXCEPT ![p] = PassAt(p, "disposed")]
    BY <2>3 DEF PassingStep
  <2>4. CASE /\ b /\ pass[p].step = "suspending" /\ Running(p).kind \in Suspends
             /\ \A i \in 2 .. Len(manager[p].queue) : manager[p].queue[i].kind \notin Suspends
             /\ pass' = [pass EXCEPT ![p] = PassAt(p, "suspended")]
    <3>1. pass'[p] = PassAt(p, "suspended")
      BY <2>4
    <3> QED BY <2>4, <3>1 DEF PassingStep, AnswerStep
  <2> QED BY <2>1, <2>2, <2>3, <2>4 DEF EndOp, PassAt
<1> QED BY <1>4, <1>5

(* A step of the running operation, as the passes see it.                   *)
LEMMA StepToPasses ==
    ASSUME NEW a \in Nat, manager \in [Plane -> ManagerUpTo(a)], NEW p \in Plane, Pending(p),
           NEW s \in {"queued", "retire", "open", "abandon"}, StepTo(p, s), UNCHANGED pass
    PROVE  \A q \in Plane : PassingStep(q)
<1>1. PICK q \in Line(a) : q = manager[p].queue /\ q # <<>>
  BY LineTyped
<1>2. PICK r : r = HeadAt(q, s)
  OBVIOUS
<1>3. r \in Line(a) /\ r = [q EXCEPT ![1].step = s]
  BY <1>1, <1>2, StepInLine, HeadOfLine DEF HeadAt, At
<1>4. manager' = [manager EXCEPT ![p].queue = r]
  BY <1>1, <1>3 DEF StepTo
<1>5. manager'[p].queue = r /\ OnlyLine(p)
  BY <1>3, <1>4, NewLine
<1>6. LineKept(p)
  BY <1>1, <1>2, <1>5, StepKeepsSuspend DEF LineKept
<1>7. PassingStep(p)
  BY <1>6 DEF PassingStep
<1> QED BY <1>5, <1>7, OthersRest DEF OnlyLine

(* A request to open, whose pass is over or goes on with something else.    *)
LEMMA EnsurePasses ==
    ASSUME NEW a \in Nat, manager \in [Plane -> ManagerUpTo(a)], NEW p \in Plane,
           NEW kind \in Opens, NEW version \in 0 .. a, RequestEnsure(p, kind, version)
    PROVE  LineKept(p) /\ \A q \in Plane \ {p} : manager'[q] = manager[q]
<1>1. CASE UNCHANGED manager
  BY <1>1 DEF LineKept
<1>2. CASE manager' = [manager EXCEPT ![p].known = version,
                                      ![p].queue = Append(@, Operation(kind, version))]
  <2> DEFINE r == Append(manager[p].queue, Operation(kind, version))
  <2>1. Operation(kind, version) \in OpUpTo(a) /\ Operation(kind, version).kind \notin Suspends
    BY DEF Operation, OpUpTo, Opens, Suspends
  <2>3. \A v : LastSuspendIs(manager[p].queue, v) => LastSuspendIs(r, v)
    BY <2>1, LineTyped, AppendKeepsSuspend
  <2>4. manager' = [manager EXCEPT ![p].known = version, ![p].queue = r]
    BY <1>2
  <2> HIDE DEF r
  <2>5. manager'[p].queue = r /\ \A q \in Plane \ {p} : manager'[q] = manager[q]
    BY <2>4 DEF ManagerUpTo
  <2> QED BY <2>3, <2>5 DEF LineKept
<1> QED BY <1>1, <1>2 DEF RequestEnsure

(* What the pass of an archive asks for, or finds that it is too late for.  *)
LEMMA ArchiveAsks ==
    ASSUME TypedOrb, TypedPlanes, NEW p \in Plane, pass[p].state = "archiving", SuspendForArchive(p)
    PROVE  \A q \in Plane : PassingStep(q)
<1>1. /\ orb.admission \in Nat /\ manager \in [Plane -> ManagerUpTo(orb.admission)]
      /\ pass \in [Plane -> PassUpTo(orb.admission)] /\ pass[p].admission \in 0 .. orb.admission
  BY DEF TypedOrb, TypedPlanes, PassUpTo
<1>2. CASE SuspendIsLate(p, pass[p].admission) /\ PassTo(p, "suspended") /\ UNCHANGED manager
  <2>1. pass' = [pass EXCEPT ![p] = PassAt(p, "suspended")]
    BY <1>2 DEF PassTo, PassAt
  <2>2. pass'[p] = PassAt(p, "suspended") /\ \A q \in Plane : q # p => pass'[q] = pass[q]
    BY <1>1, <2>1
  <2>3. manager[p].known > pass[p].admission
    BY <1>2 DEF SuspendIsLate
  <2>4. PassingStep(p)
    BY <2>2, <2>3 DEF PassingStep, LateStep
  <2> QED BY <1>2, <2>2, <2>4, OthersRest
<1>3. CASE PassTo(p, "suspending") /\ RequestSuspend(p, pass[p].admission)
  <2>1. pass' = [pass EXCEPT ![p] = PassAt(p, "suspending")]
    BY <1>3 DEF PassTo, PassAt
  <2>2. pass'[p] = PassAt(p, "suspending") /\ \A q \in Plane : q # p => pass'[q] = pass[q]
    BY <1>1, <2>1
  <2>3. PICK r \in Line(orb.admission) : r = WithSuspend(p, "suspend", pass[p].admission)
    BY <1>1, WithSuspendEffect DEF Suspends
  <2>4. manager' = [manager EXCEPT ![p].queue = r, ![p].known = pass[p].admission]
    BY <1>3, <2>3 DEF RequestSuspend
  <2>5. manager'[p].queue = r /\ \A q \in Plane : q # p => manager'[q] = manager[q]
    BY <1>1, <2>3, <2>4 DEF ManagerUpTo
  <2>6. LastSuspendIs(manager'[p].queue, pass[p].admission)
    BY <1>1, <2>3, <2>5, SuspendIsLast
  <2>7. PassingStep(p)
    BY <2>2, <2>6 DEF PassingStep, AskStep
  <2> QED BY <2>2, <2>5, <2>7, OthersRest
<1> QED BY <1>2, <1>3 DEF SuspendForArchive

(* A pass that is over or moves on, beside the line of its process.         *)
LEMMA PassAlone ==
    ASSUME NEW p \in Plane, \A q \in Plane \ {p} : manager'[q] = manager[q] /\ pass'[q] = pass[q],
           pass'[p] = NoPass \/ pass'[p] \in {PassAt(p, "disposing"), PassAt(p, "disposed")}
    PROVE  \A q \in Plane : PassingStep(q)
<1>1. PassingStep(p)
  BY DEF PassingStep
<1> QED BY <1>1, OthersRest

(* What every step does to the passes and the lines they wait for.          *)
LEMMA PassingSteps ==
    ASSUME TypedOrb, TypedPlanes, ArchivePass, AwaitsItsSuspend, OpeningIsRunning, Next
    PROVE  \A p \in Plane : PassingStep(p)
<1>a. /\ orb.admission \in Nat /\ manager \in [Plane -> ManagerUpTo(orb.admission)]
      /\ agent \in [Plane -> AgentUpTo(orb.admission)]
      /\ pass \in [Plane -> PassUpTo(orb.admission)]
  BY DEF TypedOrb, TypedPlanes
<1> DEFINE G == \A p \in Plane : PassingStep(p)
<1>b. ASSUME UNCHANGED <<manager, pass>> PROVE G
  BY <1>b, OthersRest
<1>1. CASE Environment
  BY <1>1, <1>b DEF Environment, LeaseLapses, Stop, Start, RequestArchive, RequestDeletion
<1>2. ASSUME NEW p \in Plane, AgentStep(p) \/ TurnStep(p) PROVE G
  BY <1>2, <1>b DEF AgentStep, HeartbeatFails, BeginDrain, Release, TurnStep, StartTurn, FinishTurn, Settle
<1>c. ASSUME NEW p \in Plane, Pending(p), NEW b \in BOOLEAN, EndOp(p, b), ~b \/ Running(p).kind \notin Suspends PROVE G
  BY <1>a, <1>c, EndOpPasses
<1>3. ASSUME NEW p \in Plane, StartEnsure(p) PROVE G
  <2>1. Pending(p) /\ Running(p).kind \notin Suspends
    BY <1>3 DEF StartEnsure, Opens, Suspends
  <2>2. CASE EndOp(p, Admitted(p))
    BY <1>c, <2>1, <2>2 DEF Admitted
  <2>3. ASSUME NEW s \in {"retire", "open"}, StepTo(p, s), UNCHANGED pass PROVE G
    BY <1>a, <2>1, <2>3, StepToPasses
  <2> QED BY <1>3, <2>2, <2>3 DEF StartEnsure
<1>4. ASSUME NEW p \in Plane, StartSuspend(p) PROVE G
  <2>1. Pending(p) /\ Running(p) = manager[p].queue[1] /\ 1 \in 1 .. Len(manager[p].queue)
    <3>1. Pending(p)
      BY <1>4 DEF StartSuspend
    <3>2. manager[p].queue \in Line(orb.admission) /\ manager[p].queue # <<>>
      BY <1>a, <3>1, LineTyped
    <3> QED BY <1>a, <3>1, <3>2, HeadOfLine DEF Running
  <2>2. ASSUME EndOp(p, TRUE), UNCHANGED agent,
               agent[p].stage = "none" \/ (Running(p).kind = "suspend" /\ agent[p].admission > Running(p).version)
        PROVE  G
    <3>1. ASSUME Running(p).kind \in Suspends, pass[p].step = "suspending",
                 \A i \in 2 .. Len(manager[p].queue) : manager[p].queue[i].kind \notin Suspends
          PROVE  agent'[p].stage = "none" \/ agent[p].admission > pass[p].admission
      <4>1. LastSuspendIs(manager[p].queue, pass[p].admission)
        BY <3>1 DEF AwaitsItsSuspend
      <4>2. Running(p).version = pass[p].admission
        BY <2>1, <3>1, <4>1 DEF LastSuspendIs
      <4> QED BY <2>2, <4>2
    <3> QED BY <1>a, <2>1, <2>2, <3>1, EndOpPasses
  <2>3. ASSUME StepTo(p, "abandon"), UNCHANGED pass PROVE G
    BY <1>a, <2>1, <2>3, StepToPasses
  <2> QED BY <1>4, <2>2, <2>3 DEF StartSuspend
<1>5. ASSUME NEW p \in Plane, StartUnload(p) PROVE G
  <2>1. Pending(p)
    BY <1>5 DEF StartUnload
  <2>2. CASE EndOp(p, FALSE)
    BY <1>c, <2>1, <2>2
  <2>3. ASSUME StepTo(p, "abandon"), UNCHANGED pass PROVE G
    BY <1>a, <2>1, <2>3, StepToPasses
  <2> QED BY <1>5, <2>2, <2>3 DEF StartUnload
<1>6. ASSUME NEW p \in Plane, RetirementEnds(p) PROVE G
  <2>1. Pending(p)
    BY <1>6 DEF RetirementEnds
  <2>2. CASE StepTo(p, "open") /\ UNCHANGED pass
    BY <1>a, <2>1, <2>2, StepToPasses
  <2>3. CASE agent' = [agent EXCEPT ![p] = NoAgent] /\ EndOp(p, TRUE)
    <3>1. agent'[p].stage = "none"
      BY <1>a, <2>3 DEF NoAgent
    <3> QED BY <1>a, <2>1, <2>3, <3>1, EndOpPasses
  <2>4. CASE EndOp(p, FALSE)
    BY <1>c, <2>1, <2>4
  <2> QED BY <1>6, <2>2, <2>3, <2>4 DEF RetirementEnds
<1>7. ASSUME NEW p \in Plane, Acquire(p) PROVE G
  <2>1. Pending(p)
    BY <1>7 DEF Acquire, Opening
  <2>2. CASE EndOp(p, FALSE)
    BY <1>c, <2>1, <2>2
  <2>3. CASE UNCHANGED <<manager, pass>>
    BY <1>b, <2>3
  <2> QED BY <1>7, <2>2, <2>3 DEF Acquire
<1>8. ASSUME NEW p \in Plane, Publish(p) PROVE G
  <2>1. Pending(p) /\ Running(p).kind \notin Suspends
    BY <1>8 DEF Publish, Opening, OpeningIsRunning, Opens, Suspends
  <2>2. CASE EndOp(p, TRUE)
    BY <1>c, <2>1, <2>2
  <2>3. CASE StepTo(p, "abandon") /\ UNCHANGED pass
    BY <1>a, <2>1, <2>3, StepToPasses
  <2> QED BY <1>8, <2>2, <2>3 DEF Publish
<1>9. ASSUME NEW p \in Plane, OpenFails(p) PROVE G
  <2>1. Pending(p) /\ EndOp(p, FALSE)
    BY <1>9 DEF OpenFails, Opening
  <2> QED BY <1>c, <2>1
<1>10. ASSUME NEW p \in Plane, ReadOrb(p) PROVE G
  <2>1. pass'[p] = [step |-> "seen", state |-> orb.state, admission |-> orb.admission]
        /\ \A q \in Plane \ {p} : pass'[q] = pass[q]
    BY <1>10, <1>a DEF ReadOrb
  <2>2. PassingStep(p)
    BY <2>1 DEF PassingStep
  <2> QED BY <1>10, <2>1, <2>2, OthersRest DEF ReadOrb
<1>d. ASSUME NEW p \in Plane, NEW s \in {"idle", "disposing"}, PassTo(p, s)
      PROVE  /\ \A q \in Plane \ {p} : pass'[q] = pass[q]
             /\ pass'[p] = NoPass \/ pass'[p] \in {PassAt(p, "disposing"), PassAt(p, "disposed")}
  BY <1>a, <1>d DEF PassTo, PassAt
<1>11. ASSUME NEW p \in Plane, ReconcileAgent(p) PROVE G
  <2>1. pass[p].admission \in 0 .. orb.admission
    BY <1>a DEF PassUpTo
  <2>2. \A q \in Plane \ {p} : manager'[q] = manager[q]
    <3>1. CASE RequestEnsure(p, "ensure", pass[p].admission)
      BY <1>a, <2>1, <3>1, EnsurePasses DEF Opens
    <3>2. CASE RequestSuspend(p, pass[p].admission)
      BY <1>a, <3>2 DEF RequestSuspend
    <3> QED BY <1>11, <3>1, <3>2 DEF ReconcileAgent
  <2> QED BY <1>11, <1>d, <2>2, PassAlone DEF ReconcileAgent
<1>12. ASSUME NEW p \in Plane, UnloadIdle(p) PROVE G
  BY <1>12, <1>a, <1>d, PassAlone DEF UnloadIdle
<1>13. ASSUME NEW p \in Plane, PrepareArchive(p) PROVE G
  <2>1. pass[p].state = "archiving"
    BY <1>13 DEF PrepareArchive, Seen
  <2>2. CASE PassTo(p, "idle") /\ UNCHANGED manager
    BY <1>d, <2>2, PassAlone
  <2>3. CASE PassTo(p, "prepared") /\ UNCHANGED manager
    <3>1. pass'[p] = PassAt(p, "prepared") /\ \A q \in Plane \ {p} : pass'[q] = pass[q]
      BY <1>a, <2>3 DEF PassTo, PassAt
    <3>2. PassingStep(p)
      BY <2>1, <3>1 DEF PassingStep
    <3> QED BY <2>3, <3>1, <3>2, OthersRest
  <2>4. CASE SuspendForArchive(p)
    BY <2>1, <2>4, ArchiveAsks
  <2> QED BY <1>13, <2>2, <2>3, <2>4 DEF PrepareArchive
<1>14. ASSUME NEW p \in Plane, SuspendArchived(p) PROVE G
  BY <1>14, ArchiveAsks DEF SuspendArchived, ArchivePass
<1>15. ASSUME NEW p \in Plane, SealArchive(p) PROVE G
  BY <1>15, <1>d, PassAlone DEF SealArchive
<1>16. ASSUME NEW p \in Plane, DisposeAgent(p) PROVE G
  BY <1>16, <1>a, <1>d, PassAlone DEF DisposeAgent
<1>17. ASSUME NEW p \in Plane, FinalizeDisposal(p) PROVE G
  BY <1>17, <1>d, PassAlone DEF FinalizeDisposal
<1>18. ASSUME NEW p \in Plane, PassGivesUp(p) PROVE G
  BY <1>18, <1>d, PassAlone DEF PassGivesUp
<1>19. ASSUME NEW p \in Plane, Shutdown(p) \/ Exit(p) PROVE G
  <2>1. /\ pass'[p] = NoPass
        /\ \A q \in Plane \ {p} : manager'[q] = manager[q] /\ pass'[q] = pass[q]
    BY <1>19, <1>a DEF Shutdown, Exit
  <2> QED BY <2>1, PassAlone
<1>20. ASSUME NEW p \in Plane, Consult(p) PROVE G
  <2>1. \E kind \in Opens : RequestEnsure(p, kind, orb.admission)
    BY <1>20 DEF Consult, Opens
  <2>2. LineKept(p) /\ \A q \in Plane \ {p} : manager'[q] = manager[q]
    BY <1>a, <2>1, EnsurePasses
  <2>3. PassingStep(p)
    BY <1>20, <2>2 DEF Consult, PassingStep
  <2> QED BY <1>20, <2>2, <2>3, OthersRest DEF Consult
<1> QED BY <1>1, <1>2, <1>3, <1>4, <1>5, <1>6, <1>7, <1>8, <1>9, <1>10, <1>11, <1>12, <1>13, <1>14, <1>15, <1>16, <1>17, <1>18, <1>19, <1>20 DEF Next, ManagerStep, PassStep

(* Nothing puts an archived orb back to work, and as long as it is archiving*)
(* its admission stays.                                                     *)
LEMMA ArchiveMoves ==
    ASSUME TypedOrb, TermStep
    PROVE  /\ orb'.state \in {"live", "stopped"} => orb.state \in {"live", "stopped"}
           /\ orb'.state = "archiving" => orb.state \in {"live", "stopped", "archiving"}
           /\ orb'.state = "archiving" /\ orb.state = "archiving"
                => orb'.admission = orb.admission
<1>1. CASE UNCHANGED orb
  BY <1>1
<1>2. CASE CommandStep
  BY <1>2 DEF CommandStep, OrbState
<1>3. CASE SealStep
  BY <1>3 DEF SealStep, TypedOrb
<1> QED BY <1>1, <1>2, <1>3 DEF TermStep, QuietStep, LapseStep, WriteStep, ReleaseStep, GrantStep

(* While the orb is archiving no agent comes into being.                    *)
LEMMA NoneOpens ==
    ASSUME TermStep, orb.state = "archiving", NEW p \in Plane, agent[p].stage = "none"
    PROVE  agent'[p].stage = "none"
<1>1. NoAgent.stage = "none"
  BY DEF NoAgent
<1>2. CASE TermsKept
  BY <1>1, <1>2 DEF TermsKept
<1>3. CASE UNCHANGED agent
  BY <1>3
<1> QED BY <1>2, <1>3 DEF TermStep, QuietStep, LapseStep, CommandStep, SealStep, WriteStep, ReleaseStep,
        GrantStep, MayAcquire

(* Every step keeps what the seal rests on.                                 *)
LEMMA SealStepKeeps ==
    ASSUME IInv, SealInv, Next
    PROVE  SealInv'
<1>1. TypedOrb /\ TypedPlanes /\ OpeningIsRunning /\ ArchivePass /\ AwaitsItsSuspend /\ SuspendedWithoutAgent
  BY DEF IInv, SealInv
<1>2. TermStep
  BY TermSteps DEF IInv
<1>3. \A p \in Plane : PassingStep(p)
  BY <1>1, PassingSteps
<1>4. /\ orb.admission \in Nat /\ manager \in [Plane -> ManagerUpTo(orb.admission)]
      /\ agent \in [Plane -> AgentUpTo(orb.admission)]
      /\ pass \in [Plane -> PassUpTo(orb.admission)]
  BY <1>1 DEF TypedOrb, TypedPlanes
<1>a. ASSUME NEW p \in Plane
      PROVE  /\ pass[p].admission \in Nat /\ pass[p].admission <= orb.admission
             /\ manager[p].known \in Nat /\ manager[p].known <= orb.admission
             /\ agent[p].admission \in Nat /\ agent[p].admission <= orb.admission
  BY <1>4 DEF PassUpTo, ManagerUpTo, AgentUpTo
<1>b. ASSUME NEW p \in Plane, NEW s
      PROVE  /\ PassAt(p, s).state = pass[p].state /\ PassAt(p, s).admission = pass[p].admission
             /\ PassAt(p, s).step = s
  BY <1>4 DEF PassAt, PassUpTo
<1>c. NoPass.step = "idle" /\ NoPass.state = "live"
  BY DEF NoPass
<1>5. ArchivePass'
  <2> SUFFICES ASSUME NEW p \in Plane
               PROVE  /\ pass'[p].step \in {"prepared", "suspending", "suspended"}
                           => pass'[p].state = "archiving"
                      /\ pass'[p].state = "archiving" =>
                            /\ orb'.state \notin {"live", "stopped"}
                            /\ orb'.state = "archiving" => pass'[p].admission = orb'.admission
    BY DEF ArchivePass
  <2>1. CASE pass'[p].state = pass[p].state /\ pass'[p].admission = pass[p].admission
    <3>1. pass'[p].step \in {"prepared", "suspending", "suspended"} => pass'[p].state = "archiving"
      BY <1>1, <1>3, <1>b, <1>c, <2>1 DEF PassingStep, AskStep, AnswerStep, LateStep, ArchivePass
    <3>2. pass'[p].state = "archiving" => orb'.state \notin {"live", "stopped"}
      BY <1>1, <1>2, <2>1, ArchiveMoves DEF ArchivePass
    <3>3. pass'[p].state = "archiving" /\ orb'.state = "archiving" => pass'[p].admission = orb'.admission
      BY <1>1, <1>2, <2>1, ArchiveMoves DEF ArchivePass
    <3> QED BY <3>1, <3>2, <3>3
  <2>2. CASE pass'[p] = NoPass
    BY <1>c, <2>2
  <2>3. CASE pass'[p] = [step |-> "seen", state |-> orb.state, admission |-> orb.admission]
    BY <1>1, <1>2, <2>3, ArchiveMoves
  <2> QED BY <1>3, <1>b, <2>1, <2>2, <2>3 DEF PassingStep, AskStep, AnswerStep, LateStep
<1>6. AwaitsItsSuspend'
  <2> SUFFICES ASSUME NEW p \in Plane, pass'[p].step = "suspending"
               PROVE  LastSuspendIs(manager'[p].queue, pass'[p].admission)
    BY DEF AwaitsItsSuspend, LastSuspendIs
  <2>1. CASE pass'[p] = pass[p] /\ LineKept(p)
    BY <1>1, <1>a, <2>1 DEF LineKept, AwaitsItsSuspend
  <2>2. CASE AskStep(p)
    BY <1>b, <2>2 DEF AskStep
  <2> QED BY <1>3, <1>b, <1>c, <2>1, <2>2 DEF PassingStep, AnswerStep, LateStep
<1>7. SuspendedWithoutAgent'
  <2> SUFFICES ASSUME NEW p \in Plane, orb'.state = "archiving", pass'[p].step = "suspended"
               PROVE  agent'[p].stage = "none"
    BY DEF SuspendedWithoutAgent
  <2>1. pass'[p].state = "archiving" /\ orb'.state = "archiving"
    BY <1>5 DEF ArchivePass
  <2>2. pass'[p].state = pass[p].state /\ pass'[p].admission = pass[p].admission
    BY <1>3, <1>b, <1>c, <2>1 DEF PassingStep, AskStep, AnswerStep, LateStep
  <2>3. orb.state = "archiving" /\ pass[p].admission = orb.admission
    BY <1>1, <1>2, <2>1, <2>2, ArchiveMoves DEF ArchivePass
  <2>4. CASE pass'[p] = pass[p]
    BY <1>1, <1>2, <2>3, <2>4, NoneOpens DEF SuspendedWithoutAgent
  <2>5. CASE AnswerStep(p)
    BY <1>a, <2>3, <2>5 DEF AnswerStep
  <2>6. CASE LateStep(p)
    BY <1>a, <2>3, <2>6 DEF LateStep
  <2> QED BY <1>3, <1>b, <1>c, <2>4, <2>5, <2>6 DEF PassingStep, AskStep
<1> QED BY <1>5, <1>6, <1>7 DEF SealInv

(* No other step than the transaction of the seal seals the orb.            *)
LEMMA SealedBySeal ==
    ASSUME orb \in [state : OrbState, admission : Nat, sealed : BOOLEAN], Next,
           ~orb.sealed, orb'.sealed
    PROVE  \E p \in Plane : SealArchive(p)
<1>1. ~Environment
  BY DEF Environment, LeaseLapses, Stop, Start, RequestArchive, RequestDeletion
<1>2. \A p \in Plane : ~ManagerStep(p)
  BY DEF ManagerStep, StartEnsure, StartSuspend, StartUnload, RetirementEnds, Acquire, Publish, OpenFails, stored
<1>3. \A p \in Plane : ~AgentStep(p) /\ ~TurnStep(p)
  BY DEF AgentStep, HeartbeatFails, BeginDrain, Release, TurnStep, StartTurn, FinishTurn, Settle, stored
<1>4. \A p \in Plane : ~Shutdown(p) /\ ~Exit(p) /\ ~Consult(p)
  BY DEF Shutdown, Exit, Consult, stored
<1>5. \A p \in Plane : PassStep(p) => SealArchive(p)
  BY DEF PassStep, ReadOrb, ReconcileAgent, UnloadIdle, PrepareArchive, SuspendArchived, DisposeAgent,
     FinalizeDisposal, PassGivesUp, stored
<1> QED BY <1>1, <1>2, <1>3, <1>4, <1>5 DEF Next

(* Every reachable state has what the seal rests on.                        *)
THEOREM SealGuarded == Spec => []SealInv
<1>1. Init => SealInv
  <2> SUFFICES ASSUME Init PROVE SealInv
    OBVIOUS
  <2>1. \A p \in Plane : pass[p].step = "idle" /\ pass[p].state = "live"
    BY DEF Init, NoPass
  <2> QED BY <2>1 DEF SealInv, ArchivePass, AwaitsItsSuspend, SuspendedWithoutAgent
<1>2. ASSUME IInv, SealInv, [Next]_vars PROVE SealInv'
  <2>1. CASE UNCHANGED vars
    BY <1>2, <2>1 DEF vars, SealInv, ArchivePass, AwaitsItsSuspend, SuspendedWithoutAgent, LastSuspendIs
  <2> QED BY <1>2, <2>1, SealStepKeeps
<1>3. IInv /\ SealInv /\ [Next]_vars => SealInv'
  BY <1>2
<1> QED BY <1>1, <1>3, Inductive, PTL DEF Spec

(* The process that seals an archive has let its own agent go, however the  *)
(* requests of readers, the newer admissions and the late answers fell.     *)
THEOREM SealWaitsForAgent == Spec => SealsWithoutAgent
<1> DEFINE Waits == ~orb.sealed /\ orb'.sealed =>
                      \E p \in Plane : pass[p].step = "suspended" /\ pass'[p].step = "idle"
                                       /\ agent[p].stage = "none"
<1>1. ASSUME IInv, SealInv, [Next]_vars PROVE Waits
  <2> SUFFICES ASSUME ~orb.sealed, orb'.sealed PROVE Waits
    OBVIOUS
  <2>1. Next /\ orb \in [state : OrbState, admission : Nat, sealed : BOOLEAN]
    BY <1>1 DEF vars, IInv, TypedOrb
  <2>2. PICK p \in Plane : SealArchive(p)
    BY <2>1, SealedBySeal
  <2>3. pass[p].step = "suspended" /\ orb.state = "archiving" /\ PassTo(p, "idle")
    BY <2>2 DEF SealArchive
  <2>4. pass'[p].step = "idle"
    BY <1>1, <2>3 DEF PassTo, NoPass, IInv, TypedPlanes
  <2> QED BY <1>1, <2>3, <2>4 DEF SealInv, SuspendedWithoutAgent
<1>2. IInv /\ SealInv /\ [Next]_vars => [Waits]_vars
  BY <1>1
<1> QED BY <1>2, Inductive, SealGuarded, PTL DEF Spec, SealsWithoutAgent

================================================================================
