-------------------------- MODULE OrbComputeProofs --------------------------
(***************************************************************************)
(* Proofs about OrbCompute, for any set of reconcilers, any specifications *)
(* and generations they carry and any number of incarnations.              *)
(*                                                                         *)
(* Most steps do one of four things, and a lemma each says what it takes   *)
(* for the inductive invariant to survive it: a pass ends, a pass moves to *)
(* its next step, a transaction ends the pass, a transaction hands the     *)
(* pass the updated row.  The hosts may change under the first two.        *)
(***************************************************************************)
EXTENDS OrbComputeInv, TLAPS

(* Tokens of an incarnation only grow, nothing appears beyond the live       *)
(* incarnation, and a host that is ready was so already or is authorised.    *)
HostsEvolve ==
    /\ hosts' \in [Incarnation -> Host]
    /\ \A i \in Incarnation :
          /\ hosts[i].token <= hosts'[i].token
          /\ i > orb.incarnation => hosts'[i] = hosts[i]
          /\ hosts'[i].status = "ready" =>
                \/ hosts[i].status = "ready" /\ hosts'[i].token = hosts[i].token
                \/ orb.token = <<i, hosts'[i].token>>

(* What the row alone, and the row with the hosts, must satisfy.             *)
RowHolds(row) ==
    /\ row \in OrbRow
    /\ row.hostRef \in {NoHost, row.incarnation}
    /\ row.state = "failed" => row.hostRef = NoHost \/ row.discardThrough = row.incarnation
    /\ row.discardThrough # NoFence =>
          row.token = NoToken /\ row.discardThrough = row.incarnation
    /\ row.state = "running" => row.discardThrough = NoFence /\ row.hostRef # NoHost
    /\ row.token # NoToken =>
          /\ row.token[1] = row.incarnation
          /\ row.hostRef = row.incarnation
          /\ row.token[2] <= hosts[row.incarnation].token
    /\ (row.discardThrough = NoFence /\ hosts[row.incarnation].status = "ready") =>
          row.token = <<row.incarnation, hosts[row.incarnation].token>>

(* What a pass that works from `row` must satisfy to stand at `label`.       *)
MayStandAt(r, row, label) ==
    LET boots == row.state \in {"creating", "starting"}
    IN  /\ label \in PC \ {"idle"}
        /\ row.discardThrough # NoFence <=> label \in {"discard", "finalize"}
        /\ label \in {"admit", "reread", "provision", "commit", "enter"} => boots
        /\ label \in {"observe", "decide", "enter", "restart", "rebound"} =>
              row.hostRef # NoHost
        /\ label = "restart" => row.state = "running"
        /\ (label \in {"reread", "provision", "commit", "observe", "decide"} /\ boots) =>
              row.spec \in {NoSpec, SpecOf[r]} \/ GenOf[r] >= row.gen

(* What it must hold to commit a token.                                      *)
MayCommit(r) ==
    /\ minted'[r][1] = seen[r].incarnation
    /\ minted'[r][2] <= hosts'[seen[r].incarnation].token
    /\ (r \in current /\ orb.token # NoToken) => orb.token[2] <= minted'[r][2]

-----------------------------------------------------------------------------
(* Types *)

(* The constants, the null values and the initial records.                  *)
LEMMA Types ==
    /\ MaxIncarnation \in Nat /\ MaxTokens \in Nat
    /\ SpecOf \in [Reconcilers -> Nat] /\ GenOf \in [Reconcilers -> Nat]
    /\ NoHost = -1 /\ NoFence = -1 /\ NoSpec = 0 /\ NoGen = 0
    /\ NoToken = <<-1, 0>> /\ NoToken \in Tokens
    /\ NewRow \in OrbRow /\ NoHostYet \in Host
    /\ NoObservation \in [status: HostStatus, spec: Nat]
    /\ 0 \in Incarnation /\ Incarnation \subseteq Nat
BY ConstantsAssumption
   DEF ConstantsAssumption, Incarnation, NoHost, NoFence, NoSpec, NoGen, NoToken, Tokens,
       NewRow, OrbRow, OrbState, DiscardReason, NoHostYet, Host, HostStatus, NoObservation

(* The columns of a well-typed row.                                         *)
LEMMA RowTypes ==
    ASSUME NEW row \in OrbRow
    PROVE  /\ row.incarnation \in Incarnation /\ row.incarnation \in Nat
           /\ row.hostRef \in Incarnation \cup {-1}
           /\ row.discardThrough \in Incarnation \cup {-1}
           /\ row.token \in Tokens /\ row.token[1] \in Incarnation \cup {-1}
           /\ row.token[2] \in Nat /\ row.token = <<row.token[1], row.token[2]>>
           /\ row.spec \in Nat /\ row.gen \in Nat
BY Types DEF OrbRow, Tokens, Incarnation, NoHost, NoFence

(* The columns of a well-typed host.                                        *)
LEMMA HostTypes ==
    ASSUME TypeOK, NEW i \in Incarnation
    PROVE  hosts[i] \in Host /\ hosts[i].token \in Nat /\ hosts[i].spec \in Nat
BY DEF TypeOK, Host

(* The invariant's part about the row, in one formula.                      *)
LEMMA RowHoldsNow == IInv => RowHolds(orb)
BY DEF IInv, TypeOK, RowHolds, HostRefNamesIncarnation, FailedRetainsNoCompute,
       CondemnedIsUnauthorised, RunningIsUncondemned, RunningHasHost, TokenNamesHost,
       ReadyHoldsToken

(* The row's relation to the hosts survives when only the hosts change.     *)
LEMMA HostsStep ==
    ASSUME IInv, orb' = orb, HostsEvolve
    PROVE  TokenNamesHost' /\ NoHostAhead' /\ ReadyHoldsToken'
<1>1. TokenNamesHost'
  <2> SUFFICES ASSUME orb.token # NoToken
      PROVE orb.token[2] <= hosts'[orb.incarnation].token
    BY DEF IInv, TokenNamesHost
  <2>1. /\ orb.incarnation \in Incarnation
        /\ orb.token[2] \in Nat /\ hosts[orb.incarnation].token \in Nat
        /\ hosts'[orb.incarnation].token \in Nat
    BY RowTypes, HostTypes DEF IInv, TypeOK, HostsEvolve, Host
  <2> QED BY <2>1 DEF IInv, TokenNamesHost, HostsEvolve
<1>2. NoHostAhead'
  BY DEF IInv, NoHostAhead, HostsEvolve
<1>3. ReadyHoldsToken'
  BY RowTypes DEF IInv, TypeOK, ReadyHoldsToken, HostsEvolve
<1> QED BY <1>1, <1>2, <1>3

(* A pass that ends commits nothing.                                        *)
LEMMA EndStep ==
    ASSUME IInv, NEW r \in Reconcilers,
           EndPass(r), current' = current \ {r}, orb' = orb, HostsEvolve
    PROVE  IInv'
<1>1. TypeOK'
  <2>1. pc' \in [Reconcilers -> PC] /\ current' \subseteq Reconcilers
    BY DEF IInv, TypeOK, EndPass, Goto, PC
  <2>2. seen' \in [Reconcilers -> OrbRow]
    BY Types DEF IInv, TypeOK, EndPass
  <2>3. obs' \in [Reconcilers -> [status: HostStatus, spec: Nat]]
    BY Types DEF IInv, TypeOK, EndPass
  <2>4. minted' \in [Reconcilers -> Tokens]
    BY Types DEF IInv, TypeOK, EndPass
  <2> QED BY <2>1, <2>2, <2>3, <2>4 DEF IInv, TypeOK, HostsEvolve
<1>2. PassShape'
  BY Types DEF IInv, TypeOK, PassShape, EndPass, Goto, Booting, NewRow
<1>3. CurrentCopies'
  BY DEF IInv, TypeOK, CurrentCopies, EndPass, Goto
<1>4. NoCopyAhead'
  <2>1. orb.incarnation >= 0
    BY RowTypes DEF IInv, TypeOK
  <2> QED BY <2>1 DEF IInv, TypeOK, NoCopyAhead, EndPass, NewRow
<1>5. AdmittedForward'
  BY DEF IInv, TypeOK, AdmittedForward, EndPass, Goto, Booting
<1>6. /\ HostRefNamesIncarnation' /\ FailedRetainsNoCompute' /\ CondemnedIsUnauthorised'
      /\ RunningIsUncondemned' /\ RunningHasHost'
  BY DEF IInv, HostRefNamesIncarnation, FailedRetainsNoCompute, CondemnedIsUnauthorised,
         RunningIsUncondemned, RunningHasHost
<1>7. TokenNamesHost' /\ NoHostAhead' /\ ReadyHoldsToken'
  BY HostsStep
<1>8. MintedIsOrdered'
  <2> SUFFICES ASSUME NEW q \in Reconcilers, pc'[q] = "commit"
      PROVE /\ minted'[q][1] = seen'[q].incarnation
            /\ minted'[q][2] <= hosts'[seen'[q].incarnation].token
            /\ (q \in current' /\ orb'.token # NoToken) => orb'.token[2] <= minted'[q][2]
    BY DEF MintedIsOrdered
  <2>1. q # r /\ pc[q] = "commit" /\ seen'[q] = seen[q] /\ minted'[q] = minted[q]
    BY DEF IInv, TypeOK, EndPass, Goto
  <2>2. /\ seen[q].incarnation \in Incarnation /\ minted[q][2] \in Nat
        /\ hosts[seen[q].incarnation].token \in Nat /\ hosts'[seen[q].incarnation].token \in Nat
    BY RowTypes, HostTypes DEF IInv, TypeOK, HostsEvolve, Host, Tokens
  <2> QED BY <2>1, <2>2 DEF IInv, MintedIsOrdered, HostsEvolve
<1> QED BY <1>1, <1>2, <1>3, <1>4, <1>5, <1>6, <1>7, <1>8 DEF IInv

(* A pass that moves on keeps its copy.                                     *)
LEMMA GotoStep ==
    ASSUME IInv, NEW r \in Reconcilers, NEW label, MayStandAt(r, seen[r], label),
           Goto(r, label), UNCHANGED <<orb, current, seen>>, HostsEvolve,
           obs' \in [Reconcilers -> [status: HostStatus, spec: Nat]],
           minted' \in [Reconcilers -> Tokens],
           \A q \in Reconcilers \ {r} : minted'[q] = minted[q],
           label = "commit" => MayCommit(r)
    PROVE  IInv'
<1>1. TypeOK'
  BY DEF IInv, TypeOK, Goto, MayStandAt, HostsEvolve
<1>2. PassShape'
  BY DEF IInv, TypeOK, PassShape, Goto, Booting, MayStandAt
<1>3. CurrentCopies'
  <2> SUFFICES ASSUME NEW q \in current
      PROVE pc'[q] # "idle" /\ (seen[q] = orb \/ pc'[q] \in {"discard", "finalize"})
    BY DEF CurrentCopies
  <2>1. CASE q # r
    BY <2>1 DEF IInv, TypeOK, CurrentCopies, Goto
  <2>2. CASE q = r
    BY <2>2 DEF IInv, TypeOK, CurrentCopies, PassShape, Goto, MayStandAt
  <2> QED BY <2>1, <2>2
<1>4. NoCopyAhead'
  BY DEF IInv, NoCopyAhead
<1>5. AdmittedForward'
  BY DEF IInv, TypeOK, AdmittedForward, Goto, Booting, MayStandAt
<1>6. /\ HostRefNamesIncarnation' /\ FailedRetainsNoCompute' /\ CondemnedIsUnauthorised'
      /\ RunningIsUncondemned' /\ RunningHasHost'
  BY DEF IInv, HostRefNamesIncarnation, FailedRetainsNoCompute, CondemnedIsUnauthorised,
         RunningIsUncondemned, RunningHasHost
<1>7. TokenNamesHost' /\ NoHostAhead' /\ ReadyHoldsToken'
  BY HostsStep
<1>8. MintedIsOrdered'
  <2> SUFFICES ASSUME NEW q \in Reconcilers, pc'[q] = "commit"
      PROVE /\ minted'[q][1] = seen[q].incarnation
            /\ minted'[q][2] <= hosts'[seen[q].incarnation].token
            /\ (q \in current /\ orb.token # NoToken) => orb.token[2] <= minted'[q][2]
    BY DEF MintedIsOrdered
  <2>1. CASE q = r
    BY <2>1 DEF IInv, TypeOK, Goto, MayCommit
  <2>2. CASE q # r
    <3>1. pc[q] = "commit" /\ minted'[q] = minted[q]
      BY <2>2 DEF IInv, TypeOK, Goto
    <3>2. /\ seen[q].incarnation \in Incarnation /\ minted[q][2] \in Nat
          /\ hosts[seen[q].incarnation].token \in Nat /\ hosts'[seen[q].incarnation].token \in Nat
      BY RowTypes, HostTypes DEF IInv, TypeOK, HostsEvolve, Host, Tokens
    <3> QED BY <3>1, <3>2 DEF IInv, MintedIsOrdered, HostsEvolve
  <2> QED BY <2>1, <2>2
<1> QED BY <1>1, <1>2, <1>3, <1>4, <1>5, <1>6, <1>7, <1>8 DEF IInv

(* A transaction replaces the row, within the incarnation.                   *)
LEMMA RowStep ==
    ASSUME IInv, NEW row, RowHolds(row), row.incarnation = orb.incarnation,
           orb' = row, hosts' = hosts
    PROVE  /\ HostRefNamesIncarnation' /\ FailedRetainsNoCompute' /\ CondemnedIsUnauthorised'
           /\ RunningIsUncondemned' /\ RunningHasHost'
           /\ TokenNamesHost' /\ NoHostAhead' /\ ReadyHoldsToken'
BY DEF IInv, RowHolds, HostRefNamesIncarnation, FailedRetainsNoCompute, CondemnedIsUnauthorised,
       RunningIsUncondemned, RunningHasHost, TokenNamesHost, NoHostAhead, ReadyHoldsToken

(* A transaction that ends the pass invalidates every copy.                 *)
LEMMA CommitAndEndStep ==
    ASSUME IInv, NEW r \in Reconcilers, NEW row, RowHolds(row),
           row.incarnation = orb.incarnation,
           CommitAndEnd(r, row), hosts' = hosts
    PROVE  IInv'
<1> USE DEF CommitAndEnd
<1>1. TypeOK'
  <2>1. pc' \in [Reconcilers -> PC]
    BY DEF IInv, TypeOK, EndPass, Goto, PC
  <2>2. seen' \in [Reconcilers -> OrbRow] /\ minted' \in [Reconcilers -> Tokens]
    BY Types DEF IInv, TypeOK, EndPass
  <2>3. obs' \in [Reconcilers -> [status: HostStatus, spec: Nat]]
    BY Types DEF IInv, TypeOK, EndPass
  <2> QED BY <2>1, <2>2, <2>3 DEF IInv, TypeOK, RowHolds
<1>2. PassShape'
  BY Types DEF IInv, TypeOK, PassShape, EndPass, Goto, Booting, NewRow
<1>3. CurrentCopies'
  BY DEF CurrentCopies
<1>4. NoCopyAhead'
  <2>1. row.incarnation >= 0
    BY RowTypes DEF RowHolds
  <2> QED BY <2>1 DEF IInv, TypeOK, NoCopyAhead, EndPass, NewRow
<1>5. AdmittedForward'
  BY DEF IInv, TypeOK, AdmittedForward, EndPass, Goto, Booting
<1>6. MintedIsOrdered'
  BY DEF IInv, TypeOK, MintedIsOrdered, EndPass, Goto
<1> QED BY RowStep, <1>1, <1>2, <1>3, <1>4, <1>5, <1>6 DEF IInv

(* A transaction that hands the pass the updated row.                       *)
LEMMA CommitAndGoStep ==
    ASSUME IInv, NEW r \in Reconcilers, NEW row, NEW label, RowHolds(row),
           row.incarnation = orb.incarnation,
           MayStandAt(r, row, label), label # "commit", 
           CommitAndGo(r, row, label), hosts' = hosts
    PROVE  IInv'
<1> USE DEF CommitAndGo
<1>1. TypeOK'
  BY DEF IInv, TypeOK, Goto, MayStandAt, RowHolds
<1>2. PassShape'
  BY DEF IInv, TypeOK, PassShape, Goto, Booting, MayStandAt
<1>3. CurrentCopies'
  BY DEF IInv, TypeOK, CurrentCopies, Goto, MayStandAt
<1>4. NoCopyAhead'
  BY RowTypes DEF IInv, TypeOK, RowHolds, NoCopyAhead
<1>5. AdmittedForward'
  BY DEF IInv, TypeOK, AdmittedForward, Goto, Booting, MayStandAt
<1>6. MintedIsOrdered'
  BY DEF IInv, TypeOK, MintedIsOrdered, Goto
<1> QED BY RowStep, <1>1, <1>2, <1>3, <1>4, <1>5, <1>6 DEF IInv

-----------------------------------------------------------------------------
(* What the provider's operations do to the hosts *)

(* Leaving the hosts alone.                                                 *)
LEMMA HostsStay ==
    ASSUME IInv, hosts' = hosts
    PROVE  HostsEvolve
BY HostTypes DEF IInv, TypeOK, HostsEvolve

(* What disposal leaves of a host.                                          *)
LEMMA AbsentHost ==
    ASSUME NEW h \in Host
    PROVE  /\ Absent(h) \in Host /\ Absent(h).token = h.token /\ Absent(h).status = "absent"
           /\ h.status = "absent" /\ h.spec = NoSpec => Absent(h) = h
BY Types DEF Host, HostStatus, Absent

(* discardCompute, at any fence.                                            *)
LEMMA HostsDiscarded ==
    ASSUME IInv, NEW n, hosts' = DiscardedThrough(n)
    PROVE  HostsEvolve
<1>1. ASSUME NEW i \in Incarnation
      PROVE /\ hosts'[i] \in Host /\ hosts'[i].token = hosts[i].token
            /\ hosts'[i].status = "ready" => hosts'[i] = hosts[i]
            /\ i > orb.incarnation => hosts'[i] = hosts[i]
            /\ hosts[i].token \in Nat
  <2>1. hosts'[i] \in {hosts[i], Absent(hosts[i])}
    BY DEF DiscardedThrough
  <2>2. CASE hosts'[i] = hosts[i]
    BY <2>2, HostTypes DEF IInv, TypeOK
  <2>3. CASE hosts'[i] = Absent(hosts[i])
    BY <2>3, HostTypes, AbsentHost DEF IInv, TypeOK, NoHostAhead, NoHostYet
  <2> QED BY <2>1, <2>2, <2>3
<1>2. hosts' \in [Incarnation -> Host]
  BY <1>1 DEF DiscardedThrough
<1> QED BY <1>1, <1>2 DEF HostsEvolve

(* Starting, stopping, failing or losing a host that exists changes only     *)
(* that host, and makes it neither ready nor differently tokened.            *)
LEMMA HostChanged ==
    ASSUME IInv, NEW i \in Incarnation, NEW host \in Host,
           hosts' = [hosts EXCEPT ![i] = host],
           host.token = hosts[i].token,
           host.status = "ready" => hosts[i].status = "ready",
           hosts[i].status = "absent" => host = hosts[i]
    PROVE  HostsEvolve
<1>1. ASSUME NEW j \in Incarnation
      PROVE /\ hosts[j].token <= hosts'[j].token
            /\ j > orb.incarnation => hosts'[j] = hosts[j]
            /\ hosts'[j].status = "ready" =>
                  hosts[j].status = "ready" /\ hosts'[j].token = hosts[j].token
  <2>1. hosts[j].token \in Nat
    BY HostTypes DEF IInv
  <2>2. CASE j = i
    BY <2>1, <2>2 DEF IInv, TypeOK, NoHostAhead, NoHostYet
  <2>3. CASE j # i
    BY <2>1, <2>3 DEF IInv, TypeOK
  <2> QED BY <2>2, <2>3
<1> QED BY <1>1 DEF IInv, TypeOK, HostsEvolve

(* What start() makes of a host.                                            *)
LEMMA StartedHost ==
    ASSUME NEW h \in Host
    PROVE  /\ Started(h) \in Host /\ Started(h).token = h.token
           /\ Started(h).spec = h.spec
           /\ Started(h).status = "ready" => h.status = "ready"
           /\ h.status = "absent" => Started(h) = h
BY DEF Host, HostStatus, Started

-----------------------------------------------------------------------------
(* The shared ends of actions *)

(* A pass that gives up, after a provider call or not.                      *)
LEMMA DropStep ==
    ASSUME IInv, NEW r \in Reconcilers, Drop(r), HostsEvolve
    PROVE  IInv'
BY EndStep DEF Drop

(* A lost compare-and-set.                                                  *)
LEMMA ConflictStep ==
    ASSUME IInv, NEW r \in Reconcilers, Conflict(r)
    PROVE  IInv'
BY EndStep, HostsStay DEF Conflict

(* A step that only moves the pass on.                                       *)
LEMMA MoveOnStep ==
    ASSUME IInv, NEW r \in Reconcilers, NEW label, MayStandAt(r, seen[r], label),
           label # "commit", Goto(r, label),
           UNCHANGED <<orb, current, local>>, HostsEvolve
    PROVE  IInv'
<1>1. /\ obs' \in [Reconcilers -> [status: HostStatus, spec: Nat]]
      /\ minted' \in [Reconcilers -> Tokens]
      /\ UNCHANGED <<orb, current, seen>> /\ minted' = minted
  BY DEF IInv, TypeOK, local
<1> QED BY <1>1, GotoStep

(* From the label a pass stands at, what GotoStep asks of its next.          *)
LEMMA WhereItStands ==
    ASSUME IInv, NEW r \in Reconcilers
    PROVE  /\ seen[r].discardThrough # NoFence <=> pc[r] \in {"discard", "finalize"}
           /\ pc[r] \in {"admit", "reread", "provision", "commit", "enter"} => Booting(r)
           /\ pc[r] \in {"observe", "decide", "enter", "restart", "rebound"} =>
                 seen[r].hostRef # NoHost
           /\ pc[r] = "restart" => seen[r].state = "running"
           /\ (pc[r] \in {"reread", "provision", "commit", "observe", "decide"} /\ Booting(r)) =>
                 seen[r].spec \in {NoSpec, SpecOf[r]} \/ GenOf[r] >= seen[r].gen
           /\ (r \in current /\ pc[r] \notin {"discard", "finalize"}) => seen[r] = orb
           /\ seen[r] \in OrbRow /\ orb \in OrbRow
BY DEF IInv, TypeOK, PassShape, CurrentCopies, AdmittedForward

(* A row that differs in state and stop reason only.                         *)
LEMMA SameComputeRow ==
    ASSUME IInv, NEW row \in OrbRow,
           row.hostRef = orb.hostRef, row.incarnation = orb.incarnation,
           row.discardThrough = orb.discardThrough, row.token = orb.token,
           row.state = "failed" => orb.state = "failed",
           row.state = "running" => orb.discardThrough = NoFence /\ orb.hostRef # NoHost
    PROVE  RowHolds(row)
BY RowHoldsNow DEF RowHolds

(* A row that revokes its token and condemns its incarnation.               *)
LEMMA CondemnedRow ==
    ASSUME IInv, NEW row \in OrbRow,
           row.hostRef = orb.hostRef, row.incarnation = orb.incarnation,
           row.discardThrough = orb.incarnation, row.token = NoToken,
           row.state # "running"
    PROVE  RowHolds(row)
<1>1. row.discardThrough # NoFence
  BY RowTypes, Types DEF IInv, TypeOK, Incarnation
<1> QED BY <1>1, RowHoldsNow DEF RowHolds

(* A transaction nobody waits for: every copy goes out of date.              *)
LEMMA CommandStep ==
    ASSUME IInv, NEW row, RowHolds(row), row.incarnation = orb.incarnation,
           orb' = row, current' = {}, UNCHANGED <<hosts, pc, local>>
    PROVE  IInv'
<1> USE DEF local
<1>1. TypeOK'
  BY DEF IInv, TypeOK, RowHolds
<1>2. PassShape' /\ CurrentCopies' /\ AdmittedForward'
  BY DEF IInv, PassShape, CurrentCopies, AdmittedForward, Booting
<1>3. NoCopyAhead' /\ MintedIsOrdered'
  BY DEF IInv, NoCopyAhead, MintedIsOrdered
<1> QED BY RowStep, <1>1, <1>2, <1>3 DEF IInv

(* A step of the hosts only.                                                *)
LEMMA EnvironmentStep ==
    ASSUME IInv, HostsEvolve, UNCHANGED <<orb, pc, current, local>>
    PROVE  IInv'
<1> USE DEF local
<1>1. TypeOK'
  BY DEF IInv, TypeOK, HostsEvolve
<1>2. PassShape' /\ CurrentCopies' /\ AdmittedForward' /\ NoCopyAhead'
  BY DEF IInv, PassShape, CurrentCopies, AdmittedForward, Booting, NoCopyAhead
<1>3. /\ HostRefNamesIncarnation' /\ FailedRetainsNoCompute' /\ CondemnedIsUnauthorised'
      /\ RunningIsUncondemned' /\ RunningHasHost'
  BY DEF IInv, HostRefNamesIncarnation, FailedRetainsNoCompute, CondemnedIsUnauthorised,
         RunningIsUncondemned, RunningHasHost
<1>4. MintedIsOrdered'
  <2> SUFFICES ASSUME NEW q \in Reconcilers, pc[q] = "commit"
      PROVE minted[q][2] <= hosts'[seen[q].incarnation].token
    BY DEF IInv, MintedIsOrdered
  <2>1. /\ seen[q].incarnation \in Incarnation /\ minted[q][2] \in Nat
        /\ hosts[seen[q].incarnation].token \in Nat /\ hosts'[seen[q].incarnation].token \in Nat
    BY RowTypes, HostTypes DEF IInv, TypeOK, HostsEvolve, Host, Tokens
  <2> QED BY <2>1 DEF IInv, MintedIsOrdered, HostsEvolve
<1> QED BY HostsStep, <1>1, <1>2, <1>3, <1>4 DEF IInv

-----------------------------------------------------------------------------
(* One lemma per group of actions *)

(* The start of a pass.                                                     *)
LEMMA ReadKeeps ==
    ASSUME IInv, NEW r \in Reconcilers, Read(r)
    PROVE  IInv'
<1> DEFINE label == pc'[r]
<1>1. /\ pc' = [pc EXCEPT ![r] = label] /\ seen' = [seen EXCEPT ![r] = orb]
      /\ current' = current \cup {r}
      /\ UNCHANGED <<orb, hosts, obs, minted>>
      /\ pc[r] = "idle" /\ label # "commit"
  BY DEF Read, Goto, IInv, TypeOK
<1>2. MayStandAt(r, orb, label)
  BY RowHoldsNow DEF IInv, TypeOK, Read, Goto, MayStandAt, PC, RowHolds, Settled, OrbRow, OrbState
<1> HIDE DEF label
<1>3. TypeOK'
  BY <1>1, <1>2 DEF IInv, TypeOK, MayStandAt
<1>4. PassShape'
  BY <1>1, <1>2 DEF IInv, TypeOK, PassShape, Booting, MayStandAt
<1>5. CurrentCopies'
  BY <1>1, <1>2 DEF IInv, TypeOK, CurrentCopies, MayStandAt
<1>6. NoCopyAhead'
  BY <1>1, RowTypes DEF IInv, TypeOK, NoCopyAhead
<1>7. AdmittedForward'
  BY <1>1, <1>2 DEF IInv, TypeOK, AdmittedForward, Booting, MayStandAt
<1>8. MintedIsOrdered'
  BY <1>1 DEF IInv, TypeOK, MintedIsOrdered
<1>9. /\ HostRefNamesIncarnation' /\ FailedRetainsNoCompute' /\ CondemnedIsUnauthorised'
      /\ RunningIsUncondemned' /\ RunningHasHost'
      /\ TokenNamesHost' /\ NoHostAhead' /\ ReadyHoldsToken'
  BY <1>1, RowStep, RowHoldsNow
<1> QED BY <1>3, <1>4, <1>5, <1>6, <1>7, <1>8, <1>9 DEF IInv

(* Giving up, disposal and failure.                                         *)
LEMMA DisposalKeeps ==
    ASSUME IInv, NEW r \in Reconcilers,
           Abandon(r) \/ DiscardCompute(r) \/ FailOrb(r) \/ DiscardSupersededProvision(r)
           \/ Superseded(r)
    PROVE  IInv'
<1> USE WhereItStands
<1>1. CASE Abandon(r)
  BY <1>1, DropStep, HostsStay DEF Abandon
<1>2. CASE DiscardCompute(r)
  <2>1. HostsEvolve
    BY <1>2, HostsDiscarded DEF DiscardCompute
  <2>2. MayStandAt(r, seen[r], "finalize")
    BY <1>2 DEF DiscardCompute, MayStandAt, PC
  <2> QED BY <1>2, <2>1, <2>2, MoveOnStep DEF DiscardCompute
<1>3. CASE FailOrb(r)
  <2>1. CASE r \notin current
    BY <1>3, <2>1, ConflictStep DEF FailOrb
  <2>2. CASE r \in current
    <3>1. Failed(orb) \in OrbRow /\ Failed(orb).incarnation = orb.incarnation
      BY Types, RowTypes DEF Failed, OrbRow, OrbState, DiscardReason
    <3>2. RowHolds(Failed(orb))
      BY <3>1, CondemnedRow DEF Failed, OrbRow
    <3> QED BY <1>3, <2>2, <3>1, <3>2, CommitAndEndStep DEF FailOrb
  <2> QED BY <2>1, <2>2
<1>4. CASE DiscardSupersededProvision(r)
  BY <1>4, HostsDiscarded, DropStep DEF DiscardSupersededProvision
<1>5. CASE Superseded(r)
  <2>1. MayStandAt(r, seen[r], "cleanup")
    BY <1>5 DEF Superseded, MayStandAt, PC
  <2> QED BY <1>5, <2>1, MoveOnStep, ConflictStep, HostsStay DEF Superseded
<1> QED BY <1>1, <1>2, <1>3, <1>4, <1>5

(* The next incarnation starts with nothing: no host of it exists, no token  *)
(* is valid, and no pass can have provisioned it.                            *)
LEMMA FinalizeKeeps ==
    ASSUME IInv, NEW r \in Reconcilers, FinalizeHostDiscard(r)
    PROVE  IInv'
<1>1. CASE ~StillOutstanding(r)
  BY <1>1, ConflictStep DEF FinalizeHostDiscard
<1> SUFFICES ASSUME StillOutstanding(r) PROVE IInv'
  BY <1>1
<1>2. /\ orb' = Retired(orb) /\ EndPass(r) /\ hosts' = hosts
      /\ orb.discardThrough < MaxIncarnation
      /\ current' \subseteq current \ {r}
      /\ orb.discardThrough = seen[r].discardThrough
      /\ pc[r] = "finalize"
  BY DEF FinalizeHostDiscard, StillOutstanding
<1>3. orb.discardThrough # NoFence
  BY <1>2, WhereItStands
<1>4. orb.discardThrough = orb.incarnation
  BY <1>3 DEF IInv, CondemnedIsUnauthorised
<1>5. /\ orb' \in OrbRow /\ orb'.hostRef = NoHost /\ orb'.token = NoToken
      /\ orb'.discardThrough = NoFence /\ orb'.incarnation = orb.incarnation + 1
      /\ orb'.state = orb.state
  <2>1. orb.incarnation + 1 \in Incarnation
    BY <1>2, <1>4, Types, RowTypes DEF IInv, TypeOK, Incarnation
  <2>2. /\ orb.discardThrough + 1 = orb.incarnation + 1
        /\ orb \in OrbRow /\ NoSpec \in Nat /\ NoGen \in Nat /\ NoToken \in Tokens
    BY <1>4, Types DEF IInv, TypeOK
  <2>3. Retired(orb) \in OrbRow
    BY <2>1, <2>2 DEF Retired, OrbRow, DiscardReason
  <2>4. /\ Retired(orb).hostRef = NoHost /\ Retired(orb).token = NoToken
        /\ Retired(orb).discardThrough = NoFence
        /\ Retired(orb).incarnation = orb.incarnation + 1
        /\ Retired(orb).state = orb.state
    BY <2>2 DEF Retired, OrbRow
  <2> QED BY <1>2, <2>3, <2>4
<1>6. TypeOK'
  <2>1. pc' \in [Reconcilers -> PC] /\ current' \subseteq Reconcilers
    BY <1>2 DEF IInv, TypeOK, EndPass, Goto, PC
  <2>2. seen' \in [Reconcilers -> OrbRow] /\ minted' \in [Reconcilers -> Tokens]
    BY <1>2, Types DEF IInv, TypeOK, EndPass
  <2>3. obs' \in [Reconcilers -> [status: HostStatus, spec: Nat]]
    BY <1>2, Types DEF IInv, TypeOK, EndPass
  <2> QED BY <1>2, <1>5, <2>1, <2>2, <2>3 DEF IInv, TypeOK
<1>7. PassShape'
  BY <1>2, Types DEF IInv, TypeOK, PassShape, EndPass, Goto, Booting, NewRow
<1>8. CurrentCopies'
  BY <1>2, <1>3 DEF IInv, TypeOK, PassShape, CurrentCopies, EndPass, Goto
<1>9. NoCopyAhead'
  <2>1. /\ orb.incarnation \in Nat /\ orb.incarnation + 1 > 0
        /\ \A q \in Reconcilers : seen[q].incarnation \in Nat
    BY RowTypes DEF IInv, TypeOK
  <2>2. ASSUME NEW q \in Reconcilers PROVE seen'[q].incarnation <= orb'.incarnation
    <3>1. CASE q = r
      BY <1>2, <1>5, <2>1, <3>1 DEF IInv, TypeOK, EndPass, NewRow
    <3>2. CASE q # r
      BY <1>2, <1>5, <2>1, <3>2 DEF IInv, TypeOK, EndPass, NoCopyAhead
    <3> QED BY <3>1, <3>2
  <2> QED BY <2>2 DEF NoCopyAhead
<1>10. AdmittedForward'
  BY <1>2 DEF IInv, TypeOK, AdmittedForward, EndPass, Goto, Booting
<1>11. /\ HostRefNamesIncarnation' /\ FailedRetainsNoCompute' /\ CondemnedIsUnauthorised'
       /\ RunningIsUncondemned' /\ RunningHasHost' /\ TokenNamesHost'
  BY <1>3, <1>5
     DEF IInv, HostRefNamesIncarnation, FailedRetainsNoCompute, CondemnedIsUnauthorised,
         RunningIsUncondemned, RunningHasHost, TokenNamesHost
<1>12. NoHostAhead' /\ ReadyHoldsToken'
  <2>1. orb.incarnation \in Nat /\ orb.incarnation + 1 \in Incarnation
        /\ Incarnation \subseteq Nat
    BY <1>5, RowTypes, Types DEF IInv, TypeOK
  <2> QED BY <1>2, <1>5, <2>1 DEF IInv, NoHostAhead, ReadyHoldsToken, NoHostYet, Incarnation
<1>13. MintedIsOrdered'
  BY <1>2, <1>5 DEF IInv, TypeOK, MintedIsOrdered, EndPass, Goto
<1> QED BY <1>6, <1>7, <1>8, <1>9, <1>10, <1>11, <1>12, <1>13 DEF IInv

(* Admission to a boot.                                                      *)
LEMMA AdmissionKeeps ==
    ASSUME IInv, NEW r \in Reconcilers,
           RequestHostSpecReplacement(r) \/ DeclineProvision(r) \/ Admit(r)
           \/ ReEnterState(r) \/ Deadline(r) \/ ReRead(r) \/ Restore(r)
    PROVE  IInv'
<1> USE WhereItStands
<1>1. CASE RequestHostSpecReplacement(r)
  <2>1. CASE Conflict(r)
    BY <2>1, ConflictStep
  <2>2. CASE r \in current /\ CommitAndEnd(r, Replaced(orb, r)) /\ hosts' = hosts
    <3>1. seen[r] = orb /\ orb.state \in {"creating", "starting"}
      BY <1>1, <2>2 DEF RequestHostSpecReplacement, SpecDiffers, Booting
    <3>2. Replaced(orb, r) \in OrbRow /\ Replaced(orb, r).incarnation = orb.incarnation
      BY Types, RowTypes DEF Replaced, OrbRow, DiscardReason
    <3>3. RowHolds(Replaced(orb, r))
      BY <3>1, <3>2, CondemnedRow DEF Replaced, OrbRow
    <3> QED BY <2>2, <3>2, <3>3, CommitAndEndStep
  <2> QED BY <1>1, <2>1, <2>2 DEF RequestHostSpecReplacement
<1>2. CASE DeclineProvision(r)
  BY <1>2, DropStep, HostsStay DEF DeclineProvision
<1>3. ASSUME Admissible(r) PROVE MayStandAt(r, seen[r], HostWork(r))
  <2>1. GenOf[r] \in Nat /\ seen[r].gen \in Nat
    BY Types, RowTypes
  <2> QED BY <1>3, <2>1
          DEF Admissible, OlderThanCommitted, SpecDiffers, HostWork, MayStandAt, PC, Booting
<1>4. CASE Admit(r)
  BY <1>3, <1>4, MoveOnStep, HostsStay DEF Admit, HostWork
<1>5. CASE ReEnterState(r)
  <2>1. CASE r \notin current
    BY <1>5, <2>1, ConflictStep DEF ReEnterState
  <2>2. CASE r \in current
    <3>1. seen[r] = orb /\ Admissible(r)
      BY <1>5, <2>2 DEF ReEnterState, Admissible
    <3> QED BY <1>3, <1>5, <2>2, <3>1, RowHoldsNow, CommitAndGoStep DEF ReEnterState, HostWork
  <2> QED BY <2>1, <2>2
<1>6. CASE Deadline(r)
  <2>1. MayStandAt(r, seen[r], "fail")
    BY <1>6 DEF Deadline, Admissible, MayStandAt, PC
  <2> QED BY <1>6, <2>1, MoveOnStep, HostsStay DEF Deadline
<1>7. CASE ReRead(r)
  <2>1. CASE ~SameCompute(r)
    BY <1>7, <2>1, ConflictStep DEF ReRead
  <2>2. CASE SameCompute(r)
    <3>1. seen[r] = orb
      BY <1>7, <2>2 DEF ReRead, SameCompute
    <3>2. seen' = seen
      BY <1>7, <2>2, <3>1 DEF ReRead, IInv, TypeOK
    <3>3. MayStandAt(r, seen[r], "provision")
      BY <1>7 DEF ReRead, MayStandAt, PC, Booting
    <3> QED BY <1>7, <2>2, <3>2, <3>3, MoveOnStep, HostsStay DEF ReRead, local
  <2> QED BY <2>1, <2>2
<1>8. CASE Restore(r)
  <2>1. MayStandAt(r, seen[r], "reread")
    BY <1>8 DEF Restore, MayStandAt, PC, Booting
  <2> QED BY <1>8, <2>1, MoveOnStep, HostsStay DEF Restore
<1> QED BY <1>1, <1>2, <1>4, <1>5, <1>6, <1>7, <1>8

(* A provisioned host carries a token at least as new as the row's.          *)
LEMMA ProvisionKeeps ==
    ASSUME IInv, NEW r \in Reconcilers, Provision(r)
    PROVE  IInv'
<1> USE WhereItStands
<1> DEFINE i == seen[r].incarnation
           host == IF hosts[i].status = "absent" THEN Created(hosts[i], SpecOf[r])
                   ELSE Started(hosts[i])
           token == <<i, host.token>>
<1>1. /\ i \in Incarnation /\ hosts[i] \in Host /\ hosts[i].token \in Nat
      /\ i <= orb.incarnation /\ i \in Nat /\ orb.incarnation \in Nat
  BY RowTypes, HostTypes DEF IInv, NoCopyAhead
<1>2. /\ host \in Host /\ host.token \in Nat
      /\ hosts[i].token <= host.token
      /\ host.status = "ready" => hosts[i].status = "ready" /\ host.token = hosts[i].token
  <2>1. CASE hosts[i].status = "absent"
    BY <1>1, <2>1, Types DEF Created, Host, HostStatus
  <2>2. CASE hosts[i].status # "absent"
    BY <1>1, <2>2, StartedHost
  <2> QED BY <2>1, <2>2
<1> HIDE DEF host
<1>3. CASE host.spec # SpecOf[r]
  BY <1>3, ConflictStep DEF Provision, host
<1>4. CASE host.spec = SpecOf[r]
  <2>1. hosts' = [hosts EXCEPT ![i] = host]
    BY <1>4 DEF Provision, host
  <2>2. HostsEvolve
    <3>1. hosts' \in [Incarnation -> Host]
      BY <1>1, <1>2, <2>1 DEF IInv, TypeOK
    <3>2. ASSUME NEW j \in Incarnation
          PROVE /\ hosts[j].token <= hosts'[j].token
                /\ j > orb.incarnation => hosts'[j] = hosts[j]
                /\ hosts'[j].status = "ready" =>
                      hosts[j].status = "ready" /\ hosts'[j].token = hosts[j].token
      <4>1. hosts[j].token \in Nat
        BY HostTypes DEF IInv
      <4>2. CASE j = i
        BY <1>1, <1>2, <2>1, <4>1, <4>2 DEF IInv, TypeOK
      <4>3. CASE j # i
        BY <2>1, <4>1, <4>3 DEF IInv, TypeOK
      <4> QED BY <4>2, <4>3
    <3> QED BY <3>1, <3>2 DEF HostsEvolve
  <2>3. CASE seen[r].hostRef = i /\ seen[r].token = token
    BY <1>4, <2>2, <2>3, DropStep DEF Provision, host
  <2>4. CASE ~(seen[r].hostRef = i /\ seen[r].token = token)
    <3>1. /\ minted' = [minted EXCEPT ![r] = token] /\ Goto(r, "commit")
          /\ UNCHANGED <<orb, seen, current, obs>> /\ pc[r] = "provision"
      BY <1>4, <2>4 DEF Provision, host
    <3>2. token \in Tokens
      BY <1>1, <1>2 DEF Tokens
    <3>3. /\ minted' \in [Reconcilers -> Tokens]
          /\ obs' \in [Reconcilers -> [status: HostStatus, spec: Nat]]
          /\ minted'[r] = token
          /\ \A q \in Reconcilers \ {r} : minted'[q] = minted[q]
      BY <3>1, <3>2 DEF IInv, TypeOK
    <3>4. MayStandAt(r, seen[r], "commit")
      BY <3>1 DEF MayStandAt, PC, Booting
    <3>5. MayCommit(r)
      <4>1. hosts'[i] = host
        BY <1>1, <2>1 DEF IInv, TypeOK
      <4>2. ASSUME r \in current, orb.token # NoToken
            PROVE  orb.token[2] <= host.token
        <5>1. seen[r] = orb
          BY <3>1, <4>2
        <5>2. orb.token[2] <= hosts[i].token /\ orb.token[2] \in Nat
          BY <4>2, <5>1, RowTypes DEF IInv, TypeOK, TokenNamesHost
        <5> QED BY <1>1, <1>2, <5>2
      <4> QED BY <1>2, <3>3, <4>1, <4>2 DEF MayCommit
    <3> HIDE DEF token
    <3> QED BY <2>2, <3>1, <3>3, <3>4, <3>5, GotoStep
  <2> QED BY <2>3, <2>4
<1> QED BY <1>3, <1>4

(* A commit that succeeds names the incarnation and the token of the host    *)
(* that serves it: the row's own token was not newer.                        *)
LEMMA CommitProvisionKeeps ==
    ASSUME IInv, NEW r \in Reconcilers, CommitProvision(r)
    PROVE  IInv'
<1> USE WhereItStands
<1> DEFINE row == [orb EXCEPT !.hostRef = seen[r].incarnation, !.token = minted[r],
                              !.spec = SpecOf[r], !.gen = GenOf[r]]
<1>1. CASE ~StillUncondemned(r)
  <2>1. MayStandAt(r, seen[r], "superseded")
    BY <1>1 DEF CommitProvision, MayStandAt, PC
  <2> QED BY <1>1, <2>1, MoveOnStep, HostsStay DEF CommitProvision
<1>2. CASE StillUncondemned(r)
  <2>1. /\ seen[r] = orb /\ orb.discardThrough = NoFence /\ pc[r] = "commit"
        /\ orb.state \in {"creating", "starting"}
    BY <1>2 DEF CommitProvision, StillUncondemned, Booting
  <2>2. /\ minted[r] \in Tokens /\ minted[r][1] = orb.incarnation
        /\ minted[r] = <<minted[r][1], minted[r][2]>> /\ minted[r][2] \in Nat
        /\ minted[r][2] <= hosts[orb.incarnation].token
        /\ orb.token # NoToken => orb.token[2] <= minted[r][2]
    BY <1>2, <2>1 DEF IInv, TypeOK, MintedIsOrdered, StillUncondemned, Tokens
  <2>3. row \in OrbRow
    BY <2>1, <2>2, Types, RowTypes DEF OrbRow
  <2>4. /\ row.hostRef = orb.incarnation /\ row.token = minted[r]
        /\ row.incarnation = orb.incarnation /\ row.discardThrough = NoFence
        /\ row.state = orb.state /\ row.spec = SpecOf[r]
    BY <2>1 DEF OrbRow
  <2> HIDE DEF row
  <2>5. hosts[orb.incarnation].status = "ready" =>
            minted[r] = <<orb.incarnation, hosts[orb.incarnation].token>>
    <3> SUFFICES ASSUME hosts[orb.incarnation].status = "ready"
        PROVE minted[r][2] = hosts[orb.incarnation].token
      BY <2>2
    <3>1. orb.token = <<orb.incarnation, hosts[orb.incarnation].token>>
      BY <2>1 DEF IInv, ReadyHoldsToken
    <3>2. orb.incarnation \in Nat /\ orb.incarnation \in Incarnation
          /\ hosts[orb.incarnation].token \in Nat
      BY RowTypes, HostTypes DEF IInv
    <3>3. orb.token # NoToken /\ orb.token[2] = hosts[orb.incarnation].token
      BY <3>1, <3>2 DEF NoToken
    <3> QED BY <2>2, <3>2, <3>3
  <2>6. RowHolds(row)
    BY <2>1, <2>2, <2>3, <2>4, <2>5 DEF RowHolds
  <2>7. CASE seen[r].hostRef = NoHost
    <3>1. MayStandAt(r, row, "observe")
      <4>1. orb.incarnation # NoHost
        BY Types, RowTypes
      <4> QED BY <2>1, <2>4, <4>1 DEF MayStandAt, PC
    <3>2. CommitAndGo(r, row, "observe") /\ hosts' = hosts
      BY <1>2, <2>7 DEF CommitProvision, row
    <3> QED BY <2>4, <2>6, <3>1, <3>2, CommitAndGoStep
  <2>8. CASE seen[r].hostRef # NoHost
    <3>1. CommitAndEnd(r, row) /\ hosts' = hosts
      BY <1>2, <2>8 DEF CommitProvision, row
    <3> QED BY <2>4, <2>6, <3>1, CommitAndEndStep
  <2> QED BY <2>7, <2>8
<1> QED BY <1>1, <1>2

(* Starting and stopping the host the pass works on.                         *)
LEMMA StartToKeeps ==
    ASSUME IInv, NEW r \in Reconcilers, NEW spec, NEW label \in {"idle", "restart"},
           StartTo(r, spec, label),
           pc[r] \in {"decide", "rebound"},
           label = "restart" => seen[r].state = "running"
    PROVE  IInv'
<1> USE WhereItStands
<1> DEFINE i == seen[r].hostRef
<1>1. i \in Incarnation
  BY RowTypes, Types
<1>2. CASE hosts[i].status # "absent" /\ hosts[i].spec = spec
  <2>1. HostsEvolve
    <3>1. hosts' = [hosts EXCEPT ![i] = Started(hosts[i])] /\ hosts[i] \in Host
      BY <1>1, <1>2, HostTypes DEF StartTo, IInv, TypeOK
    <3> QED BY <1>1, <3>1, StartedHost, HostChanged
  <2>2. CASE label = "idle"
    BY <1>2, <2>1, <2>2, DropStep DEF StartTo
  <2>3. CASE label = "restart"
    <3>1. MayStandAt(r, seen[r], "restart")
      BY <2>3 DEF MayStandAt, PC
    <3> QED BY <1>2, <2>1, <2>3, <3>1, MoveOnStep DEF StartTo
  <2> QED BY <2>2, <2>3
<1>3. CASE ~(hosts[i].status # "absent" /\ hosts[i].spec = spec)
  <2>1. MayStandAt(r, seen[r], "fail")
    BY DEF MayStandAt, PC
  <2>2. Goto(r, "fail") /\ UNCHANGED <<orb, current, local>> /\ hosts' = hosts
    BY <1>3 DEF StartTo
  <2> QED BY <2>1, <2>2, MoveOnStep, HostsStay
<1> QED BY <1>2, <1>3

(* Stopping the host the pass works on.                                     *)
LEMMA StopToKeeps ==
    ASSUME IInv, NEW r \in Reconcilers, NEW label \in {"idle", "rebound", "quiesced"},
           StopTo(r, label), pc[r] = "decide"
    PROVE  IInv'
<1> USE WhereItStands
<1> DEFINE i == seen[r].hostRef
           host == [hosts[i] EXCEPT !.status = IF hosts[i].status = "absent" THEN "absent"
                                               ELSE "stopped"]
<1>1. i \in Incarnation
  BY RowTypes, Types
<1>2. hosts[i] \in Host
  BY <1>1, HostTypes DEF IInv
<1>3. hosts' = [hosts EXCEPT ![i] = host]
  BY <1>1, <1>2 DEF StopTo, IInv, TypeOK
<1>4. /\ host \in Host /\ host.token = hosts[i].token /\ host.status # "ready"
      /\ hosts[i].status = "absent" => host = hosts[i]
  BY <1>2 DEF Host, HostStatus
<1>5. HostsEvolve
  <2> HIDE DEF host
  <2> QED BY <1>1, <1>3, <1>4, HostChanged
<1>6. CASE label = "idle"
  BY <1>5, <1>6, DropStep DEF StopTo
<1>7. CASE label # "idle"
  <2>1. MayStandAt(r, seen[r], label)
    BY <1>7 DEF MayStandAt, PC
  <2> QED BY <1>5, <1>7, <2>1, MoveOnStep DEF StopTo
<1> QED BY <1>6, <1>7

(* Steps that observe, decide, or give up on the compute.                    *)
LEMMA DecisionKeeps ==
    ASSUME IInv, NEW r \in Reconcilers,
           Observe(r) \/ ProviderFails(r) \/ BootFailed(r) \/ RuntimeFailed(r)
    PROVE  IInv'
<1> USE WhereItStands
<1>1. CASE Observe(r)
  <2>1. MayStandAt(r, seen[r], "decide")
    BY <1>1 DEF Observe, MayStandAt, PC, Booting
  <2>2. seen[r].hostRef \in Incarnation
    BY <1>1, RowTypes, Types DEF Observe
  <2>3. hosts[seen[r].hostRef] \in Host
    BY <2>2, HostTypes DEF IInv
  <2>4. obs' \in [Reconcilers -> [status: HostStatus, spec: Nat]]
    BY <1>1, <2>3 DEF Observe, IInv, TypeOK, Host
  <2>5. /\ Goto(r, "decide") /\ UNCHANGED <<orb, current, seen>> /\ minted' = minted
        /\ minted' \in [Reconcilers -> Tokens] /\ hosts' = hosts
    BY <1>1 DEF Observe, IInv, TypeOK
  <2> QED BY <2>1, <2>4, <2>5, GotoStep, HostsStay
<1>2. CASE ProviderFails(r) \/ BootFailed(r) \/ RuntimeFailed(r)
  <2>1. MayStandAt(r, seen[r], "fail")
    BY <1>2 DEF ProviderFails, BootFailed, RuntimeFailed, MayStandAt, PC
  <2>2. Goto(r, "fail") /\ UNCHANGED <<orb, current, local>> /\ hosts' = hosts
    BY <1>2 DEF ProviderFails, BootFailed, RuntimeFailed
  <2> QED BY <2>1, <2>2, MoveOnStep, HostsStay
<1> QED BY <1>1, <1>2

(* Starts and stops of a pass.                                              *)
LEMMA ProviderStepKeeps ==
    ASSUME IInv, NEW r \in Reconcilers,
           StartHost(r) \/ Bounce(r) \/ Rebound(r) \/ StopDrained(r) \/ CompleteRestart(r)
           \/ StopStray(r)
    PROVE  IInv'
<1>1. CASE StartHost(r)
  BY <1>1, StartToKeeps DEF StartHost
<1>2. CASE Bounce(r)
  BY <1>2, StopToKeeps DEF Bounce
<1>3. CASE Rebound(r)
  BY <1>3, StartToKeeps DEF Rebound
<1>4. CASE StopDrained(r)
  BY <1>4, StopToKeeps DEF StopDrained
<1>5. CASE CompleteRestart(r)
  BY <1>5, StartToKeeps DEF CompleteRestart
<1>6. CASE StopStray(r)
  BY <1>6, StopToKeeps DEF StopStray
<1> QED BY <1>1, <1>2, <1>3, <1>4, <1>5, <1>6

(* Transactions that move the orb to another state.                          *)
LEMMA TransitionKeeps ==
    ASSUME IInv, NEW r \in Reconcilers,
           CommitReady(r) \/ EnterRunning(r) \/ AutoRestart(r) \/ QuietStop(r)
           \/ EnterStopped(r) \/ DeclineIdleStop(r)
    PROVE  IInv'
<1> USE WhereItStands
<1>1. CASE r \notin current
  BY <1>1, ConflictStep
     DEF CommitReady, EnterRunning, AutoRestart, QuietStop, EnterStopped, DeclineIdleStop
<1>2. CASE r \in current
  <2>1. seen[r] = orb /\ orb.discardThrough = NoFence
    BY <1>2 DEF CommitReady, EnterRunning, AutoRestart, QuietStop, EnterStopped, DeclineIdleStop
  <2>2. CASE CommitReady(r)
    <3> DEFINE row == [orb EXCEPT !.everReady = TRUE, !.hostRef = seen[r].hostRef]
    <3>1. row \in OrbRow /\ row.incarnation = orb.incarnation /\ row.discardThrough = NoFence
          /\ row.state = orb.state /\ row.hostRef = orb.hostRef /\ row.token = orb.token
          /\ orb.state \in {"creating", "starting"} /\ orb.hostRef # NoHost
      BY <2>1, <2>2 DEF CommitReady, OrbRow, Booting
    <3>2. CommitAndGo(r, row, "enter") /\ hosts' = hosts
      BY <1>2, <2>2 DEF CommitReady
    <3> HIDE DEF row
    <3>3. RowHolds(row)
      BY <2>1, <3>1, SameComputeRow
    <3>4. MayStandAt(r, row, "enter")
      BY <3>1 DEF MayStandAt, PC
    <3> QED BY <3>1, <3>2, <3>3, <3>4, CommitAndGoStep
  <2>3. CASE EnterRunning(r) \/ AutoRestart(r) \/ QuietStop(r) \/ EnterStopped(r)
             \/ DeclineIdleStop(r)
    <3>1. PICK s \in OrbState, why \in {"idle", "other"} :
            /\ CommitAndEnd(r, [orb EXCEPT !.state = s, !.stopReason = why])
            /\ hosts' = hosts
            /\ s # "failed"
            /\ s = "running" => seen[r].hostRef # NoHost
      <4>1. \A s : [orb EXCEPT !.state = s] = [orb EXCEPT !.state = s, !.stopReason = orb.stopReason]
        BY DEF OrbRow
      <4>2. orb.stopReason \in {"idle", "other"}
        BY DEF OrbRow
      <4>3. CASE EnterRunning(r)
        BY <1>2, <4>1, <4>2, <4>3 DEF EnterRunning, OrbState
      <4>4. CASE AutoRestart(r)
        BY <1>2, <4>1, <4>2, <4>4 DEF AutoRestart, OrbState
      <4>5. CASE QuietStop(r)
        BY <1>2, <4>5 DEF QuietStop, OrbState
      <4>6. CASE EnterStopped(r)
        BY <1>2, <4>1, <4>2, <4>6 DEF EnterStopped, OrbState
      <4>7. CASE DeclineIdleStop(r)
        BY <1>2, <4>7 DEF DeclineIdleStop, OrbState
      <4> QED BY <2>3, <4>3, <4>4, <4>5, <4>6, <4>7
    <3> DEFINE row == [orb EXCEPT !.state = s, !.stopReason = why]
    <3>2. row \in OrbRow /\ row.incarnation = orb.incarnation /\ row.state = s
          /\ row.hostRef = orb.hostRef /\ row.token = orb.token
          /\ row.discardThrough = orb.discardThrough
      BY DEF OrbRow
    <3> HIDE DEF row
    <3>3. RowHolds(row)
      BY <2>1, <3>1, <3>2, SameComputeRow
    <3> QED BY <3>1, <3>2, <3>3, CommitAndEndStep DEF row
  <2> QED BY <2>2, <2>3
<1> QED BY <1>1, <1>2

(* Commands.                                                                *)
LEMMA CommandKeeps ==
    ASSUME IInv, Start \/ Stop \/ SleepOffVm
    PROVE  IInv'
<1>0. orb \in OrbRow
  BY DEF IInv, TypeOK
<1>1. PICK s \in {"starting", "stopping", "stopped"} :
        /\ orb' = [orb EXCEPT !.state = s, !.stopReason = "other"]
        /\ current' = {} /\ UNCHANGED <<hosts, pc, local>>
  BY <1>0 DEF Start, Stop, SleepOffVm, OrbRow
<1> DEFINE row == [orb EXCEPT !.state = s, !.stopReason = "other"]
<1>2. row \in OrbRow /\ row.incarnation = orb.incarnation /\ row.state = s
      /\ row.hostRef = orb.hostRef /\ row.token = orb.token
      /\ row.discardThrough = orb.discardThrough
  BY <1>0 DEF OrbRow, OrbState
<1>3. orb' = row
  BY <1>1
<1> HIDE DEF row
<1>4. RowHolds(row)
  BY <1>2, SameComputeRow
<1> QED BY <1>1, <1>2, <1>3, <1>4, CommandStep

(* The hosts' own steps, and the sweep over them.                            *)
LEMMA EnvironmentKeeps ==
    ASSUME IInv, NEW i \in Incarnation, Environment(i) \/ OrphanSweep(i)
    PROVE  IInv'
<1>1. UNCHANGED <<orb, pc, current, local>>
  BY DEF Environment, HostReady, HostFails, HostVanishes, OrphanSweep
<1>2. hosts[i] \in Host
  BY HostTypes DEF IInv
<1>3. CASE HostReady(i)
  <2>1. hosts' = [hosts EXCEPT ![i].status = "ready"] /\ orb.token = <<i, hosts[i].token>>
        /\ hosts[i].status = "booting"
    BY <1>3 DEF HostReady, Authorised
  <2>2. hosts' \in [Incarnation -> Host]
    BY <1>2, <2>1 DEF IInv, TypeOK, Host, HostStatus
  <2>3. ASSUME NEW j \in Incarnation
        PROVE /\ hosts[j].token <= hosts'[j].token
              /\ j > orb.incarnation => hosts'[j] = hosts[j]
              /\ hosts'[j].status = "ready" =>
                    \/ hosts[j].status = "ready" /\ hosts'[j].token = hosts[j].token
                    \/ orb.token = <<j, hosts'[j].token>>
    <3>1. hosts[j].token \in Nat
      BY HostTypes DEF IInv
    <3>2. CASE j = i
      BY <1>2, <2>1, <3>1, <3>2 DEF IInv, TypeOK, Host, NoHostAhead, NoHostYet
    <3>3. CASE j # i
      BY <2>1, <3>1, <3>3 DEF IInv, TypeOK
    <3> QED BY <3>2, <3>3
  <2>4. HostsEvolve
    BY <2>2, <2>3 DEF HostsEvolve
  <2> QED BY <1>1, <2>4, EnvironmentStep
<1>4. CASE \E status \in {"booting", "stopped"} :
              hosts[i].status \in Up /\ hosts' = [hosts EXCEPT ![i].status = status]
  <2>1. PICK status \in {"booting", "stopped"} :
              hosts[i].status \in Up /\ hosts' = [hosts EXCEPT ![i].status = status]
    BY <1>4
  <2> DEFINE host == [hosts[i] EXCEPT !.status = status]
  <2>2. hosts' = [hosts EXCEPT ![i] = host]
    BY <1>2, <2>1 DEF IInv, TypeOK
  <2>3. host \in Host /\ host.token = hosts[i].token /\ host.status = status
    BY <1>2 DEF Host, HostStatus
  <2> HIDE DEF host
  <2>4. HostsEvolve
    BY <2>1, <2>2, <2>3, HostChanged DEF Up
  <2> QED BY <1>1, <2>4, EnvironmentStep
<1>5. CASE HostVanishes(i)
  <2>1. hosts' = [hosts EXCEPT ![i] = Absent(hosts[i])] /\ hosts[i].status # "absent"
    BY <1>5 DEF HostVanishes, IInv, TypeOK
  <2>2. HostsEvolve
    BY <1>2, <2>1, AbsentHost, HostChanged
  <2> QED BY <1>1, <2>2, EnvironmentStep
<1>6. CASE hosts' = DiscardedThrough(i)
  BY <1>1, <1>6, HostsDiscarded, EnvironmentStep
<1> QED BY <1>3, <1>4, <1>5, <1>6 DEF Environment, HostFails, OrphanSweep, Up

-----------------------------------------------------------------------------

(* The initial state.                                                       *)
LEMMA InitHolds == Init => IInv
<1> SUFFICES ASSUME Init PROVE IInv
  OBVIOUS
<1> USE Types DEF Init
<1>1. TypeOK
  BY DEF TypeOK, PC
<1>2. PassShape /\ CurrentCopies /\ NoCopyAhead /\ AdmittedForward /\ MintedIsOrdered
  BY DEF PassShape, CurrentCopies, NoCopyAhead, AdmittedForward, MintedIsOrdered, NewRow, Booting
<1>3. /\ HostRefNamesIncarnation /\ FailedRetainsNoCompute /\ CondemnedIsUnauthorised
      /\ RunningIsUncondemned /\ RunningHasHost /\ TokenNamesHost
      /\ NoHostAhead /\ ReadyHoldsToken
  BY DEF HostRefNamesIncarnation, FailedRetainsNoCompute, CondemnedIsUnauthorised,
         RunningIsUncondemned, RunningHasHost, TokenNamesHost, NoHostAhead, ReadyHoldsToken,
         NewRow, NoHostYet
<1> QED BY <1>1, <1>2, <1>3 DEF IInv

(* Stuttering.                                                              *)
LEMMA StutterKeeps == IInv /\ UNCHANGED vars => IInv'
<1> SUFFICES ASSUME IInv, UNCHANGED vars PROVE IInv'
  OBVIOUS
<1> QED BY EnvironmentStep, HostsStay DEF vars, local

(* Every step.                                                              *)
LEMMA NextKeeps == IInv /\ [Next]_vars => IInv'
<1> SUFFICES ASSUME IInv, Next PROVE IInv'
  BY StutterKeeps
<1>1. ASSUME NEW r \in Reconcilers, Read(r) \/ Abandon(r) PROVE IInv'
  BY <1>1, ReadKeeps, DisposalKeeps
<1>2. ASSUME NEW r \in Reconcilers, Pass(r) PROVE IInv'
  BY <1>2, DisposalKeeps, FinalizeKeeps, AdmissionKeeps, ProvisionKeeps, CommitProvisionKeeps,
     DecisionKeeps, ProviderStepKeeps, TransitionKeeps
     DEF Pass
<1> QED BY <1>1, <1>2, CommandKeeps, EnvironmentKeeps DEF Next

(* IInv is an invariant of the reconcilers: the rest follows from it.        *)
THEOREM Inductive == Spec => []IInv
BY InitHolds, NextKeeps, PTL DEF Spec

-----------------------------------------------------------------------------

(* Every reachable row, host, copy and observation has its type.             *)
THEOREM TypeCorrect == Spec => []TypeOK
BY Inductive, PTL DEF IInv

(* However late a pass commits what it provisioned, the row names compute of *)
(* its own incarnation or none; a failed orb's compute is condemned, what is *)
(* condemned has no valid token, and a running orb has compute.              *)
THEOREM CommitsAreFenced == Spec => []RowConsistent
BY Inductive, PTL DEF IInv, RowConsistent

(* The row of a running orb authenticates the host that serves it.           *)
THEOREM RunningIsAuthorised == Spec => []ReadyIsAuthorised
<1>1. IInv => ReadyIsAuthorised
  BY DEF IInv, RunningIsUncondemned, ReadyHoldsToken, ReadyIsAuthorised
<1> QED BY <1>1, Inductive, PTL

=============================================================================
