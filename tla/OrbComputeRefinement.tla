------------------------ MODULE OrbComputeRefinement ------------------------
(***************************************************************************)
(* OrbCompute implements ComputeFence, and the two action properties of    *)
(* OrbCompute hold, for every value of the constants.                      *)
(*                                                                         *)
(* A step changes the hosts or the compute columns of the row, never both. *)
(* One that changes hosts starts, stops, creates or removes them, or is    *)
(* the boot of an authorised runtime; one that changes the row adopts,     *)
(* condemns or retires compute.                                            *)
(***************************************************************************)
EXTENDS OrbComputeProofs

(* No runtime becomes ready.                                                 *)
NoneBecomesReady ==
    \A i \in Incarnation : hosts'[i].status = "ready" => hosts[i].status = "ready"

ComputeUnchanged ==
    /\ orb'.incarnation = orb.incarnation /\ orb'.hostRef = orb.hostRef
    /\ orb'.discardThrough = orb.discardThrough /\ orb'.token = orb.token
    /\ orb'.spec = orb.spec /\ orb'.gen = orb.gen

Adopts ==
    /\ orb.discardThrough = NoFence
    /\ orb'.incarnation = orb.incarnation /\ orb'.hostRef = orb.incarnation
    /\ orb'.discardThrough = NoFence /\ orb'.token[1] = orb.incarnation
    /\ orb.spec \in {NoSpec, orb'.spec} \/ orb'.gen >= orb.gen

Condemns ==
    /\ orb'.incarnation = orb.incarnation /\ orb'.hostRef = orb.hostRef
    /\ orb'.discardThrough = orb.incarnation /\ orb'.token = NoToken
    /\ orb'.spec = orb.spec \/ orb'.gen >= orb.gen

Retires ==
    /\ orb.discardThrough # NoFence /\ orb.token = NoToken
    /\ orb'.incarnation = orb.incarnation + 1 /\ orb'.hostRef = NoHost
    /\ orb'.discardThrough = NoFence /\ orb'.token = NoToken
    /\ orb'.spec \in {NoSpec, orb.spec}

(* A step that brings no runtime into service.                               *)
QuietStep ==
    \/ ComputeUnchanged /\ NoneBecomesReady
    \/ (Adopts \/ Condemns \/ Retires) /\ hosts' = hosts

-----------------------------------------------------------------------------
(* Hosts *)

(* A host that is replaced by one that is not newly ready is a quiet step.   *)
LEMMA OneHostQuiet ==
    ASSUME TypeOK, NEW i \in Incarnation, NEW host,
           hosts' = [hosts EXCEPT ![i] = host],
           host.status = "ready" => hosts[i].status = "ready"
    PROVE  NoneBecomesReady
BY DEF TypeOK, NoneBecomesReady

(* discardCompute brings nothing into service.                               *)
LEMMA DiscardQuiet ==
    ASSUME TypeOK, NEW n, hosts' = DiscardedThrough(n)
    PROVE  NoneBecomesReady
BY HostTypes, AbsentHost DEF TypeOK, NoneBecomesReady, DiscardedThrough

(* start() boots a stopped host; the runtime is not ready by that.           *)
LEMMA StartToQuiet ==
    ASSUME IInv, NEW r \in Reconcilers, NEW spec, NEW label,
           seen[r].hostRef # NoHost, StartTo(r, spec, label)
    PROVE  ComputeUnchanged /\ NoneBecomesReady
<1>1. seen[r].hostRef \in Incarnation
  BY RowTypes, Types DEF IInv, TypeOK
<1>2. orb' = orb
  BY DEF StartTo, Drop
<1>3. CASE hosts' = hosts
  BY <1>2, <1>3 DEF ComputeUnchanged, NoneBecomesReady
<1>4. CASE hosts' = [hosts EXCEPT ![seen[r].hostRef] = Started(hosts[seen[r].hostRef])]
  BY <1>1, <1>2, <1>4, HostTypes, StartedHost, OneHostQuiet DEF ComputeUnchanged, IInv
<1> QED BY <1>1, <1>3, <1>4 DEF StartTo, IInv, TypeOK

(* stop() brings nothing into service.                                       *)
LEMMA StopToQuiet ==
    ASSUME IInv, NEW r \in Reconcilers, NEW label,
           seen[r].hostRef # NoHost, StopTo(r, label)
    PROVE  ComputeUnchanged /\ NoneBecomesReady
<1>1. seen[r].hostRef \in Incarnation
  BY RowTypes, Types DEF IInv, TypeOK
<1>2. orb' = orb
  BY DEF StopTo, Drop
<1>3. NoneBecomesReady
  BY <1>1, HostTypes DEF StopTo, IInv, TypeOK, NoneBecomesReady, Host
<1> QED BY <1>2, <1>3 DEF ComputeUnchanged

(* A provision creates, starts or adopts the host.                           *)
LEMMA ProvisionQuiet ==
    ASSUME IInv, NEW r \in Reconcilers, Provision(r)
    PROVE  ComputeUnchanged /\ NoneBecomesReady
<1>1. orb' = orb
  BY DEF Provision, Conflict, Drop
<1>2. CASE hosts' = hosts
  BY <1>1, <1>2 DEF ComputeUnchanged, NoneBecomesReady
<1>3. CASE \E spec : hosts' = [hosts EXCEPT ![seen[r].incarnation] =
                                  Created(hosts[seen[r].incarnation], spec)]
  BY <1>1, <1>3, RowTypes, OneHostQuiet DEF IInv, TypeOK, Created, ComputeUnchanged
<1>4. CASE hosts' = [hosts EXCEPT ![seen[r].incarnation] =
                        Started(hosts[seen[r].incarnation])]
  BY <1>1, <1>4, RowTypes, HostTypes, StartedHost, OneHostQuiet DEF IInv, TypeOK, ComputeUnchanged
<1> QED BY <1>2, <1>3, <1>4 DEF Provision, Conflict

-----------------------------------------------------------------------------
(* The row *)

(* A committed provision adopts the compute of the live incarnation.         *)
LEMMA CommitAdopts ==
    ASSUME IInv, NEW r \in Reconcilers, CommitProvision(r)
    PROVE  QuietStep
<1>1. CASE ~StillUncondemned(r)
  BY <1>1 DEF CommitProvision, QuietStep, ComputeUnchanged, NoneBecomesReady
<1>2. CASE StillUncondemned(r)
  <2>1. seen[r] = orb /\ orb.discardThrough = NoFence /\ pc[r] = "commit" /\ Booting(r)
    BY <1>2, WhereItStands DEF CommitProvision, StillUncondemned
  <2>2. orb \in OrbRow /\ minted[r][1] = orb.incarnation
    BY <2>1 DEF IInv, TypeOK, MintedIsOrdered
  <2>3. orb.spec \in {NoSpec, SpecOf[r]} \/ GenOf[r] >= orb.gen
    BY <2>1 DEF IInv, AdmittedForward
  <2>4. orb' = [orb EXCEPT !.hostRef = seen[r].incarnation, !.token = minted[r],
                           !.spec = SpecOf[r], !.gen = GenOf[r]]
        /\ hosts' = hosts
    BY <1>2 DEF CommitProvision, CommitAndGo, CommitAndEnd
  <2>5. Adopts
    BY <2>1, <2>2, <2>3, <2>4 DEF Adopts, OrbRow
  <2> QED BY <2>4, <2>5 DEF QuietStep
<1> QED BY <1>1, <1>2

(* A failure and a replacement condemn the live incarnation.                 *)
LEMMA CondemnStep ==
    ASSUME IInv, NEW r \in Reconcilers, FailOrb(r) \/ RequestHostSpecReplacement(r)
    PROVE  QuietStep
<1>1. orb \in OrbRow
  BY DEF IInv, TypeOK
<1>2. CASE Conflict(r)
  BY <1>2 DEF Conflict, QuietStep, ComputeUnchanged, NoneBecomesReady
<1>3. CASE orb' = Failed(orb) /\ hosts' = hosts
  BY <1>1, <1>3 DEF Failed, OrbRow, Condemns, QuietStep
<1>4. CASE orb' = Replaced(orb, r) /\ hosts' = hosts /\ GenOf[r] >= orb.gen
  BY <1>1, <1>4 DEF Replaced, OrbRow, Condemns, QuietStep
<1> QED BY <1>2, <1>3, <1>4 DEF FailOrb, RequestHostSpecReplacement, CommitAndEnd

(* A finalized discard retires the condemned incarnation.                    *)
LEMMA FinalizeRetires ==
    ASSUME IInv, NEW r \in Reconcilers, FinalizeHostDiscard(r)
    PROVE  QuietStep
<1>1. CASE ~StillOutstanding(r)
  BY <1>1 DEF FinalizeHostDiscard, Conflict, QuietStep, ComputeUnchanged, NoneBecomesReady
<1>2. CASE StillOutstanding(r)
  <2>1. orb' = Retired(orb) /\ hosts' = hosts /\ orb.discardThrough # NoFence
    BY <1>2, WhereItStands DEF FinalizeHostDiscard, StillOutstanding
  <2>2. orb \in OrbRow /\ orb.discardThrough = orb.incarnation /\ orb.token = NoToken
    BY <2>1 DEF IInv, TypeOK, CondemnedIsUnauthorised
  <2>3. Retires
    BY <2>1, <2>2 DEF Retired, OrbRow, Retires
  <2> QED BY <2>1, <2>3 DEF QuietStep
<1> QED BY <1>1, <1>2

-----------------------------------------------------------------------------
(* Every step is quiet, or the boot of an authorised runtime.                *)

(* A step of a pass.                                                         *)
LEMMA PassIsQuiet ==
    ASSUME IInv, NEW r \in Reconcilers, Pass(r)
    PROVE  QuietStep
<1>0. orb \in OrbRow
  BY DEF IInv, TypeOK
<1>1. CASE orb' = orb /\ hosts' = hosts
  BY <1>1 DEF QuietStep, ComputeUnchanged, NoneBecomesReady
<1>2. CASE DiscardCompute(r) \/ DiscardSupersededProvision(r)
  BY <1>2, DiscardQuiet
     DEF DiscardCompute, DiscardSupersededProvision, Drop, QuietStep, ComputeUnchanged, IInv
<1>3. CASE FinalizeHostDiscard(r) \/ FailOrb(r) \/ RequestHostSpecReplacement(r)
           \/ CommitProvision(r) \/ Provision(r)
  BY <1>3, FinalizeRetires, CondemnStep, CommitAdopts, ProvisionQuiet DEF QuietStep
<1>4. CASE StartHost(r) \/ Rebound(r) \/ CompleteRestart(r)
  BY <1>4, WhereItStands, StartToQuiet DEF StartHost, Rebound, CompleteRestart, QuietStep
<1>5. CASE Bounce(r) \/ StopDrained(r) \/ StopStray(r)
  BY <1>5, WhereItStands, StopToQuiet DEF Bounce, StopDrained, StopStray, QuietStep
<1>6. CASE CommitReady(r)
  <2>1. CASE r \notin current
    BY <1>1, <1>6, <2>1 DEF CommitReady, Conflict
  <2>2. CASE r \in current
    <3>1. seen[r] = orb
      BY <1>6, <2>2 DEF CommitReady, IInv, CurrentCopies
    <3>2. /\ orb' = [orb EXCEPT !.everReady = TRUE, !.hostRef = orb.hostRef]
          /\ hosts' = hosts
      BY <1>6, <2>2, <3>1 DEF CommitReady, CommitAndGo
    <3>3. ComputeUnchanged
      BY <1>0, <3>2 DEF ComputeUnchanged, OrbRow
    <3> QED BY <3>2, <3>3 DEF QuietStep, NoneBecomesReady
  <2> QED BY <2>1, <2>2
<1>7. CASE EnterRunning(r) \/ AutoRestart(r) \/ QuietStop(r) \/ EnterStopped(r)
           \/ DeclineIdleStop(r)
  BY <1>0, <1>7
     DEF EnterRunning, AutoRestart, QuietStop, EnterStopped, DeclineIdleStop, CommitAndEnd,
         Conflict, QuietStep, ComputeUnchanged, NoneBecomesReady, OrbRow
<1>8. CASE DeclineProvision(r) \/ Admit(r) \/ ReEnterState(r) \/ Deadline(r) \/ ReRead(r)
           \/ ProviderFails(r) \/ Superseded(r) \/ Observe(r) \/ Restore(r) \/ BootFailed(r)
           \/ RuntimeFailed(r)
  BY <1>1, <1>8
     DEF DeclineProvision, Admit, ReEnterState, Deadline, ReRead, ProviderFails, Superseded,
         Observe, Restore, BootFailed, RuntimeFailed, Drop, Conflict, CommitAndGo
<1> QED BY <1>2, <1>3, <1>4, <1>5, <1>6, <1>7, <1>8 DEF Pass

(* Any step but the boot of a runtime.                                       *)
LEMMA NextIsQuiet ==
    ASSUME IInv, [Next]_vars, ~\E i \in Incarnation : HostReady(i)
    PROVE  QuietStep
<1>0. orb \in OrbRow
  BY DEF IInv, TypeOK
<1>1. CASE orb' = orb /\ hosts' = hosts
  BY <1>1 DEF QuietStep, ComputeUnchanged, NoneBecomesReady
<1>2. CASE \E r \in Reconcilers : Read(r) \/ Pass(r) \/ Abandon(r)
  BY <1>1, <1>2, PassIsQuiet DEF Read, Abandon, Drop
<1>3. CASE Start \/ Stop \/ SleepOffVm
  BY <1>0, <1>3 DEF Start, Stop, SleepOffVm, QuietStep, ComputeUnchanged, NoneBecomesReady, OrbRow
<1>4. CASE \E i \in Incarnation : HostFails(i) \/ HostVanishes(i) \/ OrphanSweep(i)
  <2>1. PICK i \in Incarnation : HostFails(i) \/ HostVanishes(i) \/ OrphanSweep(i)
    BY <1>4
  <2>2. orb' = orb /\ hosts[i] \in Host
    BY <2>1, HostTypes DEF HostFails, HostVanishes, OrphanSweep, IInv
  <2>3. CASE \E s \in {"booting", "stopped"} : hosts' = [hosts EXCEPT ![i].status = s]
    BY <2>2, <2>3 DEF IInv, TypeOK, Host, NoneBecomesReady, QuietStep, ComputeUnchanged
  <2>4. CASE hosts' = [hosts EXCEPT ![i] = Absent(@)]
    BY <2>2, <2>4, AbsentHost, OneHostQuiet DEF IInv, TypeOK, QuietStep, ComputeUnchanged
  <2>5. CASE hosts' = DiscardedThrough(i)
    BY <2>2, <2>5, DiscardQuiet DEF IInv, QuietStep, ComputeUnchanged
  <2> QED BY <2>1, <2>3, <2>4, <2>5 DEF HostFails, HostVanishes, OrphanSweep
<1> QED BY <1>1, <1>2, <1>3, <1>4 DEF Next, Environment, vars, local

(* A runtime that becomes ready is of the live, uncondemned incarnation.     *)
LEMMA ReadyIsLive ==
    ASSUME IInv, NEW i \in Incarnation, HostReady(i)
    PROVE  /\ i = orb.incarnation /\ orb.discardThrough = NoFence
           /\ orb.token[1] = orb.incarnation
           /\ orb' = orb /\ hosts' = [hosts EXCEPT ![i].status = "ready"]
<1>1. orb.token = <<i, hosts[i].token>> /\ orb' = orb
      /\ hosts' = [hosts EXCEPT ![i].status = "ready"]
  BY DEF HostReady, Authorised
<1>2. orb.token # NoToken
  BY <1>1, Types DEF NoToken
<1>3. orb.token[1] = orb.incarnation
  BY <1>2 DEF IInv, TokenNamesHost
<1> QED BY <1>1, <1>2, <1>3 DEF IInv, CondemnedIsUnauthorised

-----------------------------------------------------------------------------

(* A runtime becomes ready only on the live incarnation, and never while its *)
(* discard is outstanding.                                                   *)
THEOREM OnlyLiveBoots == Spec => OnlyLiveIncarnationBoots
<1> DEFINE Boots == \A i \in Incarnation :
                      (hosts[i].status # "ready" /\ hosts'[i].status = "ready") =>
                          i = orb.incarnation /\ orb.discardThrough = NoFence
<1>1. ASSUME IInv, [Next]_vars PROVE Boots
  <2>1. CASE \E i \in Incarnation : HostReady(i)
    BY <1>1, <2>1, ReadyIsLive DEF IInv, TypeOK
  <2>2. CASE ~\E i \in Incarnation : HostReady(i)
    <3>1. NoneBecomesReady \/ hosts' = hosts
      BY <1>1, <2>2, NextIsQuiet DEF QuietStep
    <3> QED BY <3>1 DEF NoneBecomesReady
  <2> QED BY <2>1, <2>2
<1>2. IInv /\ [Next]_vars => [Boots]_vars
  BY <1>1
<1> QED BY <1>2, Inductive, PTL DEF Spec, OnlyLiveIncarnationBoots

(* The committed specification of an orb never gives way to one of an older  *)
(* generation.                                                               *)
THEOREM SpecsGoForward == Spec => SpecOnlyForward
<1> DEFINE Forward == (orb'.spec # orb.spec /\ orb.spec # NoSpec /\ orb'.spec # NoSpec) =>
                          orb'.gen >= orb.gen
<1>1. ASSUME IInv, [Next]_vars PROVE Forward
  <2>1. CASE \E i \in Incarnation : HostReady(i)
    BY <1>1, <2>1, ReadyIsLive
  <2>2. CASE ~\E i \in Incarnation : HostReady(i)
    BY <1>1, <2>2, NextIsQuiet
       DEF QuietStep, ComputeUnchanged, Adopts, Condemns, Retires
  <2> QED BY <2>1, <2>2
<1>2. IInv /\ [Next]_vars => [Forward]_vars
  BY <1>1
<1> QED BY <1>2, Inductive, PTL DEF Spec, SpecOnlyForward

-----------------------------------------------------------------------------

(* The reconcilers implement the fence: the row starts as it does, and every *)
(* step adopts, condemns, retires, serves, ceases to serve or stutters.      *)
THEOREM Implements == Spec => ImplementsFence
<1>1. Init => Fence!Init
  BY Types DEF Init, Fence!Init, Fence!None, NewRow, NoHostYet, NoToken, NoHost, NoFence
<1>2. ASSUME IInv, [Next]_vars PROVE [Fence!Next]_Fence!fenceVars
  <2>1. CASE \E i \in Incarnation : HostReady(i)
    <3>1. PICK i \in Incarnation : HostReady(i)
      BY <2>1
    <3>2. /\ i = orb.incarnation /\ orb.token[1] = orb.incarnation /\ orb' = orb
          /\ hosts' = [hosts EXCEPT ![i].status = "ready"]
      BY <1>2, <3>1, ReadyIsLive
    <3>3. {j \in Incarnation : hosts'[j].status = "ready"} =
              {j \in Incarnation : hosts[j].status = "ready"} \cup {orb.incarnation}
      BY <1>2, <3>2, HostTypes DEF IInv, TypeOK, Host
    <3>4. Fence!Serve
      BY <3>2, <3>3 DEF Fence!Serve
    <3> QED BY <3>4 DEF Fence!Next
  <2>2. CASE ComputeUnchanged /\ NoneBecomesReady
    <3> DEFINE gone == {j \in Incarnation : hosts[j].status = "ready"
                                            /\ hosts'[j].status # "ready"}
    <3>1. /\ gone \in SUBSET {j \in Incarnation : hosts[j].status = "ready"}
          /\ {j \in Incarnation : hosts'[j].status = "ready"} =
                 {j \in Incarnation : hosts[j].status = "ready"} \ gone
      BY <2>2 DEF NoneBecomesReady
    <3> HIDE DEF gone
    <3>2. Fence!Cease
      BY <2>2, <3>1 DEF Fence!Cease, ComputeUnchanged
    <3> QED BY <3>2 DEF Fence!Next
  <2>3. CASE Adopts /\ hosts' = hosts
    BY <2>3 DEF Adopts, Fence!Adopt, Fence!Next
  <2>4. CASE Condemns /\ hosts' = hosts
    BY <1>2, <2>4, RowTypes, Types
       DEF Condemns, IInv, TypeOK, NoToken, Fence!Condemn, Fence!None, Fence!Next
  <2>5. CASE Retires /\ hosts' = hosts
    BY <2>5, Types DEF Retires, Fence!Retire, Fence!None, Fence!Next
  <2> QED BY <1>2, <2>1, <2>2, <2>3, <2>4, <2>5, NextIsQuiet DEF QuietStep
<1>3. IInv /\ [Next]_vars => [Fence!Next]_Fence!fenceVars
  BY <1>2
<1> QED BY <1>1, <1>3, Inductive, PTL DEF Spec, ImplementsFence, Fence!Spec

=============================================================================
