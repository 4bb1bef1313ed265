-------------------------- MODULE CredentialBrokerInv --------------------------
(***************************************************************************)
(* What every reachable state of the credential broker has in common: the  *)
(* inductive invariant behind the theorems of CredentialBrokerProofs.      *)
(***************************************************************************)
EXTENDS CredentialBroker

\* The pairs the row has held are ordered by generation, the row's is the last.
History ==
    /\ ptr \in named /\ [gen |-> 0, secret |-> None] \in named
    /\ \A p \in named : p.gen <= ptr.gen /\ p.secret <= issued
    /\ OneCredentialPerGeneration

\* Callers and logins are where their functions can be.
Places ==
    /\ \A a \in Callers : pc[a] \in CallerSteps
    /\ \A l \in Logins : pc[l] \in LoginSteps

\* Every copy was the row's once; the current ones still are.
Copies ==
    /\ \A a \in Actors : copy[a] \in named
    /\ \A a \in current : copy[a] = ptr
    /\ \A a \in Callers :
          pc[a] \in {"read", "held", "leased", "overdue", "rotated", "release", "rejected"}
              => copy[a].secret # None

\* Nobody else publishes what an actor is about to publish.
Own ==
    /\ \A a \in Actors : got[a] <= issued
    /\ \A a \in Actors : pc[a] \in {"rotated", "staged", "unsure", "written", "ready"}
                             => got[a] # None
    /\ \A a, b \in Actors : got[a] = got[b] /\ got[a] # None => a = b

\* Until an actor tried to publish, the row never held what it has to publish;
\* afterwards, if at all, only later than the copy.
Unpublished ==
    /\ \A a \in Actors : pc[a] \in {"rotated", "staged", "written", "ready"}
                             => \A p \in named : p.secret # got[a]
    /\ \A a \in Actors : pc[a] = "unsure"
                             => \A p \in named : p.secret = got[a] => copy[a].gen < p.gen

\* What may still be published is there.
Kept ==
    /\ PointerNamesStored
    /\ \A a \in Actors : pc[a] \in {"staged", "written", "ready"} => got[a] \in stored
    /\ \A a \in Actors : pc[a] = "unsure" /\ (\A p \in named : p.secret # got[a])
                             => got[a] \in stored

\* What is to be destroyed was superseded.
Superseded == \A a \in Actors : pc[a] = "retire" => copy[a].gen < ptr.gen

\* What a refresh publishes was rotated from the credential it read, what a
\* login publishes was not rotated at all.
Lineage ==
    /\ \A a \in Callers : pc[a] \in {"rotated", "staged", "unsure"}
                              => parent[got[a]] = copy[a].secret
    /\ \A l \in Logins : pc[l] \in {"written", "ready", "unsure"} => parent[got[l]] = None

\* The provider does not accept again what it refused.
Refused == \A a \in Callers : pc[a] = "rejected" => copy[a].secret \notin live

\* While the holder of a lease on the row's credential is upstream in time,
\* nobody who could give that lease up is current.
Exclusive ==
    \A a \in Callers : pc[a] = "leased" /\ copy[a] = ptr
        => /\ lease
           /\ \A b \in current \ {a} : pc[b] \notin Upstream \cup {"rotated", "release"}

IInv ==
    /\ TypeOK /\ History /\ Places /\ Copies /\ Own /\ Unpublished /\ Kept
    /\ Superseded /\ Lineage /\ Refused /\ Exclusive /\ RefreshesCoalesce
=============================================================================
