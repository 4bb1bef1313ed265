--------------------------- MODULE CredentialBroker ---------------------------
(***************************************************************************)
(* The credential broker (domain/broker.ts) of one owner and provider.     *)
(*                                                                         *)
(* A pointer row in PostgreSQL names the one secret version that holds the *)
(* owner's OAuth credential.  Callers of getToken refresh that credential  *)
(* upstream when it is stale, store what they got as a new version and     *)
(* publish it; logins publish a fresh credential.  Nothing is locked: every*)
(* write of the row is a compare-and-set on its row_version, and a lease   *)
(* in the row that expires keeps callers from refreshing together.         *)
(*                                                                         *)
(* A credential and the version that stores it are one number, given in    *)
(* the order of creation; 0 stands for none.  Whether a token is expired,  *)
(* near expiry or reported as rejected is left open: a caller that holds a *)
(* credential may be served it, wait, or seek the lease.                   *)
(***************************************************************************)
EXTENDS Integers, FiniteSets

CONSTANTS
    Callers,             \* calls of getToken, each one after the other
    Logins,              \* publications of completed logins
    MaxCred              \* bound: credentials ever issued upstream

ASSUME BrokerAssumption ==
    /\ MaxCred \in Nat
    /\ Callers \cap Logins = {}

VARIABLES
    ptr,      \* the row: the generation and the version it names
    lease,    \* the row's refresh lease is set and has not expired
    current,  \* the actors whose row_version is the row's
    stored,   \* the versions in the secret store
    live,     \* the refresh tokens that the provider still accepts
    parent,   \* for a rotated credential, the one it was rotated from
    issued,   \* how many credentials the provider has issued
    pc,       \* where each actor is
    copy,     \* the row as the actor read it
    got,      \* the credential that the actor is about to publish
    named,    \* every pair the row has held
    grants    \* the generations and credentials that callers were given

row == <<ptr, lease, named>>
upstream == <<live, parent, issued>>
vars == <<ptr, lease, current, stored, live, parent, issued, pc, copy, got,
          named, grants>>

Actors == Callers \cup Logins
None == 0
Cred == 1..MaxCred
Pointer == [gen : Nat, secret : Cred \cup {None}]

\* A caller is overdue when a lease ran out while it was upstream.
CallerSteps == {"idle", "read", "held", "leased", "overdue", "rotated", "staged",
                "unsure", "retire", "rejected", "release"}
Upstream == {"leased", "overdue"}
LoginSteps == {"idle", "written", "ready", "unsure", "retire"}

(***************************************************************************)
(* There is a row from the start; one that was never written names nothing *)
(* and is its generation 0.                                                *)
(***************************************************************************)
Init ==
    /\ ptr = [gen |-> 0, secret |-> None]
    /\ lease = FALSE
    /\ current = {}
    /\ stored = {} /\ live = {}
    /\ parent = [c \in Cred |-> None]
    /\ issued = 0
    /\ pc = [a \in Actors |-> "idle"]
    /\ copy = [a \in Actors |-> ptr]
    /\ got = [a \in Actors |-> None]
    /\ named = {ptr}
    /\ grants = {}

-----------------------------------------------------------------------------
(* The row, the store and an actor's own progress.                         *)

Goto(a, step) == pc' = [pc EXCEPT ![a] = step]

\* The actor returns; what it held is of no further use to anyone.
Finish(a) ==
    /\ Goto(a, "idle")
    /\ copy' = [copy EXCEPT ![a] = [gen |-> 0, secret |-> None]]
    /\ got' = [got EXCEPT ![a] = None]

(* Mutant: the generation counts down. *)
AfterCountingDown(p, c) == [gen |-> p.gen - 1, secret |-> c]

(* Mutant: a new credential keeps the generation. *)
AfterSameGeneration(p, c) == [gen |-> p.gen, secret |-> c]

After(p, c) == [gen |-> p.gen + 1, secret |-> c]

\* casWritePointer: only from the row version that the actor holds.
Cas(a, p, leased) ==
    /\ a \in current
    /\ ptr' = p /\ lease' = leased
    /\ named' = named \cup {p}

\* A write the row refuses, or that fails before it reaches the row.
NoCas(a) == UNCHANGED row /\ current' = current \ {a}

\* destroySecret; its failures are ignored.
Destroy(c) == stored' \in {stored, stored \ {c}}

\* The provider issues a credential, by rotation of c or, for None, by login.
Issue(c) ==
    /\ issued < MaxCred
    /\ issued' = issued + 1
    /\ parent' = [parent EXCEPT ![issued + 1] = c]
    /\ live' = (live \ {c}) \cup {issued + 1}

\* readPointer into the actor's copy.
Take(a) ==
    /\ copy' = [copy EXCEPT ![a] = ptr]
    /\ current' = current \cup {a}
    /\ UNCHANGED row

Grant(gen, c) == grants' = grants \cup {[gen |-> gen, secret |-> c]}

-----------------------------------------------------------------------------
(* getToken.                                                               *)

\* A row that names nothing is answered with auth_required.
ReadPointer(a) ==
    /\ pc[a] = "idle"
    /\ ptr.secret # None
    /\ Take(a) /\ Goto(a, "read")
    /\ UNCHANGED <<stored, upstream, got, grants>>

\* A version that is gone was superseded after the row was read.
ReadSecret(a) ==
    /\ pc[a] = "read"
    /\ \/ /\ copy[a].secret \in stored
          /\ Goto(a, "held") /\ UNCHANGED <<current, copy, got>>
       \/ /\ copy[a].secret \notin stored
          /\ Finish(a) /\ current' = current \ {a}
    /\ UNCHANGED <<row, stored, upstream, grants>>

Serve(a) ==
    /\ pc[a] = "held"
    /\ Grant(copy[a].gen, copy[a].secret)
    /\ Finish(a) /\ NoCas(a)
    /\ UNCHANGED <<stored, upstream>>

(* Mutant: whether somebody holds the lease is not looked at. *)
LeaseHeld(a) ==
    /\ pc[a] = "held"
    /\ Cas(a, ptr, TRUE)
    /\ current' = {a} /\ Goto(a, "leased") /\ UNCHANGED <<copy, got>>
    /\ UNCHANGED <<stored, upstream, grants>>

\* The lease that the caller read may have expired since; it has not if it is
\* still the row's.  An answer that is lost leaves the lease to expire.
Lease(a) ==
    /\ pc[a] = "held"
    /\ ~lease
    /\ Cas(a, ptr, TRUE)
    /\ \/ current' = {a} /\ Goto(a, "leased") /\ UNCHANGED <<copy, got>>
       \/ current' = {} /\ Finish(a)
    /\ UNCHANGED <<stored, upstream, grants>>

\* Another caller holds the lease, or moved the row first: pause and read again.
Wait(a) ==
    /\ pc[a] = "held"
    /\ lease \/ a \notin current
    /\ Finish(a) /\ NoCas(a)
    /\ UNCHANGED <<stored, upstream, grants>>

\* The provider rotates the token; the answer arrives or is lost.
Refresh(a) ==
    /\ pc[a] \in Upstream
    /\ copy[a].secret \in live
    /\ Issue(copy[a].secret)
    /\ \/ Goto(a, "rotated") /\ got' = [got EXCEPT ![a] = issued']
       \/ Goto(a, "release") /\ UNCHANGED got
    /\ UNCHANGED <<row, current, stored, copy, grants>>

InvalidGrant(a) ==
    /\ pc[a] \in Upstream
    /\ copy[a].secret \notin live
    /\ Goto(a, "rejected")
    /\ UNCHANGED <<row, current, stored, upstream, copy, got, grants>>

\* The call failed before the provider took it, or was never made.
NoRefresh(a) ==
    /\ pc[a] \in Upstream
    /\ Goto(a, "release")
    /\ UNCHANGED <<row, current, stored, upstream, copy, got, grants>>

\* A caller whose refresh failed is served what it holds if that will do.
ReleaseLease(a) ==
    /\ pc[a] = "release"
    /\ \/ Cas(a, ptr, FALSE) /\ current' = {}
       \/ NoCas(a)
    /\ \/ got[a] = None /\ Grant(copy[a].gen, copy[a].secret)
       \/ UNCHANGED grants
    /\ Finish(a)
    /\ UNCHANGED <<stored, upstream>>

\* Three writes that fail lose the rotated credential.
WriteSecret(a) ==
    /\ pc[a] = "rotated"
    /\ \/ stored' = stored \cup {got[a]} /\ Goto(a, "staged")
       \/ UNCHANGED stored /\ Goto(a, "release")
    /\ UNCHANGED <<row, current, upstream, copy, got, grants>>

Publish(a) ==
    /\ pc[a] = "staged"
    /\ \/ /\ Cas(a, After(copy[a], got[a]), FALSE) /\ current' = {}
          /\ \/ Goto(a, "retire") /\ Grant(copy[a].gen + 1, got[a])
             \/ Goto(a, "unsure") /\ UNCHANGED grants
       \/ NoCas(a) /\ Goto(a, "unsure") /\ UNCHANGED grants
    /\ UNCHANGED <<stored, upstream, copy, got>>

(* Mutant: a conflict is followed whatever the row names by now. *)
AlwaysConsumed(a) == ptr.secret # got[a]

\* What the refresh consumed is still what the row names.
StillConsumed(a) == ptr = copy[a]

RereadPublished(a) ==
    /\ pc[a] = "unsure"
    /\ ptr.secret = got[a]
    /\ Goto(a, "retire") /\ Grant(ptr.gen, got[a])
    /\ UNCHANGED <<row, current, stored, upstream, copy, got>>

\* At most another lease was taken: publish at the row version it left.
RereadConsumed(a) ==
    /\ pc[a] = "unsure"
    /\ StillConsumed(a)
    /\ current' = current \cup {a}
    /\ Goto(a, "staged")
    /\ UNCHANGED <<row, stored, upstream, copy, got, grants>>

RereadSuperseded(a) ==
    /\ pc[a] = "unsure"
    /\ ptr.secret # got[a] /\ ~StillConsumed(a)
    /\ Destroy(got[a])
    /\ Finish(a) /\ NoCas(a)
    /\ UNCHANGED <<upstream, grants>>

\* The version that was replaced is destroyed, by a refresh or by a login.
Retire(a) ==
    /\ pc[a] = "retire"
    /\ Destroy(copy[a].secret)
    /\ Finish(a) /\ NoCas(a)
    /\ UNCHANGED <<upstream, grants>>

(* Mutant: the clear goes to the row as it is now. *)
ClearLatest(a) ==
    /\ pc[a] = "rejected"
    /\ ptr' = After(ptr, None) /\ lease' = FALSE
    /\ named' = named \cup {ptr'} /\ current' = {}
    /\ Finish(a)
    /\ UNCHANGED <<stored, upstream, grants>>

(* Mutant: a refused credential only loses its lease. *)
ClearLeaseOnly(a) ==
    /\ pc[a] = "rejected"
    /\ \/ Cas(a, ptr, FALSE) /\ current' = {}
       \/ NoCas(a)
    /\ Finish(a)
    /\ UNCHANGED <<stored, upstream, grants>>

\* Only the generation that was submitted upstream is cleared.
Clear(a) ==
    /\ pc[a] = "rejected"
    /\ \/ Cas(a, After(copy[a], None), FALSE) /\ current' = {}
       \/ NoCas(a)
    /\ Finish(a)
    /\ UNCHANGED <<stored, upstream, grants>>

-----------------------------------------------------------------------------
(* commitLoginCredential.                                                  *)

WriteLogin(l) ==
    /\ pc[l] = "idle"
    /\ Issue(None)
    /\ \/ /\ stored' = stored \cup {issued'}
          /\ got' = [got EXCEPT ![l] = issued'] /\ Goto(l, "written")
       \/ UNCHANGED <<stored, got, pc>>
    /\ UNCHANGED <<row, current, copy, grants>>

ReadForLogin(l) ==
    /\ pc[l] = "written"
    /\ Take(l) /\ Goto(l, "ready")
    /\ UNCHANGED <<stored, upstream, got, grants>>

\* A conflict is tried again; a write that failed may have landed, and is not.
CommitLogin(l) ==
    /\ pc[l] = "ready"
    /\ \/ /\ Cas(l, After(copy[l], got[l]), FALSE) /\ current' = {}
          /\ \/ Goto(l, "retire") \/ Goto(l, "unsure")
       \/ /\ NoCas(l)
          /\ Goto(l, IF l \in current THEN "unsure" ELSE "written")
    /\ UNCHANGED <<stored, upstream, copy, got, grants>>

(* Mutant: an uncertain login destroys what it staged. *)
EndLoginDestroying(l) ==
    /\ pc[l] = "unsure"
    /\ stored' = stored \ {got[l]}
    /\ Finish(l) /\ NoCas(l)
    /\ UNCHANGED <<upstream, grants>>

\* Done or uncertain: either way the version is left alone.
EndLogin(l) ==
    /\ pc[l] = "unsure"
    /\ Finish(l) /\ NoCas(l)
    /\ UNCHANGED <<stored, upstream, grants>>

\* Ten conflicts or failed reads: the version was never published.
ExhaustLogin(l) ==
    /\ pc[l] = "written"
    /\ Destroy(got[l])
    /\ Finish(l) /\ NoCas(l)
    /\ UNCHANGED <<upstream, grants>>

-----------------------------------------------------------------------------
\* A deadline, a store that does not answer, or a process that dies.
Abandon(a) ==
    /\ pc[a] # "idle"
    /\ Finish(a) /\ NoCas(a)
    /\ UNCHANGED <<stored, upstream, grants>>

\* The provider stops accepting a token: the user revoked it, or a refresh
\* whose caller no longer waits for it was taken after all.
Revoke(c) ==
    /\ c \in live
    /\ live' = live \ {c}
    /\ UNCHANGED <<row, current, stored, parent, issued, pc, copy, got, grants>>

ExpireLease ==
    /\ lease /\ lease' = FALSE
    /\ pc' = [a \in Actors |-> IF pc[a] = "leased" THEN "overdue" ELSE pc[a]]
    /\ UNCHANGED <<ptr, named, current, stored, upstream, copy, got, grants>>

Call(a) ==
    \/ ReadPointer(a) \/ ReadSecret(a) \/ Serve(a) \/ Lease(a) \/ Wait(a)
    \/ Refresh(a) \/ InvalidGrant(a) \/ NoRefresh(a) \/ ReleaseLease(a)
    \/ WriteSecret(a) \/ Publish(a) \/ RereadPublished(a)
    \/ RereadConsumed(a) \/ RereadSuperseded(a) \/ Retire(a) \/ Clear(a)

Login(l) ==
    \/ WriteLogin(l) \/ ReadForLogin(l) \/ CommitLogin(l) \/ EndLogin(l)
    \/ ExhaustLogin(l) \/ Retire(l)

Next ==
    \/ \E a \in Callers : Call(a)
    \/ \E l \in Logins : Login(l)
    \/ \E a \in Actors : Abandon(a)
    \/ \E c \in Cred : Revoke(c)
    \/ ExpireLease

Spec == Init /\ [][Next]_vars

(***************************************************************************)
(* One caller keeps asking for a token that it reports as rejected.  Each  *)
(* of its calls may fail, be served or die, but not every one; and leases  *)
(* run out.                                                                *)
(***************************************************************************)
Persistent(a) ==
    /\ WF_vars(ReadPointer(a)) /\ SF_vars(ReadSecret(a))
    /\ SF_vars(Lease(a) /\ pc'[a] = "leased") /\ WF_vars(Wait(a))
    /\ SF_vars(InvalidGrant(a)) /\ WF_vars(Refresh(a) \/ NoRefresh(a))
    /\ WF_vars(ReleaseLease(a)) /\ WF_vars(WriteSecret(a))
    /\ WF_vars(Publish(a)) /\ SF_vars(Publish(a) /\ ptr' # ptr)
    /\ WF_vars(RereadPublished(a) \/ RereadConsumed(a) \/ RereadSuperseded(a))
    /\ WF_vars(Retire(a))
    /\ WF_vars(Clear(a)) /\ SF_vars(Clear(a) /\ ptr' # ptr)

FairSpec == Spec /\ WF_vars(ExpireLease) /\ \E a \in Callers : Persistent(a)

-----------------------------------------------------------------------------
(* What the broker promises.                                               *)

TypeOK ==
    /\ ptr \in Pointer /\ lease \in BOOLEAN
    /\ current \subseteq Actors
    /\ stored \subseteq Cred /\ live \subseteq Cred
    /\ parent \in [Cred -> Cred \cup {None}]
    /\ issued \in 0..MaxCred
    /\ pc \in [Actors -> CallerSteps \cup LoginSteps]
    /\ copy \in [Actors -> Pointer]
    /\ got \in [Actors -> Cred \cup {None}]
    /\ named \subseteq Pointer /\ grants \subseteq Pointer

\* The row never names a version that somebody destroyed: refreshes and logins
\* that lose a race, or do not know whether they won it, destroy only what the
\* row cannot come to name.
PointerNamesStored == ptr.secret # None => ptr.secret \in stored

\* A generation stands for one credential and a credential for one generation,
\* in the row and in everything callers were given: the generation a caller
\* reports as stale identifies the credential it was refused with.
OneCredentialPerGeneration ==
    /\ grants \subseteq named
    /\ \A p, q \in named : p.gen = q.gen => p = q
    /\ \A p, q \in named : p.secret = q.secret /\ p.secret # None => p = q

\* Callers never submit one credential upstream together, unless one of them
\* is still there when its lease has run out.
RefreshesCoalesce ==
    \A a, b \in Callers :
        a # b /\ pc[a] = "leased" /\ pc[b] = "leased"
            => copy[a].secret # copy[b].secret

\* What replaces a credential is a fresh login or the rotation of that very
\* credential: no refresh overwrites what was published while it was under way.
NoStaleOverwrite ==
    [][ptr'.secret \notin {ptr.secret, None}
          => parent'[ptr'.secret] \in {None, ptr.secret}]_vars

\* The row stops naming a credential for want of one only if the provider no
\* longer accepts it: a late invalid_grant does not log out a newer login.
ClearsOnlyDead ==
    [][ptr.secret # None /\ ptr'.secret = None => ptr.secret \notin live]_vars

\* docs/credentials.md: a race over the lease does not lose a credential.
\* While a refresher is about to publish what it staged, nobody clears the
\* credential it refreshed.
LeaseRaceLosesNothing ==
    [][ptr.secret # None /\ ptr'.secret = None
          => ~\E a \in Callers : /\ pc[a] \in {"staged", "unsure"}
                                 /\ parent[got[a]] = ptr.secret]_vars

\* A credential that the provider refuses does not stay: it is replaced, or
\* cleared so that a login is asked for, whatever leases were left behind.
DeadIsReplaced ==
    \A c \in Cred :
        ptr.secret = c /\ c \notin live ~> ptr.secret # c

\* What the broker keeps, as the promise of CredentialCell.
Cell == INSTANCE CredentialCell WITH
    Credential <- Cred,
    cell <- ptr,
    held <- named,
    known <- 1..issued,
    accepted <- live,
    material <- stored,
    served <- grants

\* However callers, logins, leases and lost answers interleave, the row is a cell: one
\* credential after another, each from its predecessor or a login, none of them twice,
\* none let go while it is good, none served that the row did not hold.
ImplementsCell == Cell!Spec
=============================================================================
